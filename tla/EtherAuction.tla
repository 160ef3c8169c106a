----------------------------- MODULE EtherAuction -----------------------------
(***************************************************************************)
(* contracts/token/EtherAuction.sol: the auction of the collateral of a    *)
(* liquidated operator, as operators on the record of an auction.  Each    *)
(* CanX holds when the call does not revert, and XAuction is its result.   *)
(***************************************************************************)
EXTENDS Integers

CONSTANTS
  Bidders,
  NoBidder,                 \* the address 0
  auctionMinimumDuration    \* 2 hours in the contract

Auction == [bestBid : Nat, bestBidder : Bidders \cup {NoBidder},
            status : {"Uninitialized", "Open", "Closed"}, endTimestamp : Nat]

NoAuction == [bestBid |-> 0, bestBidder |-> NoBidder,
              status |-> "Uninitialized", endTimestamp |-> 0]

auctionIsInexistent(auction) == auction.status = "Uninitialized"
auctionIsOpen(auction) == auction.status = "Open"

auctionOpen(auction, now) ==
  [auction EXCEPT !.status = "Open", !.endTimestamp = now + auctionMinimumDuration]

CanBid(auction, amount) == auctionIsOpen(auction) /\ auction.bestBid < amount

auctionBid(auction, bidder, amount) ==
  [auction EXCEPT !.bestBid = amount, !.bestBidder = bidder]

\* Mutant: the last bid is not given back.
BalancesAfterBidKept(balances, auction, bidder, amount) ==
  [balances EXCEPT ![bidder] = @ - amount]

\* The tokens of the last bid are released before those of the new one are
\* taken, so a bidder can outbid itself with tokens that the auction holds.
BalancesAfterBid(balances, auction, bidder, amount) ==
  LET released == IF auction.bestBidder = NoBidder THEN balances
                  ELSE [balances EXCEPT ![auction.bestBidder] = @ + auction.bestBid]
  IN  [released EXCEPT ![bidder] = @ - amount]

CanClose(auction, now) ==
  /\ auctionIsOpen(auction)
  /\ auction.bestBidder # NoBidder
  /\ auction.endTimestamp < now

auctionClose(auction) == [auction EXCEPT !.status = "Closed"]
=============================================================================
