------------------------------- MODULE MCBot -------------------------------
(* Auctions, one bot, rivals that bid less, as much and more.              *)
EXTENDS AuctionBot, TLC

CONSTANTS First   \* the operator that is liquidated first

Two == \E k \in Operators \ {First} : ~auctionIsInexistent(auctions[k])
RivalsBid == \E i \in DOMAIN log :
               log[i].event = "LiquidationBid" /\ log[i].bidder # Bot

RivalStep ==
  \/ \E k \in Operators, who \in Rivals, n \in RivalBids : RivalBid(k, who, n)
  \/ ~Two /\ \E k \in Operators : RivalClose(k)

\* One auction has rivals and ends of the process at will.  When there are two,
\* they open in one block, one rival bids once, and only an error ends the
\* process.
LiveNext ==
  \/ BotStep
  \/ \E tx \in Transaction : Include(tx)
  \/ Mine
  \/ ~Two /\ Kill
  \/ ~(Two /\ RivalsBid) /\ RivalStep
  \/ Liquidate(First)
  \/ /\ ~auctionIsInexistent(auctions[First])
     /\ ends = 0 /\ head = 0 /\ ~RivalsBid
     /\ \E k \in Operators : Liquidate(k)

LiveSpec == Init /\ [][LiveNext]_vars /\ Fairness
=============================================================================
