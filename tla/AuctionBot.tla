----------------------------- MODULE AuctionBot -----------------------------
(***************************************************************************)
(* auction-bot/: the process that bids a fixed amount in every auction of  *)
(* collateral and closes the auctions it wins.  It polls the chain,        *)
(* handles at most MAXIMUM_BLOCK_INTERVAL + 1 blocks at a time, keeps the  *)
(* auctions it bid in and the last block it handled in a database, and may *)
(* be killed and started again between any two of its awaits.  An error    *)
(* ends the process (cli.ts); its database stays as it is.                 *)
(*                                                                         *)
(* The chain appears by what the bot sees: the auctions of module          *)
(* EtherAuction, the log of events, the height, and the bot's transactions *)
(* that wait to be included.  Block n has timestamp n.  Sending a          *)
(* transaction fails at once when it would revert on the state of the      *)
(* moment; one that was sent may still revert when it is included.  Of two *)
(* equal ones that wait, the second comes to nothing and is left out.  An  *)
(* operator is liquidated once, and blocks are final.                      *)
(***************************************************************************)
EXTENDS EtherAuction, Sequences, FiniteSets

CONSTANTS
  Operators,                 \* operatorPublicKeyHashes
  Bot,                       \* the address of the bot, one of Bidders
  bidAmount,                 \* what the bot bids, in any auction
  RivalBids,                 \* what others bid
  Funds,                     \* how many bids the bot's tokens pay for
  MAXIMUM_BLOCK_INTERVAL,
  StartingBlocks,            \* values of startingBlock, 0 if undefined
  MaxBlock,                  \* bound on the height of the chain
  LastOpening,               \* bound on the block of a liquidation
  MaxEnds                    \* bound on the ends of the process that count: up
                             \* to there it may be killed

ASSUME BotAssumption == Bot \in Bidders /\ NoBidder \notin Bidders
ASSUME BidsAssumption ==
  bidAmount \in Nat \ {0} /\ RivalBids \subseteq Nat \ {0}
ASSUME IntervalAssumption ==
  /\ MAXIMUM_BLOCK_INTERVAL \in Nat /\ auctionMinimumDuration \in Nat
  /\ StartingBlocks \subseteq Nat
ASSUME EndsAssumption == MaxEnds \in Nat \ {0}    \* the first end counts

VARIABLES
  auctions,          \* operator -> auction
  log,               \* the contract's events, oldest first
  head,              \* number of the last mined block
  mempool,           \* transactions sent by the bot and not yet included
  lastIndexedBlock,  \* IndexerState: NotIndexed or the last block handled
  activeAuctions,    \* ActiveAuction: operators that have a row
  pc,                \* what the process does next
  upperBoundBlock,   \* last block of the range being handled
  cursor,            \* how many events of the log are handled
  todo,              \* auctions left to bid in, or to close
  sent,              \* the auction whose transaction was sent just now, if any
  ends               \* how often the process ended, up to MaxEnds

dbVars == <<lastIndexedBlock, activeAuctions>>
memoryVars == <<upperBoundBlock, cursor, todo, sent>>
chainVars == <<auctions, log, head, mempool>>
vars == <<chainVars, dbVars, pc, memoryVars, ends>>

NotIndexed == -1
Rivals == Bidders \ {Bot}

Event ==
  [event : {"OperatorLiquidated"}, operator : Operators, block : Nat]
    \cup [event : {"LiquidationBid"}, operator : Operators, block : Nat,
          bidder : Bidders, bid : Nat]
Transaction == [call : {"bid", "close"}, operator : Operators]

Liquidated(k) ==
  [event |-> "OperatorLiquidated", operator |-> k, block |-> head + 1]
BidEvent(k, who, amount) ==
  [event |-> "LiquidationBid", operator |-> k, block |-> head + 1,
   bidder |-> who, bid |-> amount]

Init ==
  /\ auctions = [k \in Operators |-> NoAuction]
  /\ log = <<>>
  /\ head = 0
  /\ mempool = {}
  /\ lastIndexedBlock = NotIndexed
  /\ activeAuctions = {}
  /\ pc = "down"
  /\ upperBoundBlock = 0
  /\ cursor = 0
  /\ todo = {}
  /\ sent = {}
  /\ ends = 0

-----------------------------------------------------------------------------
(* The chain.  What is executed belongs to the block after head.           *)

botUnchanged == UNCHANGED <<dbVars, pc, memoryVars, ends>>

Mine ==
  /\ head < MaxBlock
  /\ head' = head + 1
  /\ UNCHANGED <<auctions, log, mempool>> /\ botUnchanged

\* liquidateOperator.
Liquidate(k) ==
  /\ head < LastOpening
  /\ auctionIsInexistent(auctions[k])
  /\ auctions' = [auctions EXCEPT ![k] = auctionOpen(@, head + 1)]
  /\ log' = Append(log, Liquidated(k))
  /\ UNCHANGED <<head, mempool>> /\ botUnchanged

\* liquidationBid and closeLiquidationAuction, of others.
RivalBid(k, who, amount) ==
  /\ CanBid(auctions[k], amount)
  /\ auctions' = [auctions EXCEPT ![k] = auctionBid(@, who, amount)]
  /\ log' = Append(log, BidEvent(k, who, amount))
  /\ UNCHANGED <<head, mempool>> /\ botUnchanged

RivalClose(k) ==
  /\ CanClose(auctions[k], head + 1)
  /\ auctions' = [auctions EXCEPT ![k] = auctionClose(@)]
  /\ UNCHANGED <<log, head, mempool>> /\ botUnchanged

\* The tokens of the bot's leading and winning bids are gone from its balance.
CanPay == Cardinality({k \in Operators : auctions[k].bestBidder = Bot}) < Funds

Accepted(tx) ==
  \/ tx.call = "bid" /\ CanBid(auctions[tx.operator], bidAmount) /\ CanPay
  \/ tx.call = "close" /\ CanClose(auctions[tx.operator], head + 1)

\* A transaction of the bot that waits is executed; it may revert.
Include(tx) ==
  /\ tx \in mempool
  /\ mempool' = mempool \ {tx}
  /\ LET k == tx.operator
     IN  \/ /\ Accepted(tx) /\ tx.call = "bid"
            /\ auctions' = [auctions EXCEPT ![k] = auctionBid(@, Bot, bidAmount)]
            /\ log' = Append(log, BidEvent(k, Bot, bidAmount))
         \/ /\ Accepted(tx) /\ tx.call = "close"
            /\ auctions' = [auctions EXCEPT ![k] = auctionClose(@)]
            /\ UNCHANGED log
         \/ ~Accepted(tx) /\ UNCHANGED <<auctions, log>>
  /\ UNCHANGED head /\ botUnchanged

-----------------------------------------------------------------------------
(* The bot.                                                                *)

\* createConfig and initialize: a starting block of 0 is falsy, as undefined,
\* and both become the latest block.
FirstIndexed(startingBlock) ==
  IF startingBlock = 0 THEN head ELSE startingBlock

\* cli.ts and AuctionBot.create: the database is initialized if it is empty.
Start ==
  /\ pc \in {"down", "failed"}
  /\ pc' = "idle"
  /\ IF lastIndexedBlock = NotIndexed
     THEN \E s \in StartingBlocks : lastIndexedBlock' = FirstIndexed(s)
     ELSE UNCHANGED lastIndexedBlock
  /\ UNCHANGED <<activeAuctions, chainVars, memoryVars, ends>>

Forget == upperBoundBlock' = 0 /\ cursor' = 0 /\ todo' = {} /\ sent' = {}

\* An error thrown by an await ends the process.
Fail ==
  /\ pc' = "failed"
  /\ ends' = IF ends < MaxEnds THEN ends + 1 ELSE ends
  /\ Forget
  /\ UNCHANGED <<chainVars, dbVars>>

\* The process is killed, or stopped between two polls.
Kill ==
  /\ pc \notin {"down", "failed"}
  /\ ends < MaxEnds
  /\ ends' = ends + 1
  /\ pc' = "down"
  /\ Forget
  /\ UNCHANGED <<chainVars, dbVars>>

\* Mutant: the interval is not cut at the last block.
UpperBoundUncapped == lastIndexedBlock + 1 + MAXIMUM_BLOCK_INTERVAL

\* processNextBlocks: the range of a poll, none if there is no new block.
UpperBound ==
  IF head <= lastIndexedBlock + 1 + MAXIMUM_BLOCK_INTERVAL
    THEN head ELSE lastIndexedBlock + 1 + MAXIMUM_BLOCK_INTERVAL

\* The events up to block n are the first Handled(n) of the log.
Handled(n) == Cardinality({i \in DOMAIN log : log[i].block <= n})

\* Mutant: the range is saved as handled when it is read.
PollSaving ==
  /\ pc = "idle"
  /\ lastIndexedBlock + 1 <= head
  /\ upperBoundBlock' = UpperBound
  /\ lastIndexedBlock' = UpperBound
  /\ cursor' = Handled(lastIndexedBlock)
  /\ pc' = "events"
  /\ UNCHANGED <<chainVars, activeAuctions, todo, sent, ends>>

\* Mutant: the last block is left for later.
PollLate ==
  /\ pc = "idle"
  /\ lastIndexedBlock + 1 < head
  /\ upperBoundBlock' = UpperBound
  /\ cursor' = Handled(lastIndexedBlock)
  /\ pc' = "events"
  /\ UNCHANGED <<chainVars, dbVars, todo, sent, ends>>

Poll ==
  /\ pc = "idle"
  /\ lastIndexedBlock + 1 <= head
  /\ upperBoundBlock' = UpperBound
  /\ cursor' = Handled(lastIndexedBlock)
  /\ pc' = "events"
  /\ UNCHANGED <<chainVars, dbVars, todo, sent, ends>>

\* Mutant: a bid equal to the bot's does not outbid it.
OutbidsHigher(e) ==
  e.event = "LiquidationBid" /\ e.bidder # Bot /\ bidAmount < e.bid

\* The event is a bid of another that the bot's does not beat.
Outbids(e) ==
  e.event = "LiquidationBid" /\ e.bidder # Bot /\ bidAmount <= e.bid

\* processBids, one event: the auctions it opens are gathered in todo; one in
\* which the bot is outbid is dropped from todo, or from the database.
ProcessEvent ==
  /\ pc = "events"
  /\ cursor < Handled(upperBoundBlock)
  /\ cursor' = cursor + 1
  /\ LET e == log[cursor + 1]
     IN  \/ /\ e.event = "OperatorLiquidated"
            /\ todo' = todo \cup {e.operator}
            /\ UNCHANGED activeAuctions
         \/ /\ Outbids(e)
            /\ todo' = todo \ {e.operator}
            /\ activeAuctions' = IF e.operator \in todo THEN activeAuctions
                                 ELSE activeAuctions \ {e.operator}
         \/ /\ e.event = "LiquidationBid" /\ ~Outbids(e)
            /\ UNCHANGED <<todo, activeAuctions>>
  /\ UNCHANGED <<chainVars, lastIndexedBlock, pc, upperBoundBlock, sent, ends>>

EventsProcessed ==
  /\ pc = "events"
  /\ cursor = Handled(upperBoundBlock)
  /\ pc' = "bid"
  /\ UNCHANGED <<chainVars, dbVars, memoryVars, ends>>

\* An await that sends a transaction: it fails if the transaction would revert.
Send(call, k) ==
  \/ /\ Accepted([call |-> call, operator |-> k])
     /\ mempool' = mempool \cup {[call |-> call, operator |-> k]}
     /\ sent' = {k}
     /\ UNCHANGED <<auctions, log, head, dbVars, pc, upperBoundBlock, cursor,
                    todo, ends>>
  \/ ~Accepted([call |-> call, operator |-> k]) /\ Fail

\* bidInAuctions, for each auction: the bid is sent, then the row is created,
\* which fails if there is one.
SendBid(k) == pc = "bid" /\ sent = {} /\ k \in todo /\ Send("bid", k)

CreateRow(k) ==
  /\ pc = "bid"
  /\ k \in sent
  /\ \/ /\ k \notin activeAuctions
        /\ activeAuctions' = activeAuctions \cup {k}
        /\ todo' = todo \ {k}
        /\ sent' = {}
        /\ UNCHANGED <<chainVars, lastIndexedBlock, pc, upperBoundBlock, cursor,
                       ends>>
     \/ k \in activeAuctions /\ Fail

\* closeAuctions begins: the rows are read, with the time of the last block of
\* the range.  A row has the endTimestamp of its auction.
ReadRows ==
  /\ pc = "bid"
  /\ todo = {} /\ sent = {}
  /\ pc' = "close"
  /\ todo' = {k \in activeAuctions : auctions[k].endTimestamp < upperBoundBlock}
  /\ UNCHANGED <<chainVars, dbVars, upperBoundBlock, cursor, sent, ends>>

SendClose(k) == pc = "close" /\ sent = {} /\ k \in todo /\ Send("close", k)

DestroyRow(k) ==
  /\ pc = "close"
  /\ k \in sent
  /\ activeAuctions' = activeAuctions \ {k}
  /\ todo' = todo \ {k}
  /\ sent' = {}
  /\ UNCHANGED <<chainVars, lastIndexedBlock, pc, upperBoundBlock, cursor, ends>>

\* The end of processNextBlocks.
Save ==
  /\ pc = "close"
  /\ todo = {} /\ sent = {}
  /\ lastIndexedBlock' = upperBoundBlock
  /\ pc' = "idle"
  /\ Forget
  /\ UNCHANGED <<chainVars, activeAuctions, ends>>

BotStep ==
  \/ Start
  \/ Poll
  \/ ProcessEvent
  \/ EventsProcessed
  \/ \E k \in Operators : SendBid(k)
  \/ \E k \in Operators : CreateRow(k)
  \/ ReadRows
  \/ \E k \in Operators : SendClose(k)
  \/ \E k \in Operators : DestroyRow(k)
  \/ Save

Next ==
  \/ BotStep
  \/ Kill
  \/ \E tx \in Transaction : Include(tx)
  \/ Mine
  \/ \E k \in Operators : Liquidate(k)
  \/ \E k \in Operators, who \in Rivals, n \in RivalBids : RivalBid(k, who, n)
  \/ \E k \in Operators : RivalClose(k)

Spec == Init /\ [][Next]_vars

\* The process is started again when it ended and otherwise goes on; blocks are
\* mined and take up the transactions that were sent.  Nothing is assumed of
\* the others.
Fairness == WF_vars(BotStep) /\ WF_vars(\E tx \in Transaction : Include(tx)) /\ WF_vars(Mine)
FairSpec == Spec /\ Fairness

-----------------------------------------------------------------------------
(* Properties.                                                             *)

\* The bot leads an open auction.
Leads(k) == auctionIsOpen(auctions[k]) /\ auctions[k].bestBidder = Bot

\* Every variable has its type; the range being handled ends at a block that was
\* mined, and the bot keeps nothing in memory between polls.
TypeOK ==
  /\ auctions \in [Operators -> Auction]
  /\ log \in Seq(Event)
  /\ head \in Nat
  /\ mempool \subseteq Transaction
  /\ lastIndexedBlock \in Nat \cup {NotIndexed}
  /\ activeAuctions \subseteq Operators
  /\ pc \in {"down", "failed", "idle", "events", "bid", "close"}
  /\ upperBoundBlock \in Nat /\ cursor \in Nat /\ ends \in Nat
  /\ todo \subseteq Operators
  /\ upperBoundBlock <= head
  /\ sent = {} \/ \E k \in Operators : sent = {k}
  /\ pc \notin {"events", "bid", "close"} => todo = {} /\ sent = {}

OpenedAt(k, n) ==
  \E i \in DOMAIN log :
    log[i].event = "OperatorLiquidated" /\ log[i].operator = k /\ log[i].block > n

Waiting(call, k) == [call |-> call, operator |-> k] \in mempool

\* "Eventually, the auction will be closed by the bot if it has the winning
\* bid" (auction-bot/README.md:12) needs the bot to know of it: an open auction
\* in which the bot leads has a row, or its liquidation is still to be handled,
\* or the call that closes it is on its way.  Whenever the bot is killed.
LeadIsTracked ==
  \A k \in Operators : Leads(k) =>
    \/ k \in activeAuctions
    \/ OpenedAt(k, lastIndexedBlock)
    \/ Waiting("close", k)

OutbidAfter(k, i) ==
  \E j \in DOMAIN log : j > i /\ log[j].operator = k /\ Outbids(log[j])

\* The events that the rows reflect.
Reflected == IF pc = "events" THEN cursor
             ELSE IF pc \in {"bid", "close"} THEN Handled(upperBoundBlock)
             ELSE Handled(lastIndexedBlock)

\* Conversely a row of an open auction is there for a reason: the bot leads, or
\* its bid is on its way, or an event still to be handled drops the row.  So the
\* bot does not close auctions for others.  This holds until the process ends
\* in the middle of a poll: a second pass over the same liquidation drops the
\* outbid auction from the pass and keeps the row of the first.  It supposes that
\* the bot has the tokens for a bid in every auction (Funds): without them a bid
\* that was sent may be refused when it is included, and its row stays.
RowIsJustified ==
  ends = 0 =>
    \A k \in activeAuctions :
      auctionIsOpen(auctions[k]) =>
        Leads(k) \/ Waiting("bid", k) \/ OutbidAfter(k, Reflected)

\* As long as no call of the bot is refused, the chain is handled to its end,
\* and the bot closes the auctions it leads unless it is outbid.
CatchesUp == <>(lastIndexedBlock >= MaxBlock)
ClosedWhenWon == \A k \in Operators : Leads(k) ~> ~Leads(k)

Serves == [](pc # "failed") => CatchesUp /\ ClosedWhenWon
=============================================================================
