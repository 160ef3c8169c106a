--------------------------- MODULE AuctionBot_proofs ---------------------------
(***************************************************************************)
(* Proofs about AuctionBot, for any operators, bids, funds, interval of    *)
(* blocks and number of times that the process is killed: the bot keeps    *)
(* track of every auction it leads; and, with the tokens for a bid in each *)
(* auction, it keeps track of no other until its process ends.             *)
(***************************************************************************)
EXTENDS AuctionBot, SequenceTheorems, SumLemmas

USE BotAssumption, BidsAssumption, IntervalAssumption, EndsAssumption

\* Whether k is liquidated by event i of the log.
Opens(i, k) == log[i].event = "OperatorLiquidated" /\ log[i].operator = k

\* The bot cannot lead the auction of k any more: it is closed, the call that
\* closes it waits, or a rival bid as much as the bot does.
Settled(k) ==
  \/ auctions[k].status = "Closed"
  \/ Waiting("close", k)
  \/ \E i \in DOMAIN log : log[i].operator = k /\ Outbids(log[i])

\* The bot may lead the auction of k once its transactions are included.
Engaged(k) == auctions[k].bestBidder = Bot \/ Waiting("bid", k)

\* Blocks of the log, in order; the last may still be open.
LogInOrder ==
  \A i, j \in DOMAIN log :
    /\ log[i].block <= head + 1
    /\ i <= j => log[i].block <= log[j].block

\* Before the database is initialized the bot has done nothing.
NothingBefore ==
  lastIndexedBlock = NotIndexed => pc = "down" /\ \A k \in Operators : ~Engaged(k)

\* A rival's bid that the bot cannot beat stays unbeaten by it.
OutbidIsFinal ==
  \A i \in DOMAIN log : Outbids(log[i]) =>
    /\ auctions[log[i].operator].bestBidder # Bot
    /\ auctions[log[i].operator].bestBid >= bidAmount

\* A call that closes an auction succeeds unless another one came first.
CloseSucceeds ==
  \A k \in Operators : Waiting("close", k) =>
    auctions[k].status = "Closed" \/ CanClose(auctions[k], head + 1)

\* Generalizes LeadIsTracked to the bids that wait.
EngagedIsTracked ==
  \A k \in Operators : Engaged(k) =>
    k \in activeAuctions \/ OpenedAt(k, lastIndexedBlock) \/ Settled(k)

\* The events of the range that is handled lie around the cursor.
Ranged ==
  /\ pc \in {"events", "bid", "close"} => lastIndexedBlock < upperBoundBlock
  /\ pc = "events" =>
       /\ cursor <= Len(log)
       /\ \A i \in DOMAIN log :
            /\ log[i].block <= lastIndexedBlock => i <= cursor
            /\ i <= cursor => log[i].block <= upperBoundBlock

\* What is still to be bid in was opened in the range.
TodoIsOpened ==
  pc \in {"events", "bid"} =>
    \A k \in todo : OpenedAt(k, lastIndexedBlock)

\* What was opened in the part of the range that is handled is to be bid in, or
\* has a row, or is settled.
OpenedIsHandled ==
  pc \in {"events", "bid", "close"} =>
    \A k \in Operators, i \in DOMAIN log :
      /\ Opens(i, k)
      /\ log[i].block > lastIndexedBlock
      /\ IF pc = "events" THEN i <= cursor ELSE log[i].block <= upperBoundBlock
      => \/ pc # "close" /\ k \in todo
         \/ k \in activeAuctions
         \/ Settled(k)

\* A call that closes the auction was sent.
SentIsSettled == pc = "close" => \A k \in sent : Settled(k)

IInv ==
  /\ TypeOK /\ LogInOrder /\ NothingBefore /\ OutbidIsFinal /\ CloseSucceeds
  /\ EngagedIsTracked /\ Ranged /\ TodoIsOpened /\ OpenedIsHandled
  /\ SentIsSettled

-----------------------------------------------------------------------------
(* The log.                                                                *)

\* What is in an event.
LEMMA EventFacts ==
  ASSUME NEW e \in Event
  PROVE  /\ e.operator \in Operators
         /\ e.block \in Nat
         /\ e.event = "LiquidationBid" => e.bid \in Nat
         /\ e.event \in {"OperatorLiquidated", "LiquidationBid"}
BY DEF Event

\* The indexes of the log, and what is there.
LEMMA LogFacts ==
  ASSUME TypeOK
  PROVE  /\ Len(log) \in Nat
         /\ DOMAIN log = 1 .. Len(log)
         /\ \A i \in DOMAIN log :
              /\ log[i] \in Event
              /\ log[i].block \in Nat
              /\ log[i].operator \in Operators
<1>1. log \in Seq(Event)
  BY DEF TypeOK
<1>2. Len(log) \in Nat /\ DOMAIN log = 1 .. Len(log)
  BY <1>1, LenProperties
<1>3. \A i \in DOMAIN log : log[i] \in Event
  BY <1>1, <1>2, ElementOfSeq
<1> QED
  BY <1>2, <1>3, EventFacts

\* The log with one more event.
LEMMA LogAppend ==
  ASSUME TypeOK, NEW e \in Event, log' = Append(log, e)
  PROVE  /\ log' \in Seq(Event)
         /\ Len(log') = Len(log) + 1
         /\ DOMAIN log' = DOMAIN log \cup {Len(log) + 1}
         /\ Len(log) + 1 \notin DOMAIN log
         /\ \A i \in DOMAIN log : log'[i] = log[i]
         /\ log'[Len(log) + 1] = e
<1>1. log \in Seq(Event)
  BY DEF TypeOK
<1>2. /\ log' \in Seq(Event)
      /\ Len(log') = Len(log) + 1
      /\ \A i \in 1 .. Len(log) : log'[i] = log[i]
      /\ log'[Len(log) + 1] = e
  BY <1>1, AppendProperties
<1>3. Len(log) \in Nat /\ DOMAIN log = 1 .. Len(log)
  BY <1>1, LenProperties
<1>4. DOMAIN log' = 1 .. Len(log) + 1
  BY <1>2, LenProperties
<1> QED
  BY <1>2, <1>3, <1>4

\* The events up to block n come first, and Handled(n) counts them.
LEMMA HandledIs ==
  ASSUME TypeOK, LogInOrder, NEW n \in Int
  PROVE  /\ Handled(n) \in 0 .. Len(log)
         /\ \A i \in DOMAIN log : log[i].block <= n <=> i <= Handled(n)
<1> DEFINE D == {i \in DOMAIN log : log[i].block <= n}
<1> DEFINE L == Len(log)
<1>1. L \in Nat /\ DOMAIN log = 1 .. L
  BY LogFacts
<1>2. \A i, j \in 1 .. L : i <= j /\ j \in D => i \in D
  BY <1>1, LogFacts DEF LogInOrder
<1>3. D \subseteq 1 .. L
  BY <1>1
<1> HIDE DEF D, L
<1>4. \E m \in 0 .. L : D = 1 .. m
  <2> DEFINE Out == {i \in Nat : i >= 1 /\ i \notin D}
  <2>1. L + 1 \in Out
    BY <1>1, <1>3
  <2>2. Out \in SUBSET Nat /\ Out # {}
    BY <2>1
  <2>3. PICK x \in Out : \A y \in Out : x <= y
    <3> HIDE DEF Out
    <3> QED
      BY <2>2, LeastNatural
  <2>4. x \in Nat /\ x >= 1 /\ x <= L + 1 /\ x \notin D
    BY <2>1, <2>3
  <2>5. ASSUME NEW i \in Nat, i >= 1, i < x
        PROVE  i \in D
    BY <2>3, <2>4, <2>5
  <2>6. ASSUME NEW i \in D
        PROVE  i < x
    <3>1. i \in 1 .. L
      BY <1>3
    <3>2. CASE x <= i
      <4>1. x \in 1 .. L
        BY <1>1, <2>4, <3>1, <3>2
      <4> QED
        BY <1>2, <2>4, <3>1, <3>2, <4>1
    <3> QED
      BY <2>4, <3>1, <3>2
  <2>7. D = 1 .. x - 1
    <3>1. ASSUME NEW i \in D
          PROVE  i \in 1 .. x - 1
      <4>1. i \in 1 .. L /\ i < x
        BY <1>3, <2>6
      <4> QED
        BY <1>1, <2>4, <4>1
    <3>2. ASSUME NEW i \in 1 .. x - 1
          PROVE  i \in D
      <4>1. i \in Nat /\ i >= 1 /\ i < x
        BY <2>4
      <4> QED
        BY <2>5, <4>1
    <3> QED
      BY <3>1, <3>2
  <2>8. x - 1 \in 0 .. L
    BY <1>1, <2>4
  <2> QED
    BY <2>7, <2>8
<1>5. PICK m \in 0 .. L : D = 1 .. m
  BY <1>4
<1>6. Cardinality(D) = m
  <2>1. m \in Nat
    BY <1>1, <1>5
  <2> QED
    BY <1>5, <2>1, FS_Interval
<1>7. Handled(n) = m
  BY <1>6 DEF Handled, D
<1> QED
  BY <1>1, <1>5, <1>7 DEF D, L
-----------------------------------------------------------------------------
(* Auctions.                                                               *)

\* What opening an auction makes of it.
LEMMA OpenUpdate ==
  ASSUME NEW a \in Auction, NEW now \in Nat
  PROVE  /\ auctionOpen(a, now) \in Auction
         /\ auctionOpen(a, now).bestBid = a.bestBid
         /\ auctionOpen(a, now).bestBidder = a.bestBidder
         /\ auctionOpen(a, now).status = "Open"
<1>1. auctionMinimumDuration \in Nat /\ now + auctionMinimumDuration \in Nat
  OBVIOUS
<1> QED
  BY <1>1 DEF Auction, auctionOpen

\* What a bid makes of it.
LEMMA BidUpdate ==
  ASSUME NEW a \in Auction, NEW who \in Bidders, NEW amount \in Nat
  PROVE  /\ auctionBid(a, who, amount) \in Auction
         /\ auctionBid(a, who, amount).bestBid = amount
         /\ auctionBid(a, who, amount).bestBidder = who
         /\ auctionBid(a, who, amount).status = a.status
         /\ auctionBid(a, who, amount).endTimestamp = a.endTimestamp
BY DEF Auction, auctionBid

\* What closing makes of it.
LEMMA CloseUpdate ==
  ASSUME NEW a \in Auction
  PROVE  /\ auctionClose(a) \in Auction
         /\ auctionClose(a).bestBid = a.bestBid
         /\ auctionClose(a).bestBidder = a.bestBidder
         /\ auctionClose(a).status = "Closed"
BY DEF Auction, auctionClose

-----------------------------------------------------------------------------
(* Steps of the chain.                                                     *)

\* What a step of the chain has to keep for the invariant to be kept: events
\* are appended in the block that is open, no transaction is sent, and what
\* was settled stays so.
LEMMA ChainStep ==
  ASSUME IInv, TypeOK', botUnchanged,
         head' \in {head, head + 1}, mempool' \subseteq mempool,
         \/ log' = log
         \/ \E e \in Event : e.block = head + 1 /\ log' = Append(log, e),
         \A k \in Operators : auctions[k].status = "Closed" =>
                               auctions'[k].status = "Closed",
         \A k \in Operators : Waiting("close", k) =>
           auctions'[k].status = "Closed" \/ Waiting("close", k)',
         \A k \in Operators : Engaged(k)' => Engaged(k),
         OutbidIsFinal', CloseSucceeds'
  PROVE  IInv'
<1>1. /\ TypeOK /\ LogInOrder /\ Ranged /\ TodoIsOpened /\ OpenedIsHandled
      /\ SentIsSettled /\ EngagedIsTracked /\ NothingBefore
  BY DEF IInv
<1>2. /\ lastIndexedBlock' = lastIndexedBlock /\ activeAuctions' = activeAuctions
      /\ pc' = pc /\ upperBoundBlock' = upperBoundBlock /\ cursor' = cursor
      /\ todo' = todo /\ sent' = sent
  BY DEF botUnchanged, dbVars, memoryVars
<1>3. head \in Nat /\ Len(log) \in Nat /\ DOMAIN log = 1 .. Len(log)
  BY <1>1, LogFacts DEF TypeOK
<1>4. \A i \in DOMAIN log : log[i].block \in Nat
  BY <1>1, LogFacts
\* What was in the log is there; what is new is at its end, of the open block.
<1> DEFINE L == Len(log)
<1>5. /\ DOMAIN log \subseteq DOMAIN log'
      /\ \A i \in DOMAIN log : log'[i] = log[i]
      /\ DOMAIN log' \subseteq DOMAIN log \cup {L + 1}
      /\ L + 1 \in DOMAIN log' => log'[L + 1].block = head + 1
      /\ L <= Len(log')
  <2>1. CASE log' = log
    <3>1. L + 1 \notin DOMAIN log
      BY <1>3
    <3> QED
      BY <2>1, <3>1, <1>3
  <2>2. ASSUME NEW e \in Event, e.block = head + 1, log' = Append(log, e)
        PROVE  <1>5
    <3>1. /\ DOMAIN log' = DOMAIN log \cup {L + 1}
          /\ \A i \in DOMAIN log : log'[i] = log[i]
          /\ log'[L + 1] = e
          /\ Len(log') = L + 1
      BY <1>1, <2>2, LogAppend
    <3>2. L <= Len(log')
      BY <1>3, <3>1
    <3> HIDE DEF L
    <3> QED
      BY <2>2, <3>1, <3>2
  <2> QED
    BY <2>1, <2>2
<1> HIDE DEF L
<1>6. ASSUME NEW k \in Operators, Settled(k)
      PROVE  Settled(k)'
  <2>1. CASE auctions[k].status = "Closed" \/ Waiting("close", k)
    BY <2>1 DEF Settled
  <2>2. ASSUME NEW i \in DOMAIN log, log[i].operator = k, Outbids(log[i])
        PROVE  Settled(k)'
    <3>1. i \in DOMAIN log' /\ log'[i].operator = k /\ Outbids(log'[i])
      BY <1>5, <2>2
    <3> QED
      BY <3>1 DEF Settled, Outbids
  <2> QED
    BY <1>6, <2>1, <2>2 DEF Settled
<1>7. ASSUME NEW k \in Operators, OpenedAt(k, lastIndexedBlock)
      PROVE  OpenedAt(k, lastIndexedBlock)'
  <2>1. PICK i \in DOMAIN log : /\ log[i].event = "OperatorLiquidated"
                               /\ log[i].operator = k
                               /\ log[i].block > lastIndexedBlock
    BY <1>7 DEF OpenedAt
  <2> QED
    BY <1>2, <1>5, <2>1 DEF OpenedAt
<1>8. LogInOrder'
  <2> SUFFICES ASSUME NEW i \in DOMAIN log', NEW j \in DOMAIN log'
               PROVE  /\ log'[i].block <= head' + 1
                      /\ i <= j => log'[i].block <= log'[j].block
    BY DEF LogInOrder
  <2>1. ASSUME NEW m \in DOMAIN log'
        PROVE  /\ m \in DOMAIN log => /\ log'[m] = log[m]
                                      /\ log[m].block \in Nat
                                      /\ log[m].block <= head + 1
                                      /\ m <= L /\ m \in Nat
               /\ m \notin DOMAIN log => m = L + 1 /\ log'[m].block = head + 1
    BY <1>1, <1>3, <1>4, <1>5 DEF LogInOrder, L
  <2>2. CASE i \in DOMAIN log /\ j \in DOMAIN log
    BY <1>1, <1>3, <2>1, <2>2 DEF LogInOrder
  <2>3. CASE ~(i \in DOMAIN log /\ j \in DOMAIN log)
    BY <1>3, <2>1, <2>3 DEF L
  <2> QED
    BY <2>2, <2>3
<1>9. NothingBefore'
  BY <1>1, <1>2 DEF NothingBefore
<1>10. EngagedIsTracked'
  <2> SUFFICES ASSUME NEW k \in Operators, Engaged(k)'
               PROVE  \/ k \in activeAuctions'
                      \/ OpenedAt(k, lastIndexedBlock)'
                      \/ Settled(k)'
    BY DEF EngagedIsTracked
  <2> QED
    BY <1>1, <1>2, <1>6, <1>7 DEF EngagedIsTracked
<1>11. Ranged'
  <2>1. pc \in {"events", "bid", "close"} => lastIndexedBlock < upperBoundBlock
    BY <1>1 DEF Ranged
  <2> SUFFICES ASSUME pc = "events"
               PROVE  /\ cursor <= Len(log')
                      /\ \A i \in DOMAIN log' :
                           /\ log'[i].block <= lastIndexedBlock => i <= cursor
                           /\ i <= cursor => log'[i].block <= upperBoundBlock
    BY <1>2, <2>1 DEF Ranged
  <2>2. /\ cursor \in Nat /\ upperBoundBlock \in Nat /\ upperBoundBlock <= head
        /\ lastIndexedBlock \in Int
    BY <1>1 DEF TypeOK, NotIndexed
  <2>3. cursor <= L
    BY <1>1 DEF Ranged, L
  <2>4. Len(log') \in Nat
    BY LenProperties DEF TypeOK
  <2>5. ASSUME NEW i \in DOMAIN log'
        PROVE  /\ log'[i].block <= lastIndexedBlock => i <= cursor
               /\ i <= cursor => log'[i].block <= upperBoundBlock
    <3>1. CASE i \in DOMAIN log
      BY <1>1, <1>5, <3>1 DEF Ranged
    <3>2. CASE i \notin DOMAIN log
      <4>1. i = L + 1 /\ log'[i].block = head + 1
        BY <1>5, <3>2
      <4> QED
        BY <1>3, <2>1, <2>2, <2>3, <4>1 DEF L
    <3> QED
      BY <3>1, <3>2
  <2> QED
    BY <1>3, <1>5, <2>2, <2>3, <2>4, <2>5 DEF L
<1>12. TodoIsOpened'
  <2> SUFFICES ASSUME pc \in {"events", "bid"}, NEW k \in todo
               PROVE  OpenedAt(k, lastIndexedBlock)'
    BY <1>2 DEF TodoIsOpened
  <2>1. k \in Operators
    BY <1>1 DEF TypeOK
  <2> QED
    BY <1>1, <1>7, <2>1 DEF TodoIsOpened
<1>13. OpenedIsHandled'
  <2> SUFFICES ASSUME pc \in {"events", "bid", "close"},
                      NEW k \in Operators, NEW i \in DOMAIN log',
                      Opens(i, k)', log'[i].block > lastIndexedBlock,
                      IF pc = "events" THEN i <= cursor
                                       ELSE log'[i].block <= upperBoundBlock
               PROVE  \/ pc # "close" /\ k \in todo
                      \/ k \in activeAuctions
                      \/ Settled(k)'
    BY <1>2 DEF OpenedIsHandled
  <2>1. /\ cursor \in Nat /\ upperBoundBlock \in Nat /\ upperBoundBlock <= head
        /\ pc = "events" => cursor <= L
    BY <1>1 DEF TypeOK, Ranged, L
  <2>2. i \in DOMAIN log
    <3> SUFFICES ASSUME i \notin DOMAIN log PROVE FALSE
      OBVIOUS
    <3>1. i = L + 1 /\ log'[i].block = head + 1
      BY <1>5
    <3> QED
      BY <1>3, <2>1, <3>1 DEF L
  <2>3. Opens(i, k) /\ log[i].block = log'[i].block
    BY <1>5, <2>2 DEF Opens
  <2>4. \/ pc # "close" /\ k \in todo
        \/ k \in activeAuctions
        \/ Settled(k)
    BY <1>1, <2>2, <2>3 DEF OpenedIsHandled
  <2> QED
    BY <1>6, <2>4
<1>14. SentIsSettled'
  <2> SUFFICES ASSUME pc = "close", NEW k \in sent
               PROVE  Settled(k)'
    BY <1>2 DEF SentIsSettled
  <2>1. k \in Operators
    BY <1>1 DEF TypeOK
  <2> QED
    BY <1>1, <1>6, <2>1 DEF SentIsSettled
<1> QED
  BY <1>8, <1>9, <1>10, <1>11, <1>12, <1>13, <1>14 DEF IInv
\* The same of a step about one auction, in terms of that auction: a bid that
\* the bot cannot beat, a closing and a time that is up are not undone, and the
\* bot leads only by a bid of its own.
LEMMA AuctionStep ==
  ASSUME IInv, NEW k \in Operators, NEW a \in Auction,
         auctions' = [auctions EXCEPT ![k] = a],
         botUnchanged, head' = head, mempool' \subseteq mempool,
         \/ log' = log
         \/ \E e \in Event :
              /\ e.block = head + 1 /\ log' = Append(log, e)
              /\ Outbids(e) => /\ e.operator = k
                               /\ a.bestBidder # Bot /\ a.bestBid >= bidAmount,
         auctions[k].bestBidder # Bot /\ auctions[k].bestBid >= bidAmount =>
           a.bestBidder # Bot /\ a.bestBid >= bidAmount,
         auctions[k].status = "Closed" => a.status = "Closed",
         CanClose(auctions[k], head + 1) =>
           a.status = "Closed" \/ CanClose(a, head + 1),
         a.bestBidder = Bot => auctions[k].bestBidder = Bot \/ Waiting("bid", k),
         \A j \in Operators : Waiting("close", j) =>
           (j = k /\ a.status = "Closed") \/ Waiting("close", j)'
  PROVE  IInv'
<1>1. /\ TypeOK /\ OutbidIsFinal /\ CloseSucceeds
  BY DEF IInv
<1>2. /\ auctions' \in [Operators -> Auction]
      /\ \A j \in Operators : auctions'[j] = IF j = k THEN a ELSE auctions[j]
  BY <1>1 DEF TypeOK
<1>3. TypeOK'
  <2>1. log' \in Seq(Event)
    BY <1>1, LogAppend DEF TypeOK
  <2> QED
    BY <1>1, <1>2, <2>1 DEF TypeOK, botUnchanged, dbVars, memoryVars
<1>4. OutbidIsFinal'
  <2> SUFFICES ASSUME NEW i \in DOMAIN log', Outbids(log'[i])
               PROVE  /\ auctions'[log'[i].operator].bestBidder # Bot
                      /\ auctions'[log'[i].operator].bestBid >= bidAmount
    BY DEF OutbidIsFinal, Outbids
  <2>1. ASSUME i \in DOMAIN log, log'[i] = log[i]
        PROVE  /\ auctions'[log'[i].operator].bestBidder # Bot
               /\ auctions'[log'[i].operator].bestBid >= bidAmount
    <3>1. log[i].operator \in Operators
      BY <1>1, <2>1, LogFacts
    <3>2. /\ auctions[log[i].operator].bestBidder # Bot
          /\ auctions[log[i].operator].bestBid >= bidAmount
      BY <1>1, <2>1 DEF OutbidIsFinal
    <3> QED
      BY <1>2, <2>1, <3>1, <3>2
  <2>2. ASSUME NEW e \in Event, log' = Append(log, e),
               Outbids(e) => /\ e.operator = k
                             /\ a.bestBidder # Bot /\ a.bestBid >= bidAmount
        PROVE  /\ auctions'[log'[i].operator].bestBidder # Bot
               /\ auctions'[log'[i].operator].bestBid >= bidAmount
    <3>1. \/ i \in DOMAIN log /\ log'[i] = log[i]
          \/ log'[i] = e
      BY <1>1, <2>2, LogAppend
    <3> QED
      BY <1>2, <2>1, <2>2, <3>1
  <2> QED
    BY <2>1, <2>2
<1>5. CloseSucceeds'
  <2> SUFFICES ASSUME NEW j \in Operators, Waiting("close", j)'
               PROVE  \/ auctions'[j].status = "Closed"
                      \/ CanClose(auctions'[j], head + 1)
    BY DEF CloseSucceeds
  <2>1. Waiting("close", j)
    BY DEF Waiting
  <2>2. auctions[j].status = "Closed" \/ CanClose(auctions[j], head + 1)
    BY <1>1, <2>1 DEF CloseSucceeds
  <2> QED
    BY <1>2, <2>2
<1>6. \A j \in Operators : Engaged(j)' => Engaged(j)
  <2> SUFFICES ASSUME NEW j \in Operators, Engaged(j)'
               PROVE  Engaged(j)
    OBVIOUS
  <2> QED
    BY <1>2 DEF Engaged, Waiting
<1>7. \A j \in Operators : auctions[j].status = "Closed" =>
                            auctions'[j].status = "Closed"
  BY <1>2
<1>8. \A j \in Operators : Waiting("close", j) =>
        auctions'[j].status = "Closed" \/ Waiting("close", j)'
  BY <1>2
<1>9. \/ log' = log
      \/ \E e \in Event : e.block = head + 1 /\ log' = Append(log, e)
  OBVIOUS
<1>10. head' \in {head, head + 1}
  OBVIOUS
<1> QED
  BY <1>3, <1>4, <1>5, <1>6, <1>7, <1>8, <1>9, <1>10, ChainStep

\* Types of what the steps of the chain read.
LEMMA ChainFacts ==
  ASSUME IInv, NEW k \in Operators
  PROVE  /\ auctions[k] \in Auction /\ head \in Nat /\ head + 1 \in Nat
         /\ auctions[k].bestBid \in Nat /\ auctions[k].endTimestamp \in Nat
BY DEF IInv, TypeOK, Auction

\* A mined block brings nothing but time.
LEMMA MineStep ==
  ASSUME IInv, Mine
  PROVE  IInv'
<1>1. TypeOK /\ OutbidIsFinal /\ CloseSucceeds /\ head \in Nat
  BY DEF IInv, TypeOK
<1>2. /\ head' = head + 1 /\ auctions' = auctions /\ log' = log
      /\ mempool' = mempool /\ botUnchanged
  BY DEF Mine
<1>3. TypeOK'
  BY <1>1, <1>2 DEF TypeOK, botUnchanged, dbVars, memoryVars
<1>4. OutbidIsFinal'
  BY <1>1, <1>2 DEF OutbidIsFinal, Outbids
<1>5. CloseSucceeds'
  <2> SUFFICES ASSUME NEW k \in Operators, Waiting("close", k)
               PROVE  \/ auctions[k].status = "Closed"
                      \/ CanClose(auctions[k], head + 1 + 1)
    BY <1>2 DEF CloseSucceeds, Waiting
  <2> QED
    BY <1>1, ChainFacts DEF CloseSucceeds, CanClose
<1>6. \A k \in Operators : Engaged(k)' => Engaged(k)
  BY <1>2 DEF Engaged, Waiting
<1>7. \A k \in Operators : Waiting("close", k) => Waiting("close", k)'
  BY <1>2 DEF Waiting
<1> QED
  BY <1>2, <1>3, <1>4, <1>5, <1>6, <1>7, ChainStep

\* An auction opens, in the block that is open.
LEMMA LiquidateStep ==
  ASSUME IInv, NEW k \in Operators, Liquidate(k)
  PROVE  IInv'
<1> DEFINE a == auctionOpen(auctions[k], head + 1)
<1> DEFINE e == Liquidated(k)
<1>1. /\ auctions' = [auctions EXCEPT ![k] = a]
      /\ log' = Append(log, e) /\ head' = head /\ mempool' = mempool
      /\ botUnchanged /\ auctions[k].status = "Uninitialized"
  BY DEF Liquidate, auctionIsInexistent
<1>2. /\ a \in Auction /\ a.bestBid = auctions[k].bestBid
      /\ a.bestBidder = auctions[k].bestBidder
  BY ChainFacts, OpenUpdate
<1>3. e \in Event /\ e.block = head + 1 /\ ~Outbids(e)
  BY ChainFacts DEF Event, Liquidated, Outbids
<1>4. ~CanClose(auctions[k], head + 1)
  BY <1>1 DEF CanClose, auctionIsOpen
<1>5. \A j \in Operators : Waiting("close", j) => Waiting("close", j)'
  BY <1>1 DEF Waiting
<1> HIDE DEF a, e
<1> QED
  BY <1>1, <1>2, <1>3, <1>4, <1>5, AuctionStep

\* Another bids: the bot's lead goes with it, and the event says so.
LEMMA RivalBidStep ==
  ASSUME IInv, NEW k \in Operators, NEW who \in Rivals, NEW n \in RivalBids,
         RivalBid(k, who, n)
  PROVE  IInv'
<1> DEFINE a == auctionBid(auctions[k], who, n)
<1> DEFINE e == BidEvent(k, who, n)
<1>1. /\ auctions' = [auctions EXCEPT ![k] = a]
      /\ log' = Append(log, e) /\ head' = head /\ mempool' = mempool
      /\ botUnchanged /\ CanBid(auctions[k], n)
  BY DEF RivalBid
<1>2. n \in Nat /\ who \in Bidders /\ who # Bot /\ who # NoBidder
  BY DEF Rivals
<1>3. /\ a \in Auction /\ a.bestBid = n /\ a.bestBidder = who
      /\ a.status = auctions[k].status
      /\ a.endTimestamp = auctions[k].endTimestamp
  <2>1. auctions[k] \in Auction
    BY ChainFacts
  <2> QED
    BY <1>2, <2>1, BidUpdate
<1>4. e \in Event /\ e.block = head + 1 /\ e.operator = k /\ e.bid = n
  BY <1>2, ChainFacts DEF Event, BidEvent
<1>5. Outbids(e) => a.bestBidder # Bot /\ a.bestBid >= bidAmount
  BY <1>2, <1>3, <1>4 DEF Outbids
<1>6. auctions[k].bestBid >= bidAmount => a.bestBid >= bidAmount
  BY <1>1, <1>2, <1>3, ChainFacts DEF CanBid
<1>7. CanClose(auctions[k], head + 1) => CanClose(a, head + 1)
  BY <1>2, <1>3 DEF CanClose, auctionIsOpen
<1>8. \A j \in Operators : Waiting("close", j) => Waiting("close", j)'
  BY <1>1 DEF Waiting
<1> HIDE DEF a, e
<1> QED
  BY <1>1, <1>2, <1>3, <1>4, <1>5, <1>6, <1>7, <1>8, AuctionStep

\* Another closes an auction.
LEMMA RivalCloseStep ==
  ASSUME IInv, NEW k \in Operators, RivalClose(k)
  PROVE  IInv'
<1> DEFINE a == auctionClose(auctions[k])
<1>1. /\ auctions' = [auctions EXCEPT ![k] = a]
      /\ log' = log /\ head' = head /\ mempool' = mempool /\ botUnchanged
  BY DEF RivalClose
<1>2. /\ a \in Auction /\ a.bestBid = auctions[k].bestBid
      /\ a.bestBidder = auctions[k].bestBidder /\ a.status = "Closed"
  BY ChainFacts, CloseUpdate
<1>3. \A j \in Operators : Waiting("close", j) => Waiting("close", j)'
  BY <1>1 DEF Waiting
<1> HIDE DEF a
<1> QED
  BY <1>1, <1>2, <1>3, AuctionStep

\* A transaction of the bot, accepted or not.
LEMMA IncludeStep ==
  ASSUME IInv, NEW tx \in Transaction, Include(tx)
  PROVE  IInv'
<1> DEFINE k == tx.operator
<1>1. /\ k \in Operators /\ tx \in mempool
      /\ mempool' = mempool \ {tx} /\ head' = head /\ botUnchanged
      /\ tx = [call |-> tx.call, operator |-> k]
      /\ tx.call \in {"bid", "close"}
  BY DEF Include, Transaction
<1> HIDE DEF k
<1>2. mempool' \subseteq mempool
  BY <1>1
<1>3. ASSUME NEW j \in Operators, Waiting("close", j)
      PROVE  Waiting("close", j)' \/ (tx.call = "close" /\ j = k)
  BY <1>1, <1>3 DEF Waiting
<1>4. CASE Accepted(tx) /\ tx.call = "bid"
  <2> DEFINE a == auctionBid(auctions[k], Bot, bidAmount)
  <2> DEFINE e == BidEvent(k, Bot, bidAmount)
  <2>1. /\ auctions' = [auctions EXCEPT ![k] = a] /\ log' = Append(log, e)
        /\ CanBid(auctions[k], bidAmount)
    BY <1>4 DEF Include, Accepted, k
  <2>2. bidAmount \in Nat /\ Bot # NoBidder /\ Bot \in Bidders
    OBVIOUS
  <2>3. /\ a \in Auction /\ a.bestBid = bidAmount /\ a.bestBidder = Bot
        /\ a.status = auctions[k].status
        /\ a.endTimestamp = auctions[k].endTimestamp
    <3>1. auctions[k] \in Auction
      BY <1>1, ChainFacts
    <3> QED
      BY <2>2, <3>1, BidUpdate
  <2>4. e \in Event /\ e.block = head + 1 /\ ~Outbids(e)
    BY <1>1, <2>2, ChainFacts DEF Event, BidEvent, Outbids
  <2>5. ~(auctions[k].bestBid >= bidAmount)
    BY <1>1, <2>1, <2>2, ChainFacts DEF CanBid
  <2>6. CanClose(auctions[k], head + 1) => CanClose(a, head + 1)
    BY <2>2, <2>3 DEF CanClose, auctionIsOpen
  <2>7. Waiting("bid", k)
    BY <1>1, <1>4 DEF Waiting
  <2>8. \A j \in Operators : Waiting("close", j) => Waiting("close", j)'
    BY <1>3, <1>4
  <2> HIDE DEF a, e
  <2> QED
    BY <1>1, <1>2, <2>1, <2>3, <2>4, <2>5, <2>6, <2>7, <2>8, AuctionStep
<1>5. CASE Accepted(tx) /\ tx.call = "close"
  <2> DEFINE a == auctionClose(auctions[k])
  <2>1. auctions' = [auctions EXCEPT ![k] = a] /\ log' = log
    BY <1>5 DEF Include, k
  <2>2. /\ a \in Auction /\ a.bestBid = auctions[k].bestBid
        /\ a.bestBidder = auctions[k].bestBidder /\ a.status = "Closed"
    BY <1>1, ChainFacts, CloseUpdate
  <2> HIDE DEF a
  <2> QED
    BY <1>1, <1>2, <1>3, <2>1, <2>2, AuctionStep
<1>6. CASE ~Accepted(tx)
  <2> DEFINE a == auctions[k]
  <2>1. auctions' = auctions /\ log' = log
    BY <1>6 DEF Include
  <2>2. auctions' = [auctions EXCEPT ![k] = a] /\ a \in Auction
    BY <1>1, <2>1, ChainFacts DEF IInv, TypeOK
  <2>3. tx.call = "close" => a.status = "Closed"
    <3> SUFFICES ASSUME tx.call = "close" PROVE a.status = "Closed"
      OBVIOUS
    <3>1. Waiting("close", k)
      BY <1>1 DEF Waiting
    <3>2. ~CanClose(auctions[k], head + 1)
      BY <1>6 DEF Accepted, k
    <3> QED
      BY <1>1, <3>1, <3>2 DEF IInv, CloseSucceeds
  <2>4. \A j \in Operators : Waiting("close", j) =>
          (j = k /\ a.status = "Closed") \/ Waiting("close", j)'
    BY <1>3, <2>3
  <2> QED
    BY <1>1, <1>2, <2>1, <2>2, <2>4, AuctionStep
<1> QED
  BY <1>1, <1>4, <1>5, <1>6
-----------------------------------------------------------------------------
(* Steps of the bot, during which the chain stands still.                  *)

chainUnchanged == UNCHANGED <<auctions, log, head>>

\* What is settled and what waits does not depend on the bot's own state, and
\* the bot's sending a transaction settles nothing but adds to it.
LEMMA ChainStands ==
  ASSUME IInv, chainUnchanged, mempool \subseteq mempool'
  PROVE  /\ \A k \in Operators : Settled(k) => Settled(k)'
         /\ LogInOrder' /\ OutbidIsFinal'
         /\ \A k, n : OpenedAt(k, n)' <=> OpenedAt(k, n)
<1>1. \A k \in Operators : Settled(k) => Settled(k)'
  BY DEF Settled, Waiting, chainUnchanged, Outbids
<1>2. LogInOrder' /\ OutbidIsFinal'
  BY DEF IInv, LogInOrder, OutbidIsFinal, chainUnchanged, Outbids
<1>3. \A k, n : OpenedAt(k, n)' <=> OpenedAt(k, n)
  BY DEF OpenedAt, chainUnchanged
<1> QED
  BY <1>1, <1>2, <1>3

\* The process ends, or is started again; nothing is lost but its memory.
LEMMA EndStep ==
  ASSUME IInv, UNCHANGED chainVars, UNCHANGED dbVars, Forget,
         ends' \in Nat, pc' \in {"down", "failed", "idle"},
         lastIndexedBlock = NotIndexed => pc' = "down"
  PROVE  IInv'
<1>1. chainUnchanged /\ mempool' = mempool /\ mempool \subseteq mempool'
  BY DEF chainVars, chainUnchanged
<1>2. lastIndexedBlock' = lastIndexedBlock /\ activeAuctions' = activeAuctions
  BY DEF dbVars
<1>3. /\ TypeOK /\ NothingBefore /\ CloseSucceeds /\ EngagedIsTracked
  BY DEF IInv
<1>4. TypeOK'
  BY <1>1, <1>2, <1>3 DEF TypeOK, chainUnchanged, Forget
<1>5. \A k \in Operators : Engaged(k)' <=> Engaged(k)
  BY <1>1 DEF Engaged, Waiting, chainUnchanged
<1>6. NothingBefore'
  BY <1>2, <1>3, <1>5 DEF NothingBefore
<1>7. CloseSucceeds'
  BY <1>1, <1>3 DEF CloseSucceeds, Waiting, chainUnchanged
<1>8. EngagedIsTracked'
  BY <1>1, <1>2, <1>3, <1>5, ChainStands DEF EngagedIsTracked
<1>9. Ranged' /\ TodoIsOpened' /\ OpenedIsHandled' /\ SentIsSettled'
  BY DEF Ranged, TodoIsOpened, OpenedIsHandled, SentIsSettled
<1> QED
  BY <1>1, <1>4, <1>6, <1>7, <1>8, <1>9, ChainStands DEF IInv

\* An error ends the process.
LEMMA FailStep ==
  ASSUME IInv, Fail, lastIndexedBlock # NotIndexed
  PROVE  IInv'
<1>1. ends' \in Nat
  BY DEF Fail, IInv, TypeOK
<1> QED
  BY <1>1, EndStep DEF Fail

\* The process is killed.
LEMMA KillStep ==
  ASSUME IInv, Kill
  PROVE  IInv'
<1>1. ends' \in Nat
  BY DEF Kill, IInv, TypeOK
<1> QED
  BY <1>1, EndStep DEF Kill

\* Whatever range the database is initialized with, the bot has done nothing.
LEMMA StartStep ==
  ASSUME IInv, Start
  PROVE  IInv'
<1>1. /\ UNCHANGED chainVars /\ UNCHANGED memoryVars /\ ends' = ends
      /\ activeAuctions' = activeAuctions /\ pc' = "idle"
      /\ pc \in {"down", "failed"}
  BY DEF Start
<1>2. chainUnchanged /\ mempool' = mempool /\ mempool \subseteq mempool'
  BY <1>1 DEF chainVars, chainUnchanged
<1>3. TypeOK /\ NothingBefore /\ CloseSucceeds /\ EngagedIsTracked
  BY DEF IInv
<1>4. lastIndexedBlock' \in Nat
  <2>1. CASE lastIndexedBlock = NotIndexed
    <3>1. PICK s \in StartingBlocks : lastIndexedBlock' = FirstIndexed(s)
      BY <2>1 DEF Start
    <3> QED
      BY <1>3, <3>1 DEF FirstIndexed, TypeOK
  <2>2. CASE lastIndexedBlock # NotIndexed
    BY <1>3, <2>2 DEF Start, TypeOK
  <2> QED
    BY <2>1, <2>2
<1>5. TypeOK'
  BY <1>1, <1>2, <1>3, <1>4 DEF TypeOK, chainUnchanged, memoryVars
<1>6. \A k \in Operators : Engaged(k)' <=> Engaged(k)
  BY <1>2 DEF Engaged, Waiting, chainUnchanged
<1>7. NothingBefore'
  BY <1>4 DEF NothingBefore, NotIndexed
<1>8. CloseSucceeds'
  BY <1>2, <1>3 DEF CloseSucceeds, Waiting, chainUnchanged
<1>9. EngagedIsTracked'
  <2>1. CASE lastIndexedBlock = NotIndexed
    BY <1>3, <1>6, <2>1 DEF NothingBefore, EngagedIsTracked
  <2>2. CASE lastIndexedBlock # NotIndexed
    <3>1. lastIndexedBlock' = lastIndexedBlock
      BY <2>2 DEF Start
    <3> QED
      BY <1>1, <1>2, <1>3, <1>6, <3>1, ChainStands DEF EngagedIsTracked
  <2> QED
    BY <2>1, <2>2
<1>10. Ranged' /\ TodoIsOpened' /\ OpenedIsHandled' /\ SentIsSettled'
  BY <1>1 DEF Ranged, TodoIsOpened, OpenedIsHandled, SentIsSettled
<1> QED
  BY <1>2, <1>5, <1>7, <1>8, <1>9, <1>10, ChainStands DEF IInv
\* Facts of the range being handled.
LEMMA RangeFacts ==
  ASSUME IInv, pc \in {"events", "bid", "close"}
  PROVE  /\ lastIndexedBlock \in Nat /\ lastIndexedBlock # NotIndexed
         /\ upperBoundBlock \in Nat /\ upperBoundBlock <= head
         /\ lastIndexedBlock < upperBoundBlock
         /\ \A k \in todo \cup sent : k \in Operators
<1>1. lastIndexedBlock # NotIndexed /\ TypeOK /\ Ranged
  BY DEF IInv, NothingBefore
<1> QED
  BY <1>1 DEF TypeOK, Ranged

\* A poll: what is handled before lies behind the cursor, and the range is not
\* empty.
LEMMA PollStep ==
  ASSUME IInv, Poll
  PROVE  IInv'
<1>1. /\ UNCHANGED chainVars /\ UNCHANGED dbVars /\ pc = "idle" /\ pc' = "events"
      /\ todo' = todo /\ sent' = sent /\ ends' = ends
      /\ lastIndexedBlock + 1 <= head
      /\ upperBoundBlock' = UpperBound /\ cursor' = Handled(lastIndexedBlock)
  BY DEF Poll
<1>2. /\ chainUnchanged /\ mempool' = mempool /\ mempool \subseteq mempool'
      /\ lastIndexedBlock' = lastIndexedBlock /\ activeAuctions' = activeAuctions
  BY <1>1 DEF chainVars, chainUnchanged, dbVars
<1>3. /\ TypeOK /\ NothingBefore /\ CloseSucceeds /\ EngagedIsTracked /\ LogInOrder
  BY DEF IInv
<1>4. lastIndexedBlock \in Nat /\ lastIndexedBlock # NotIndexed
  BY <1>1, <1>3 DEF NothingBefore, TypeOK
<1>5. todo = {} /\ sent = {} /\ head \in Nat
  BY <1>1, <1>3 DEF TypeOK
<1>6. UpperBound \in Nat /\ UpperBound <= head /\ lastIndexedBlock < UpperBound
  BY <1>1, <1>4, <1>5 DEF UpperBound
<1>7. /\ cursor' \in 0 .. Len(log)
      /\ \A i \in DOMAIN log : log[i].block <= lastIndexedBlock <=> i <= cursor'
  BY <1>1, <1>3, <1>4, HandledIs
<1>8. TypeOK'
  <2>1. cursor' \in Nat
    BY <1>7
  <2> QED
    BY <1>1, <1>2, <1>3, <1>5, <1>6, <2>1 DEF TypeOK, chainUnchanged
<1>9. NothingBefore'
  BY <1>2, <1>4 DEF NothingBefore
<1>10. CloseSucceeds'
  BY <1>2, <1>3 DEF CloseSucceeds, Waiting, chainUnchanged
<1>11. \A k \in Operators : Engaged(k)' <=> Engaged(k)
  BY <1>2 DEF Engaged, Waiting, chainUnchanged
<1>12. EngagedIsTracked'
  BY <1>2, <1>3, <1>11, ChainStands DEF EngagedIsTracked
<1>13. Ranged'
  <2>1. Len(log) \in Nat /\ \A i \in DOMAIN log : log[i].block \in Nat
    BY <1>3, LogFacts
  <2>2. cursor' <= Len(log)
    BY <1>7, <2>1
  <2>3. \A i \in DOMAIN log : i <= cursor' => log[i].block <= UpperBound
    BY <1>4, <1>6, <1>7, <2>1
  <2> QED
    BY <1>1, <1>2, <1>6, <1>7, <2>2, <2>3 DEF Ranged, chainUnchanged
<1>14. TodoIsOpened' /\ SentIsSettled'
  BY <1>1, <1>5 DEF TodoIsOpened, SentIsSettled
<1>15. OpenedIsHandled'
  <2> SUFFICES ASSUME NEW i \in DOMAIN log, log[i].block > lastIndexedBlock,
                      i <= cursor'
               PROVE  FALSE
    BY <1>1, <1>2 DEF OpenedIsHandled, chainUnchanged
  <2>1. log[i].block \in Nat /\ log[i].block <= lastIndexedBlock
    BY <1>3, <1>7, LogFacts
  <2> QED
    BY <1>4, <2>1
<1> QED
  BY <1>2, <1>8, <1>9, <1>10, <1>12, <1>13, <1>14, <1>15, ChainStands DEF IInv

\* One event: an opened auction is gathered, one with a better bid is settled.
LEMMA ProcessEventStep ==
  ASSUME IInv, ProcessEvent
  PROVE  IInv'
<1>0. PICK n, e, k : n = cursor + 1 /\ e = log[n] /\ k = e.operator
  OBVIOUS
<1>1. /\ UNCHANGED chainVars /\ lastIndexedBlock' = lastIndexedBlock
      /\ pc = "events" /\ pc' = pc /\ cursor' = n
      /\ upperBoundBlock' = upperBoundBlock /\ sent' = sent /\ ends' = ends
      /\ cursor < Handled(upperBoundBlock)
  BY <1>0 DEF ProcessEvent
<1>2. /\ chainUnchanged /\ mempool' = mempool /\ mempool \subseteq mempool'
  BY <1>1 DEF chainVars, chainUnchanged
<1>3. \/ /\ e.event = "OperatorLiquidated"
         /\ todo' = todo \cup {k} /\ activeAuctions' = activeAuctions
      \/ /\ Outbids(e)
         /\ todo' = todo \ {k}
         /\ \/ activeAuctions' = activeAuctions
            \/ activeAuctions' = activeAuctions \ {k}
      \/ /\ e.event # "OperatorLiquidated"
         /\ todo' = todo /\ activeAuctions' = activeAuctions
  BY <1>0 DEF ProcessEvent
<1>4. /\ TypeOK /\ NothingBefore /\ CloseSucceeds /\ EngagedIsTracked /\ LogInOrder
      /\ Ranged /\ TodoIsOpened /\ OpenedIsHandled
  BY DEF IInv
<1>5. /\ lastIndexedBlock \in Nat /\ upperBoundBlock \in Nat
      /\ lastIndexedBlock # NotIndexed /\ cursor \in Nat
  BY <1>1, <1>4, RangeFacts DEF TypeOK
<1>6. /\ n \in DOMAIN log /\ e \in Event /\ k \in Operators
      /\ e.block \in Nat /\ e.block <= upperBoundBlock
      /\ e.block > lastIndexedBlock
      /\ n <= Len(log)
  <2>0. upperBoundBlock \in Int
    BY <1>5
  <2>1. /\ Handled(upperBoundBlock) \in 0 .. Len(log)
        /\ \A i \in DOMAIN log :
             log[i].block <= upperBoundBlock <=> i <= Handled(upperBoundBlock)
    BY <1>4, <2>0, HandledIs
  <2>2. n \in DOMAIN log /\ n <= Handled(upperBoundBlock) /\ n <= Len(log)
    BY <1>0, <1>1, <1>4, <1>5, <2>1, LogFacts
  <2>3. e \in Event /\ e.block \in Nat /\ k \in Operators
    BY <1>0, <1>4, <2>2, LogFacts
  <2>4. e.block <= lastIndexedBlock => n <= cursor
    BY <1>0, <1>1, <1>4, <2>2 DEF Ranged
  <2> QED
    BY <1>0, <1>5, <2>1, <2>2, <2>3, <2>4
<1>7. \A j \in Operators : Settled(j) => Settled(j)'
  BY <1>2, ChainStands
<1>8. Outbids(e) => Settled(k) /\ Settled(k)'
  <2>1. Outbids(e) => Settled(k)
    BY <1>0, <1>6 DEF Settled
  <2> QED
    BY <1>6, <1>7, <2>1
<1>9. /\ todo' \subseteq Operators /\ activeAuctions' \subseteq Operators
  BY <1>3, <1>4, <1>6 DEF TypeOK
<1>10. TypeOK'
  BY <1>0, <1>1, <1>2, <1>4, <1>5, <1>9 DEF TypeOK, chainUnchanged
<1>11. \A j \in Operators : Engaged(j)' <=> Engaged(j)
  BY <1>2 DEF Engaged, Waiting, chainUnchanged
<1>12. NothingBefore' /\ SentIsSettled'
  BY <1>1, <1>5 DEF NothingBefore, SentIsSettled
<1>13. CloseSucceeds'
  BY <1>2, <1>4 DEF CloseSucceeds, Waiting, chainUnchanged
<1>14. ASSUME NEW j \in Operators, j \in activeAuctions
       PROVE  j \in activeAuctions' \/ Settled(j)'
  <2>1. CASE j = k /\ Outbids(e)
    BY <1>8, <2>1
  <2>2. CASE ~(j = k /\ Outbids(e))
    BY <1>3, <1>14, <2>2
  <2> QED
    BY <2>1, <2>2
<1>15. ASSUME NEW j \in Operators, j \in todo
       PROVE  j \in todo' \/ Settled(j)'
  <2>1. CASE j = k /\ Outbids(e)
    BY <1>8, <2>1
  <2>2. CASE ~(j = k /\ Outbids(e))
    BY <1>3, <1>15, <2>2
  <2> QED
    BY <2>1, <2>2
<1>16. EngagedIsTracked'
  BY <1>1, <1>2, <1>4, <1>7, <1>11, <1>14, ChainStands DEF EngagedIsTracked
<1>17. Ranged'
  <2>1. ASSUME NEW i \in DOMAIN log
        PROVE  /\ log[i].block <= lastIndexedBlock => i <= n
               /\ i <= n => log[i].block <= upperBoundBlock
    <3>1. /\ log[i].block <= lastIndexedBlock => i <= cursor
          /\ i <= cursor => log[i].block <= upperBoundBlock
      BY <1>1, <1>4 DEF Ranged
    <3>2. i \in Nat
      BY <1>4, LogFacts
    <3>3. i = n => log[i].block <= upperBoundBlock
      BY <1>0, <1>6
    <3> QED
      BY <1>0, <1>5, <3>1, <3>2, <3>3
  <2> QED
    BY <1>1, <1>2, <1>4, <1>6, <2>1 DEF Ranged, chainUnchanged
<1>18. TodoIsOpened'
  <2> SUFFICES ASSUME NEW j \in todo'
               PROVE  OpenedAt(j, lastIndexedBlock)
    BY <1>1, <1>2, ChainStands DEF TodoIsOpened
  <2>1. CASE j \in todo
    BY <1>1, <1>4, <2>1 DEF TodoIsOpened
  <2>2. CASE j \notin todo
    <3>1. e.event = "OperatorLiquidated" /\ j = k
      BY <1>3, <2>2
    <3> QED
      BY <1>0, <1>6, <3>1 DEF OpenedAt
  <2> QED
    BY <2>1, <2>2
<1>19. OpenedIsHandled'
  <2> SUFFICES ASSUME NEW j \in Operators, NEW i \in DOMAIN log, Opens(i, j),
                      log[i].block > lastIndexedBlock, i <= n
               PROVE  j \in todo' \/ j \in activeAuctions' \/ Settled(j)'
    BY <1>1, <1>2 DEF OpenedIsHandled, Opens, chainUnchanged
  <2>1. CASE i <= cursor
    <3>1. j \in todo \/ j \in activeAuctions \/ Settled(j)
      BY <1>1, <1>4, <2>1 DEF OpenedIsHandled
    <3> QED
      BY <1>7, <1>14, <1>15, <3>1
  <2>2. CASE ~(i <= cursor)
    <3>1. i = n
      <4>1. i \in Nat
        BY <1>4, LogFacts
      <4> QED
        BY <1>0, <1>5, <2>2, <4>1
    <3>2. e.event = "OperatorLiquidated" /\ j = k
      BY <1>0, <3>1 DEF Opens
    <3>3. ~Outbids(e)
      BY <3>2 DEF Outbids
    <3> QED
      BY <1>3, <3>2, <3>3
  <2> QED
    BY <2>1, <2>2
<1> QED
  BY <1>2, <1>10, <1>12, <1>13, <1>16, <1>17, <1>18, <1>19, ChainStands DEF IInv

\* What every step of the bot within a range keeps.
LEMMA BotKeeps ==
  ASSUME IInv, chainUnchanged, mempool' = mempool,
         lastIndexedBlock' \in Nat
  PROVE  /\ LogInOrder' /\ OutbidIsFinal' /\ CloseSucceeds' /\ NothingBefore'
         /\ \A k \in Operators : Engaged(k)' <=> Engaged(k)
         /\ \A k \in Operators : Settled(k) => Settled(k)'
         /\ \A k, n : OpenedAt(k, n)' <=> OpenedAt(k, n)
<1>1. mempool \subseteq mempool'
  OBVIOUS
<1>2. \A k \in Operators : Engaged(k)' <=> Engaged(k)
  BY DEF Engaged, Waiting, chainUnchanged
<1>3. CloseSucceeds'
  BY DEF IInv, CloseSucceeds, Waiting, chainUnchanged
<1>4. NothingBefore'
  BY DEF NothingBefore, NotIndexed
<1> QED
  BY <1>1, <1>2, <1>3, <1>4, ChainStands

\* All events of the range are handled: the cursor is behind its last block.
LEMMA EventsProcessedStep ==
  ASSUME IInv, EventsProcessed
  PROVE  IInv'
<1>1. /\ UNCHANGED chainVars /\ UNCHANGED dbVars /\ UNCHANGED memoryVars
      /\ ends' = ends /\ pc = "events" /\ pc' = "bid"
      /\ cursor = Handled(upperBoundBlock)
  BY DEF EventsProcessed
<1>2. /\ chainUnchanged /\ mempool' = mempool
      /\ lastIndexedBlock' = lastIndexedBlock /\ activeAuctions' = activeAuctions
      /\ upperBoundBlock' = upperBoundBlock /\ cursor' = cursor
      /\ todo' = todo /\ sent' = sent
  BY <1>1 DEF chainVars, chainUnchanged, dbVars, memoryVars
<1>3. /\ TypeOK /\ EngagedIsTracked /\ LogInOrder /\ Ranged /\ TodoIsOpened
      /\ OpenedIsHandled
  BY DEF IInv
<1>4. lastIndexedBlock \in Nat /\ upperBoundBlock \in Int
  BY <1>1, RangeFacts
<1>5. /\ LogInOrder' /\ OutbidIsFinal' /\ CloseSucceeds' /\ NothingBefore'
      /\ \A k \in Operators : Engaged(k)' <=> Engaged(k)
      /\ \A k \in Operators : Settled(k) => Settled(k)'
      /\ \A k, n : OpenedAt(k, n)' <=> OpenedAt(k, n)
  BY <1>2, <1>4, BotKeeps
<1>6. \A i \in DOMAIN log : log[i].block <= upperBoundBlock <=> i <= cursor
  BY <1>1, <1>3, <1>4, HandledIs
<1>7. TypeOK'
  BY <1>1, <1>2, <1>3 DEF TypeOK, chainUnchanged
<1>8. EngagedIsTracked'
  BY <1>2, <1>3, <1>5 DEF EngagedIsTracked
<1>9. Ranged'
  BY <1>1, <1>2, <1>3 DEF Ranged
<1>10. TodoIsOpened' /\ SentIsSettled'
  BY <1>1, <1>2, <1>3, <1>5 DEF TodoIsOpened, SentIsSettled
<1>11. OpenedIsHandled'
  <2> SUFFICES ASSUME NEW k \in Operators, NEW i \in DOMAIN log, Opens(i, k),
                      log[i].block > lastIndexedBlock,
                      log[i].block <= upperBoundBlock
               PROVE  k \in todo \/ k \in activeAuctions \/ Settled(k)'
    BY <1>1, <1>2 DEF OpenedIsHandled, Opens, chainUnchanged
  <2>1. k \in todo \/ k \in activeAuctions \/ Settled(k)
    BY <1>1, <1>3, <1>6 DEF OpenedIsHandled
  <2> QED
    BY <1>5, <2>1
<1> QED
  BY <1>5, <1>7, <1>8, <1>9, <1>10, <1>11 DEF IInv

\* A bid goes out only for an auction whose liquidation is still to be handled.
LEMMA SendBidStep ==
  ASSUME IInv, NEW k \in Operators, SendBid(k)
  PROVE  IInv'
<1> DEFINE tx == [call |-> "bid", operator |-> k]
<1>1. pc = "bid" /\ k \in todo /\ lastIndexedBlock # NotIndexed
      /\ lastIndexedBlock \in Nat
  BY RangeFacts DEF SendBid
<1>2. CASE Fail
  BY <1>1, <1>2, FailStep
<1>3. CASE ~Fail
  <2>1. /\ mempool' = mempool \cup {tx} /\ sent' = {k}
        /\ lastIndexedBlock' = lastIndexedBlock
        /\ activeAuctions' = activeAuctions
        /\ pc' = pc /\ upperBoundBlock' = upperBoundBlock /\ cursor' = cursor
        /\ todo' = todo /\ ends' = ends /\ chainUnchanged
    BY <1>3 DEF SendBid, Send, dbVars, chainUnchanged
  <2>2. /\ TypeOK /\ EngagedIsTracked /\ CloseSucceeds /\ Ranged
        /\ TodoIsOpened /\ OpenedIsHandled
    BY DEF IInv
  <2>3. mempool \subseteq mempool'
    BY <2>1
  <2>4. /\ LogInOrder' /\ OutbidIsFinal'
        /\ \A j \in Operators : Settled(j) => Settled(j)'
        /\ \A j, n : OpenedAt(j, n)' <=> OpenedAt(j, n)
    BY <2>1, <2>3, ChainStands
  <2>5. TypeOK'
    <3>1. tx \in Transaction
      BY DEF Transaction
    <3> HIDE DEF tx
    <3> QED
      BY <1>1, <2>1, <2>2, <3>1 DEF TypeOK, chainUnchanged
  <2>6. \A j \in Operators : Waiting("close", j)' <=> Waiting("close", j)
    BY <2>1 DEF Waiting
  <2>7. CloseSucceeds'
    BY <2>1, <2>2, <2>6 DEF CloseSucceeds, chainUnchanged
  <2>8. \A j \in Operators : Engaged(j)' => Engaged(j) \/ j = k
    BY <2>1 DEF Engaged, Waiting, chainUnchanged
  <2>9. OpenedAt(k, lastIndexedBlock)
    BY <1>1, <2>2 DEF TodoIsOpened
  <2>10. EngagedIsTracked'
    BY <2>1, <2>2, <2>4, <2>8, <2>9 DEF EngagedIsTracked
  <2>11. NothingBefore' /\ SentIsSettled'
    BY <1>1, <2>1 DEF NothingBefore, SentIsSettled
  <2>12. Ranged' /\ TodoIsOpened'
    BY <1>1, <2>1, <2>2, <2>4 DEF Ranged, TodoIsOpened
  <2>13. OpenedIsHandled'
    BY <1>1, <2>1, <2>2, <2>4 DEF OpenedIsHandled, Opens, chainUnchanged
  <2> QED
    BY <2>4, <2>5, <2>7, <2>10, <2>11, <2>12, <2>13 DEF IInv
<1> QED
  BY <1>2, <1>3

\* The row is there before the auction is taken from the list.
LEMMA CreateRowStep ==
  ASSUME IInv, NEW k \in Operators, CreateRow(k)
  PROVE  IInv'
<1>1. pc = "bid" /\ lastIndexedBlock # NotIndexed /\ lastIndexedBlock \in Nat
  BY RangeFacts DEF CreateRow
<1>2. CASE Fail
  BY <1>1, <1>2, FailStep
<1>3. CASE ~Fail
  <2>1. /\ chainUnchanged /\ mempool' = mempool
        /\ activeAuctions' = activeAuctions \cup {k} /\ todo' = todo \ {k}
        /\ sent' = {} /\ lastIndexedBlock' = lastIndexedBlock
        /\ pc' = pc /\ upperBoundBlock' = upperBoundBlock /\ cursor' = cursor
        /\ ends' = ends
    BY <1>3 DEF CreateRow, chainVars, chainUnchanged
  <2>2. /\ TypeOK /\ EngagedIsTracked /\ Ranged /\ TodoIsOpened /\ OpenedIsHandled
    BY DEF IInv
  <2>3. /\ LogInOrder' /\ OutbidIsFinal' /\ CloseSucceeds' /\ NothingBefore'
        /\ \A j \in Operators : Engaged(j)' <=> Engaged(j)
        /\ \A j \in Operators : Settled(j) => Settled(j)'
        /\ \A j, n : OpenedAt(j, n)' <=> OpenedAt(j, n)
    BY <1>1, <2>1, BotKeeps
  <2>4. TypeOK'
    BY <1>1, <2>1, <2>2 DEF TypeOK, chainUnchanged
  <2>5. EngagedIsTracked'
    BY <2>1, <2>2, <2>3 DEF EngagedIsTracked
  <2>6. Ranged' /\ TodoIsOpened' /\ SentIsSettled'
    BY <1>1, <2>1, <2>2, <2>3 DEF Ranged, TodoIsOpened, SentIsSettled
  <2>7. OpenedIsHandled'
    BY <1>1, <2>1, <2>2, <2>3 DEF OpenedIsHandled, Opens, chainUnchanged
  <2> QED
    BY <2>3, <2>4, <2>5, <2>6, <2>7 DEF IInv
<1> QED
  BY <1>2, <1>3

\* The rows are read once there is nothing left to bid in.
LEMMA ReadRowsStep ==
  ASSUME IInv, ReadRows
  PROVE  IInv'
<1>1. /\ chainUnchanged /\ mempool' = mempool
      /\ lastIndexedBlock' = lastIndexedBlock /\ activeAuctions' = activeAuctions
      /\ pc = "bid" /\ pc' = "close" /\ upperBoundBlock' = upperBoundBlock
      /\ cursor' = cursor /\ sent' = sent /\ ends' = ends
      /\ todo = {} /\ sent = {} /\ todo' \subseteq activeAuctions
  BY DEF ReadRows, chainVars, dbVars, chainUnchanged
<1>2. TypeOK /\ EngagedIsTracked /\ Ranged /\ OpenedIsHandled
  BY DEF IInv
<1>3. lastIndexedBlock \in Nat
  BY <1>1, RangeFacts
<1>4. /\ LogInOrder' /\ OutbidIsFinal' /\ CloseSucceeds' /\ NothingBefore'
      /\ \A j \in Operators : Engaged(j)' <=> Engaged(j)
      /\ \A j \in Operators : Settled(j) => Settled(j)'
      /\ \A j, n : OpenedAt(j, n)' <=> OpenedAt(j, n)
  BY <1>1, <1>3, BotKeeps
<1>5. TypeOK'
  <2>1. todo' \subseteq Operators
    BY <1>1, <1>2 DEF TypeOK
  <2> QED
    BY <1>1, <1>2, <2>1 DEF TypeOK, chainUnchanged
<1>6. EngagedIsTracked'
  BY <1>1, <1>2, <1>4 DEF EngagedIsTracked
<1>7. Ranged' /\ TodoIsOpened' /\ SentIsSettled'
  BY <1>1, <1>2 DEF Ranged, TodoIsOpened, SentIsSettled
<1>8. OpenedIsHandled'
  <2> SUFFICES ASSUME NEW k \in Operators, NEW i \in DOMAIN log, Opens(i, k),
                      log[i].block > lastIndexedBlock,
                      log[i].block <= upperBoundBlock
               PROVE  k \in activeAuctions \/ Settled(k)'
    BY <1>1 DEF OpenedIsHandled, Opens, chainUnchanged
  <2>1. k \in activeAuctions \/ Settled(k)
    BY <1>1, <1>2 DEF OpenedIsHandled
  <2> QED
    BY <1>4, <2>1
<1> QED
  BY <1>4, <1>5, <1>6, <1>7, <1>8 DEF IInv

\* The call that closes an auction goes out when it would succeed.
LEMMA SendCloseStep ==
  ASSUME IInv, NEW k \in Operators, SendClose(k)
  PROVE  IInv'
<1> DEFINE tx == [call |-> "close", operator |-> k]
<1>1. pc = "close" /\ lastIndexedBlock # NotIndexed /\ lastIndexedBlock \in Nat
  BY RangeFacts DEF SendClose
<1>2. CASE Fail
  BY <1>1, <1>2, FailStep
<1>3. CASE ~Fail
  <2>1. /\ mempool' = mempool \cup {tx} /\ sent' = {k}
        /\ lastIndexedBlock' = lastIndexedBlock
        /\ activeAuctions' = activeAuctions
        /\ pc' = pc /\ upperBoundBlock' = upperBoundBlock /\ cursor' = cursor
        /\ todo' = todo /\ ends' = ends /\ chainUnchanged
        /\ CanClose(auctions[k], head + 1)
    BY <1>3 DEF SendClose, Send, Accepted, dbVars, chainUnchanged
  <2>2. TypeOK /\ EngagedIsTracked /\ CloseSucceeds /\ Ranged /\ OpenedIsHandled
    BY DEF IInv
  <2>3. mempool \subseteq mempool'
    BY <2>1
  <2>4. /\ LogInOrder' /\ OutbidIsFinal'
        /\ \A j \in Operators : Settled(j) => Settled(j)'
        /\ \A j, n : OpenedAt(j, n)' <=> OpenedAt(j, n)
    BY <2>1, <2>3, ChainStands
  <2>5. TypeOK'
    <3>1. tx \in Transaction
      BY DEF Transaction
    <3> HIDE DEF tx
    <3> QED
      BY <1>1, <2>1, <2>2, <3>1 DEF TypeOK, chainUnchanged
  <2>6. \A j \in Operators : Waiting("close", j)' => Waiting("close", j) \/ j = k
    BY <2>1 DEF Waiting
  <2>7. CloseSucceeds'
    BY <2>1, <2>2, <2>6 DEF CloseSucceeds, chainUnchanged
  <2>8. \A j \in Operators : Engaged(j)' => Engaged(j)
    BY <2>1 DEF Engaged, Waiting, chainUnchanged
  <2>9. EngagedIsTracked'
    BY <2>1, <2>2, <2>4, <2>8 DEF EngagedIsTracked
  <2>10. NothingBefore' /\ Ranged' /\ TodoIsOpened'
    BY <1>1, <2>1, <2>2 DEF NothingBefore, Ranged, TodoIsOpened
  <2>11. SentIsSettled'
    <3>1. Waiting("close", k)'
      BY <2>1 DEF Waiting
    <3> QED
      BY <2>1, <3>1 DEF SentIsSettled, Settled
  <2>12. OpenedIsHandled'
    BY <1>1, <2>1, <2>2, <2>4 DEF OpenedIsHandled, Opens, chainUnchanged
  <2> QED
    BY <2>4, <2>5, <2>7, <2>9, <2>10, <2>11, <2>12 DEF IInv
<1> QED
  BY <1>2, <1>3

\* A row goes when the call that closes its auction is on its way.
LEMMA DestroyRowStep ==
  ASSUME IInv, NEW k \in Operators, DestroyRow(k)
  PROVE  IInv'
<1>1. /\ chainUnchanged /\ mempool' = mempool
      /\ activeAuctions' = activeAuctions \ {k} /\ todo' = todo \ {k}
      /\ sent' = {} /\ lastIndexedBlock' = lastIndexedBlock
      /\ pc = "close" /\ pc' = pc /\ upperBoundBlock' = upperBoundBlock
      /\ cursor' = cursor /\ ends' = ends /\ k \in sent
  BY DEF DestroyRow, chainVars, chainUnchanged
<1>2. /\ TypeOK /\ EngagedIsTracked /\ Ranged /\ OpenedIsHandled /\ SentIsSettled
  BY DEF IInv
<1>3. lastIndexedBlock \in Nat
  BY <1>1, RangeFacts
<1>4. /\ LogInOrder' /\ OutbidIsFinal' /\ CloseSucceeds' /\ NothingBefore'
      /\ \A j \in Operators : Engaged(j)' <=> Engaged(j)
      /\ \A j \in Operators : Settled(j) => Settled(j)'
      /\ \A j, n : OpenedAt(j, n)' <=> OpenedAt(j, n)
  BY <1>1, <1>3, BotKeeps
<1>5. Settled(k)'
  BY <1>1, <1>2, <1>4 DEF SentIsSettled
<1>6. TypeOK'
  BY <1>1, <1>2 DEF TypeOK, chainUnchanged
<1>7. EngagedIsTracked'
  BY <1>1, <1>2, <1>4, <1>5 DEF EngagedIsTracked
<1>8. Ranged' /\ TodoIsOpened' /\ SentIsSettled'
  BY <1>1, <1>2 DEF Ranged, TodoIsOpened, SentIsSettled
<1>9. OpenedIsHandled'
  BY <1>1, <1>2, <1>4, <1>5 DEF OpenedIsHandled, Opens, chainUnchanged
<1> QED
  BY <1>4, <1>6, <1>7, <1>8, <1>9 DEF IInv

\* The range is saved: what was opened in it needs no second look.
LEMMA SaveStep ==
  ASSUME IInv, Save
  PROVE  IInv'
<1>1. /\ chainUnchanged /\ mempool' = mempool
      /\ activeAuctions' = activeAuctions /\ ends' = ends /\ Forget
      /\ pc = "close" /\ pc' = "idle" /\ lastIndexedBlock' = upperBoundBlock
  BY DEF Save, chainVars, chainUnchanged
<1>2. TypeOK /\ EngagedIsTracked /\ OpenedIsHandled
  BY DEF IInv
<1>3. upperBoundBlock \in Nat /\ lastIndexedBlock \in Nat
  BY <1>1, RangeFacts
<1>4. /\ LogInOrder' /\ OutbidIsFinal' /\ CloseSucceeds' /\ NothingBefore'
      /\ \A j \in Operators : Engaged(j)' <=> Engaged(j)
      /\ \A j \in Operators : Settled(j) => Settled(j)'
      /\ \A j, n : OpenedAt(j, n)' <=> OpenedAt(j, n)
  BY <1>1, <1>3, BotKeeps
<1>5. TypeOK'
  BY <1>1, <1>2, <1>3 DEF TypeOK, chainUnchanged, Forget
<1>6. EngagedIsTracked'
  <2> SUFFICES ASSUME NEW k \in Operators, Engaged(k)
               PROVE  \/ k \in activeAuctions
                      \/ OpenedAt(k, lastIndexedBlock)'
                      \/ Settled(k)'
    BY <1>1, <1>4 DEF EngagedIsTracked
  <2>1. CASE k \in activeAuctions \/ Settled(k)
    BY <1>4, <2>1
  <2>2. CASE OpenedAt(k, lastIndexedBlock)
    <3>1. PICK i \in DOMAIN log : Opens(i, k) /\ log[i].block > lastIndexedBlock
      BY <2>2 DEF OpenedAt, Opens
    <3>2. CASE log[i].block <= upperBoundBlock
      <4>1. k \in activeAuctions \/ Settled(k)
        BY <1>1, <1>2, <3>1, <3>2 DEF OpenedIsHandled
      <4> QED
        BY <1>4, <4>1
    <3>3. CASE ~(log[i].block <= upperBoundBlock)
      <4>1. log[i].block > upperBoundBlock
        BY <1>2, <1>3, <3>3, LogFacts
      <4> QED
        BY <1>1, <3>1, <4>1 DEF OpenedAt, Opens, chainUnchanged
    <3> QED
      BY <3>2, <3>3
  <2> QED
    BY <1>2, <2>1, <2>2 DEF EngagedIsTracked
<1>7. Ranged' /\ TodoIsOpened' /\ OpenedIsHandled' /\ SentIsSettled'
  BY <1>1 DEF Ranged, TodoIsOpened, OpenedIsHandled, SentIsSettled
<1> QED
  BY <1>4, <1>5, <1>6, <1>7 DEF IInv

-----------------------------------------------------------------------------
(* The invariant and what follows from it.                                 *)

\* The invariant holds at the beginning, when there is no auction.
LEMMA InitInvariant ==
  ASSUME Init
  PROVE  IInv
<1>1. TypeOK
  <2>1. <<>> \in Seq(Event)
    OBVIOUS
  <2>2. NoAuction \in Auction
    BY DEF NoAuction, Auction
  <2> QED
    BY <2>1, <2>2 DEF Init, TypeOK, NotIndexed
<1>2. \A k \in Operators : ~Engaged(k) /\ ~Waiting("close", k)
  BY DEF Init, Engaged, Waiting, NoAuction
<1>3. DOMAIN log = {}
  BY DEF Init
<1>4. LogInOrder /\ OutbidIsFinal /\ NothingBefore /\ CloseSucceeds
  BY <1>2, <1>3 DEF Init, LogInOrder, OutbidIsFinal, NothingBefore, CloseSucceeds
<1>5. EngagedIsTracked
  BY <1>2 DEF EngagedIsTracked
<1>6. Ranged /\ TodoIsOpened /\ OpenedIsHandled /\ SentIsSettled
  BY DEF Init, Ranged, TodoIsOpened, OpenedIsHandled, SentIsSettled
<1> QED
  BY <1>1, <1>4, <1>5, <1>6 DEF IInv

\* A step in which nothing happens.
LEMMA Stutter ==
  ASSUME IInv, UNCHANGED vars
  PROVE  IInv'
<1>1. /\ UNCHANGED <<auctions, log, head, mempool>> /\ UNCHANGED dbVars
      /\ UNCHANGED memoryVars /\ pc' = pc /\ ends' = ends
  BY DEF vars, chainVars
<1>2. botUnchanged
  BY <1>1 DEF botUnchanged
<1>3. OutbidIsFinal'
  BY <1>1 DEF IInv, OutbidIsFinal, Outbids
<1>4. CloseSucceeds'
  BY <1>1 DEF IInv, CloseSucceeds, Waiting
<1>5. TypeOK'
  BY <1>1 DEF IInv, TypeOK, dbVars, memoryVars
<1>6. \A k \in Operators : Waiting("close", k) => Waiting("close", k)'
  BY <1>1 DEF Waiting
<1>7. \A k \in Operators : Engaged(k)' => Engaged(k)
  BY <1>1 DEF Engaged, Waiting
<1> QED
  BY <1>1, <1>2, <1>3, <1>4, <1>5, <1>6, <1>7, ChainStep

\* Every step keeps the invariant.
LEMMA Step ==
  ASSUME IInv, [Next]_vars
  PROVE  IInv'
<1>1. CASE Start BY <1>1, StartStep
<1>2. CASE Poll BY <1>2, PollStep
<1>3. CASE ProcessEvent BY <1>3, ProcessEventStep
<1>4. CASE EventsProcessed BY <1>4, EventsProcessedStep
<1>5. CASE \E k \in Operators : SendBid(k) BY <1>5, SendBidStep
<1>6. CASE \E k \in Operators : CreateRow(k) BY <1>6, CreateRowStep
<1>7. CASE ReadRows BY <1>7, ReadRowsStep
<1>8. CASE \E k \in Operators : SendClose(k) BY <1>8, SendCloseStep
<1>9. CASE \E k \in Operators : DestroyRow(k) BY <1>9, DestroyRowStep
<1>10. CASE Save BY <1>10, SaveStep
<1>11. CASE Kill BY <1>11, KillStep
<1>12. CASE \E tx \in Transaction : Include(tx) BY <1>12, IncludeStep
<1>13. CASE Mine BY <1>13, MineStep
<1>14. CASE \E k \in Operators : Liquidate(k) BY <1>14, LiquidateStep
<1>15. CASE \E k \in Operators, who \in Rivals, n \in RivalBids :
              RivalBid(k, who, n)
  BY <1>15, RivalBidStep
<1>16. CASE \E k \in Operators : RivalClose(k) BY <1>16, RivalCloseStep
<1>17. CASE UNCHANGED vars BY <1>17, Stutter
<1> QED
  BY <1>1, <1>2, <1>3, <1>4, <1>5, <1>6, <1>7, <1>8, <1>9, <1>10, <1>11,
     <1>12, <1>13, <1>14, <1>15, <1>16, <1>17 DEF Next, BotStep

\* IInv holds in every state of the bot and the chain.
LEMMA Invariance == Spec => []IInv
BY InitInvariant, Step, PTL DEF Spec

\* Every variable has its type at all times; in particular the range being
\* handled ends at a mined block (processNextBlocks).
THEOREM TypeCorrect == Spec => []TypeOK
<1>1. IInv => TypeOK
  BY DEF IInv
<1> QED
  BY <1>1, Invariance, PTL

\* The bot knows of every open auction that it leads: it has a row, or its
\* liquidation is still to be handled, or the call that closes it is on its
\* way; wherever the process is killed, and however its transactions are
\* included (processNextBlocks, bidInAuctions, closeAuctions).
THEOREM LeadIsTrackedHolds == Spec => []LeadIsTracked
<1>1. ASSUME IInv
      PROVE  LeadIsTracked
  <2> SUFFICES ASSUME NEW k \in Operators, Leads(k)
               PROVE  \/ k \in activeAuctions
                      \/ OpenedAt(k, lastIndexedBlock)
                      \/ Waiting("close", k)
    BY DEF LeadIsTracked
  <2>1. Engaged(k) /\ auctions[k].bestBidder = Bot /\ auctions[k].status # "Closed"
    BY DEF Leads, Engaged, auctionIsOpen
  <2>2. \A i \in DOMAIN log : ~(log[i].operator = k /\ Outbids(log[i]))
    BY <2>1, <1>1 DEF IInv, OutbidIsFinal
  <2> QED
    BY <1>1, <2>1, <2>2 DEF IInv, EngagedIsTracked, Settled
<1> QED
  BY <1>1, Invariance, PTL

-----------------------------------------------------------------------------
(* Rows have their reasons.                                                *)

\* An operator is liquidated once, and its auction exists from then on.
OpenedOnce ==
  \A k \in Operators, i \in DOMAIN log : Opens(i, k) =>
    /\ ~auctionIsInexistent(auctions[k])
    /\ \A j \in DOMAIN log : Opens(j, k) => j = i

\* What is still to be bid in was opened in the range, and what was sent is
\* still to be noted.
TodoInRange ==
  /\ pc = "events" => sent = {}
  /\ pc = "bid" => sent \subseteq todo
  /\ pc \in {"events", "bid"} =>
       \A k \in todo : \E i \in DOMAIN log :
         /\ Opens(i, k)
         /\ lastIndexedBlock < log[i].block
         /\ log[i].block <= upperBoundBlock

\* A row is of an auction that was opened.
RowsOpened == \A k \in activeAuctions : \E i \in DOMAIN log : Opens(i, k)

\* The bot leads by its own amount.
BotBids ==
  \A k \in Operators :
    auctions[k].bestBidder = Bot => auctions[k].bestBid >= bidAmount

\* The last block whose events the rows reflect, but for those that ProcessEvent
\* is going through.
ReflectedBlock ==
  IF pc \in {"bid", "close"} THEN upperBoundBlock ELSE lastIndexedBlock

\* Event j is not reflected by the rows.
Unread(j) == IF pc = "events" THEN j > cursor ELSE log[j].block > ReflectedBlock

\* An event that will drop the row of k.
Pending(k) ==
  \E j \in DOMAIN log : log[j].operator = k /\ Outbids(log[j]) /\ Unread(j)

\* The bot's bid waits and will be accepted.
Due(k) == Waiting("bid", k) /\ CanBid(auctions[k], bidAmount)

Backed(k) == auctionIsOpen(auctions[k]) => Leads(k) \/ Due(k) \/ Pending(k)

\* There are rows only once a range of mined blocks was handled.
Begun ==
  activeAuctions # {} => pc \notin {"down", "failed"} /\ lastIndexedBlock <= head

\* No event that is still to be handled opens an auction that has a row.
Fresh ==
  \A k \in activeAuctions, i \in DOMAIN log :
    Opens(i, k) => log[i].block <= ReflectedBlock

\* The rows, and the one that is about to be created.
Rows == activeAuctions \cup (IF pc = "bid" THEN sent ELSE {})

RowsBacked == \A k \in Rows : Backed(k)

\* The inductive invariant for RowIsJustified; the last three as long as the
\* process did not end.
RowInv ==
  /\ IInv
  /\ OpenedOnce /\ TodoInRange /\ RowsOpened /\ BotBids
  /\ ends = 0 => Begun /\ Fresh /\ RowsBacked

\* The bot has the tokens for a bid in every auction.
FundsSuffice ==
  IsFiniteSet(Operators) /\ Funds \in Nat /\ Cardinality(Operators) <= Funds

\* So it can pay for a bid in an auction that it does not lead.
LEMMA CanPayAll ==
  ASSUME FundsSuffice, BotBids, TypeOK, NEW k \in Operators,
         CanBid(auctions[k], bidAmount)
  PROVE  CanPay
<1> DEFINE S == {j \in Operators : auctions[j].bestBidder = Bot}
<1>1. auctions[k].bestBid \in Nat /\ auctions[k].bestBid < bidAmount
  BY DEF TypeOK, Auction, CanBid
<1>2. k \notin S
  BY <1>1 DEF BotBids
<1>3. S \in SUBSET (Operators \ {k})
  BY <1>2
<1>4. IsFiniteSet(Operators)
  BY DEF FundsSuffice
<1>5. /\ IsFiniteSet(Operators \ {k})
      /\ Cardinality(Operators \ {k}) = Cardinality(Operators) - 1
  BY <1>4, FS_RemoveElement
<1>6. IsFiniteSet(S) /\ Cardinality(S) <= Cardinality(Operators \ {k})
  <2> HIDE DEF S
  <2> QED BY <1>3, <1>5, FS_Subset
<1>7. Cardinality(S) \in Nat /\ Cardinality(Operators) \in Nat
  BY <1>4, <1>6, FS_CardinalityType
<1> HIDE DEF S
<1>8. Cardinality(S) < Funds
  BY <1>5, <1>6, <1>7 DEF FundsSuffice
<1> QED
  BY <1>8 DEF CanPay, S

\* A row belongs to an auction that was opened.
LEMMA RowsExist ==
  ASSUME RowInv
  PROVE  \A k \in Rows : k \in Operators /\ ~auctionIsInexistent(auctions[k])
<1>1. TypeOK /\ OpenedOnce /\ TodoInRange /\ RowsOpened
  BY DEF RowInv, IInv
<1> SUFFICES ASSUME NEW k \in Rows
             PROVE  k \in Operators /\ ~auctionIsInexistent(auctions[k])
  OBVIOUS
<1>2. k \in activeAuctions \/ (pc = "bid" /\ k \in todo)
  BY <1>1 DEF Rows, TodoInRange
<1>3. k \in Operators
  BY <1>1, <1>2 DEF TypeOK
<1>4. \E i \in DOMAIN log : Opens(i, k)
  BY <1>1, <1>2 DEF RowsOpened, TodoInRange
<1> QED
  BY <1>1, <1>3, <1>4 DEF OpenedOnce

-----------------------------------------------------------------------------
(* Rows and steps of the chain.                                            *)

\* What a step of the chain has to keep: a lead or a bid that is due ends with
\* the auction, or with an event.
LEMMA ChainRows ==
  ASSUME RowInv, IInv', botUnchanged, head' \in {head, head + 1}, BotBids',
         \A k \in Operators :
           /\ ~auctionIsInexistent(auctions[k]) => ~auctionIsInexistent(auctions'[k])
           /\ auctions[k].status = "Closed" => auctions'[k].status = "Closed",
         \/ log' = log
         \/ \E e \in Event :
              /\ e.block = head + 1 /\ log' = Append(log, e)
              /\ e.event = "OperatorLiquidated" =>
                   /\ auctionIsInexistent(auctions[e.operator])
                   /\ ~auctionIsInexistent(auctions'[e.operator]),
         \A k \in Operators :
           auctionIsOpen(auctions[k]) /\ (Leads(k) \/ Due(k)) =>
             \/ ~auctionIsOpen(auctions'[k])
             \/ Leads(k)'
             \/ Due(k)'
             \/ \E e \in Event : /\ e.block = head + 1 /\ log' = Append(log, e)
                                 /\ e.operator = k /\ Outbids(e)
  PROVE  RowInv'
<1>1. /\ TypeOK /\ OpenedOnce /\ TodoInRange /\ RowsOpened /\ Ranged /\ LogInOrder
      /\ TypeOK'
  BY DEF RowInv, IInv
<1>2. /\ lastIndexedBlock' = lastIndexedBlock /\ activeAuctions' = activeAuctions
      /\ pc' = pc /\ upperBoundBlock' = upperBoundBlock /\ cursor' = cursor
      /\ todo' = todo /\ sent' = sent /\ ends' = ends
  BY DEF botUnchanged, dbVars, memoryVars
<1>3. head \in Nat /\ Len(log) \in Nat /\ DOMAIN log = 1 .. Len(log)
  BY <1>1, LogFacts DEF TypeOK
<1>4. /\ DOMAIN log \subseteq DOMAIN log'
      /\ \A i \in DOMAIN log : log'[i] = log[i]
  BY <1>1, LogAppend
<1>5. ASSUME NEW i, NEW k, i \in DOMAIN log
      PROVE  Opens(i, k)' <=> Opens(i, k)
  BY <1>4, <1>5 DEF Opens
\* A new event opens an auction that did not exist.
<1>6. ASSUME NEW i \in DOMAIN log', i \notin DOMAIN log, NEW k \in Operators,
             Opens(i, k)'
      PROVE  /\ i = Len(log) + 1
             /\ auctionIsInexistent(auctions[k])
             /\ ~auctionIsInexistent(auctions'[k])
  <2>1. PICK e \in Event :
              /\ e.block = head + 1 /\ log' = Append(log, e)
              /\ e.event = "OperatorLiquidated" =>
                   /\ auctionIsInexistent(auctions[e.operator])
                   /\ ~auctionIsInexistent(auctions'[e.operator])
    BY <1>6
  <2>2. i = Len(log) + 1 /\ log'[i] = e
    BY <1>1, <1>6, <2>1, LogAppend
  <2> QED
    BY <1>6, <2>1, <2>2 DEF Opens
<1>7. OpenedOnce'
  <2> SUFFICES ASSUME NEW k \in Operators, NEW i \in DOMAIN log', Opens(i, k)'
               PROVE  /\ ~auctionIsInexistent(auctions'[k])
                      /\ \A j \in DOMAIN log' : Opens(j, k)' => j = i
    BY DEF OpenedOnce
  <2>1. CASE i \in DOMAIN log
    <3>1. ~auctionIsInexistent(auctions[k])
      BY <1>1, <1>5, <2>1 DEF OpenedOnce
    <3>2. ASSUME NEW j \in DOMAIN log', Opens(j, k)'
          PROVE  j = i
      <4>1. j \in DOMAIN log
        BY <1>6, <3>1, <3>2
      <4> QED
        BY <1>1, <1>5, <2>1, <3>2, <4>1 DEF OpenedOnce
    <3> QED
      BY <3>1, <3>2
  <2>2. CASE i \notin DOMAIN log
    <3>1. /\ i = Len(log) + 1 /\ auctionIsInexistent(auctions[k])
          /\ ~auctionIsInexistent(auctions'[k])
      BY <1>6, <2>2
    <3>2. ASSUME NEW j \in DOMAIN log', Opens(j, k)'
          PROVE  j = i
      <4>1. j \notin DOMAIN log
        BY <1>1, <1>5, <3>1, <3>2 DEF OpenedOnce
      <4> QED
        BY <1>6, <3>1, <3>2, <4>1
    <3> QED
      BY <3>1, <3>2
  <2> QED
    BY <2>1, <2>2
<1>8. TodoInRange'
  <2>1. ASSUME pc \in {"events", "bid"}, NEW k \in todo
        PROVE  \E i \in DOMAIN log' : /\ Opens(i, k)'
                                      /\ lastIndexedBlock < log'[i].block
                                      /\ log'[i].block <= upperBoundBlock
    <3>1. PICK i \in DOMAIN log : /\ Opens(i, k)
                                  /\ lastIndexedBlock < log[i].block
                                  /\ log[i].block <= upperBoundBlock
      BY <1>1, <2>1 DEF TodoInRange
    <3> QED
      BY <1>4, <1>5, <3>1
  <2> QED
    BY <1>1, <1>2, <2>1 DEF TodoInRange
<1>9. RowsOpened'
  BY <1>1, <1>2, <1>4, <1>5 DEF RowsOpened
<1>10. ASSUME ends = 0
       PROVE  Begun' /\ Fresh' /\ RowsBacked'
  <2>1. Begun /\ Fresh /\ RowsBacked
    BY <1>10 DEF RowInv
  <2>2. Begun'
    BY <1>2, <1>3, <2>1, <1>1 DEF Begun, TypeOK, NotIndexed
  <2>3. Fresh'
    <3> SUFFICES ASSUME NEW k \in activeAuctions, NEW i \in DOMAIN log', Opens(i, k)'
                 PROVE  log'[i].block <= ReflectedBlock
      BY <1>2 DEF Fresh, ReflectedBlock
    <3>1. k \in Operators /\ ~auctionIsInexistent(auctions[k])
      BY RowsExist DEF Rows
    <3>2. i \in DOMAIN log
      BY <1>6, <3>1
    <3> QED
      BY <1>4, <1>5, <2>1, <3>2 DEF Fresh
  <2>4. ASSUME NEW k \in Rows
        PROVE  Backed(k)'
    <3> SUFFICES ASSUME auctionIsOpen(auctions'[k])
                 PROVE  Leads(k)' \/ Due(k)' \/ Pending(k)'
      BY DEF Backed
    <3>1. k \in Operators /\ ~auctionIsInexistent(auctions[k])
      BY RowsExist
    <3>2. auctionIsOpen(auctions[k])
      <4>1. auctions[k] \in Auction /\ auctions[k].status # "Closed"
        BY <1>1, <3>1 DEF TypeOK, auctionIsOpen
      <4> QED
        BY <3>1, <4>1 DEF Auction, auctionIsOpen, auctionIsInexistent
    <3>3. Leads(k) \/ Due(k) \/ Pending(k)
      BY <2>1, <3>2 DEF RowsBacked, Backed
    <3>4. CASE Pending(k)
      BY <1>2, <1>4, <3>4 DEF Pending, Unread, ReflectedBlock, Outbids
    <3>5. ASSUME NEW e \in Event, e.block = head + 1, log' = Append(log, e),
                 e.operator = k, Outbids(e)
          PROVE  Pending(k)'
      <4>0. PICK n : n = Len(log) + 1
        OBVIOUS
      <4>1. n \in DOMAIN log' /\ log'[n] = e
        BY <1>1, <3>5, <4>0, LogAppend
      <4>2. pc = "events" => n > cursor
        BY <1>1, <1>3, <4>0 DEF Ranged, TypeOK
      <4>3. pc # "events" => head + 1 > ReflectedBlock
        <5>1. pc \in {"bid", "close"} => head + 1 > upperBoundBlock
          BY <1>1, <1>3 DEF TypeOK
        <5>2. pc \notin {"bid", "close"} => k \in activeAuctions
          BY DEF Rows
        <5>3. pc \notin {"bid", "close"} => head + 1 > lastIndexedBlock
          BY <1>1, <1>3, <2>1, <5>2 DEF Begun, TypeOK, NotIndexed
        <5> QED
          BY <5>1, <5>3 DEF ReflectedBlock
      <4>4. Unread(n)'
        BY <1>2, <3>5, <4>1, <4>2, <4>3 DEF Unread, ReflectedBlock
      <4> QED
        BY <3>5, <4>1, <4>4 DEF Pending, Outbids
    <3> QED
      BY <3>1, <3>2, <3>3, <3>4, <3>5
  <2>5. RowsBacked'
    BY <1>2, <2>4 DEF RowsBacked, Rows
  <2> QED
    BY <2>2, <2>3, <2>5
<1> QED
  BY <1>2, <1>7, <1>8, <1>9, <1>10 DEF RowInv

\* Time passes.
LEMMA MineRows ==
  ASSUME RowInv, Mine
  PROVE  RowInv'
<1>1. /\ head' = head + 1 /\ auctions' = auctions /\ log' = log
      /\ mempool' = mempool /\ botUnchanged
  BY DEF Mine
<1>2. IInv'
  BY MineStep DEF RowInv
<1>3. BotBids'
  BY <1>1 DEF RowInv, BotBids
<1>4. \A k \in Operators : (Leads(k) => Leads(k)') /\ (Due(k) => Due(k)')
  BY <1>1 DEF Leads, Due, Waiting
<1> QED
  BY <1>1, <1>2, <1>3, <1>4, ChainRows

\* A step about one auction, in terms of that auction: the bot leads only by its
\* own amount, and loses a lead or a due bid only with the auction or to an
\* event that says so.
LEMMA AuctionRows ==
  ASSUME RowInv, IInv', botUnchanged, head' = head,
         NEW k \in Operators, NEW a \in Auction,
         auctions' = [auctions EXCEPT ![k] = a],
         \/ log' = log
         \/ \E e \in Event :
              /\ e.block = head + 1 /\ log' = Append(log, e)
              /\ e.event = "OperatorLiquidated" =>
                   e.operator = k /\ auctionIsInexistent(auctions[k]),
         ~auctionIsInexistent(a),
         auctions[k].status = "Closed" => a.status = "Closed",
         a.bestBidder = Bot => a.bestBid >= bidAmount,
         \A j \in Operators : j # k /\ Waiting("bid", j) => Waiting("bid", j)',
         auctionIsOpen(auctions[k]) /\ (Leads(k) \/ Due(k)) =>
           \/ ~auctionIsOpen(a)
           \/ a.bestBidder = Bot
           \/ Waiting("bid", k)' /\ CanBid(a, bidAmount)
           \/ \E e \in Event : /\ e.block = head + 1 /\ log' = Append(log, e)
                               /\ e.operator = k /\ Outbids(e)
  PROVE  RowInv'
<1>1. auctions \in [Operators -> Auction] /\ BotBids
  BY DEF RowInv, IInv, TypeOK
<1>2. \A j \in Operators : auctions'[j] = IF j = k THEN a ELSE auctions[j]
  BY <1>1
<1>3. BotBids'
  BY <1>1, <1>2 DEF BotBids
<1>4. \A j \in Operators :
        /\ ~auctionIsInexistent(auctions[j]) => ~auctionIsInexistent(auctions'[j])
        /\ auctions[j].status = "Closed" => auctions'[j].status = "Closed"
  BY <1>2
<1>5. \/ log' = log
      \/ \E e \in Event :
           /\ e.block = head + 1 /\ log' = Append(log, e)
           /\ e.event = "OperatorLiquidated" =>
                /\ auctionIsInexistent(auctions[e.operator])
                /\ ~auctionIsInexistent(auctions'[e.operator])
  BY <1>2
<1>6. ASSUME NEW j \in Operators, auctionIsOpen(auctions[j]), Leads(j) \/ Due(j)
      PROVE  \/ ~auctionIsOpen(auctions'[j])
             \/ Leads(j)'
             \/ Due(j)'
             \/ \E e \in Event : /\ e.block = head + 1 /\ log' = Append(log, e)
                                 /\ e.operator = j /\ Outbids(e)
  <2>1. CASE j # k
    <3>1. auctions'[j] = auctions[j]
      BY <1>2, <2>1
    <3> QED
      BY <1>6, <2>1, <3>1 DEF Leads, Due
  <2>2. CASE j = k
    <3>1. auctions'[j] = a
      BY <1>2, <2>2
    <3> QED
      BY <1>6, <2>2, <3>1 DEF Leads, Due
  <2> QED
    BY <2>1, <2>2
<1> QED
  BY <1>3, <1>4, <1>5, <1>6, ChainRows

\* An auction opens; no row is of it.
LEMMA LiquidateRows ==
  ASSUME RowInv, NEW k \in Operators, Liquidate(k)
  PROVE  RowInv'
<1> DEFINE a == auctionOpen(auctions[k], head + 1)
<1> DEFINE e == Liquidated(k)
<1>1. /\ auctions' = [auctions EXCEPT ![k] = a]
      /\ log' = Append(log, e) /\ head' = head /\ mempool' = mempool
      /\ botUnchanged /\ auctions[k].status = "Uninitialized"
  BY DEF Liquidate, auctionIsInexistent
<1>2. IInv' /\ IInv /\ BotBids
  BY LiquidateStep DEF RowInv
<1>3. /\ a \in Auction /\ a.bestBid = auctions[k].bestBid
      /\ a.bestBidder = auctions[k].bestBidder /\ a.status = "Open"
  <2>1. auctions[k] \in Auction /\ head + 1 \in Nat
    BY <1>2, ChainFacts
  <2> QED
    BY <2>1, OpenUpdate
<1>4. e \in Event /\ e.block = head + 1 /\ e.operator = k
  BY <1>2, ChainFacts DEF Event, Liquidated
<1>5. \A j \in Operators : Waiting("bid", j) => Waiting("bid", j)'
  BY <1>1 DEF Waiting
<1> HIDE DEF a, e
<1>6. a.bestBidder = Bot => a.bestBid >= bidAmount
  BY <1>2, <1>3 DEF BotBids
<1> QED
  BY <1>1, <1>2, <1>3, <1>4, <1>5, <1>6, AuctionRows
     DEF auctionIsInexistent, auctionIsOpen

\* A rival that takes the lead from the bot, or outbids what waits, says so; one
\* that bids less leaves the bid due.
LEMMA RivalBidRows ==
  ASSUME RowInv, NEW k \in Operators, NEW who \in Rivals, NEW n \in RivalBids,
         RivalBid(k, who, n)
  PROVE  RowInv'
<1> DEFINE a == auctionBid(auctions[k], who, n)
<1> DEFINE e == BidEvent(k, who, n)
<1>1. /\ auctions' = [auctions EXCEPT ![k] = a]
      /\ log' = Append(log, e) /\ head' = head /\ mempool' = mempool
      /\ botUnchanged /\ CanBid(auctions[k], n)
  BY DEF RivalBid
<1>2. n \in Nat /\ who \in Bidders /\ who # Bot /\ who # NoBidder
  BY DEF Rivals
<1>3. IInv' /\ IInv /\ BotBids
  BY RivalBidStep DEF RowInv
<1>4. /\ a \in Auction /\ a.bestBid = n /\ a.bestBidder = who
      /\ a.status = auctions[k].status
  <2>1. auctions[k] \in Auction
    BY <1>3, ChainFacts
  <2> QED
    BY <1>2, <2>1, BidUpdate
<1>5. e \in Event /\ e.block = head + 1
  BY <1>2, <1>3, ChainFacts DEF Event, BidEvent
<1>6. /\ e.operator = k /\ e.event = "LiquidationBid"
      /\ n >= bidAmount => Outbids(e)
  BY <1>2 DEF BidEvent, Outbids
<1>7. auctionIsOpen(auctions[k]) /\ auctions[k].bestBid < n
      /\ auctions[k].bestBid \in Nat
  BY <1>1, <1>3, ChainFacts DEF CanBid
<1>8. \A j \in Operators : Waiting("bid", j) => Waiting("bid", j)'
  BY <1>1 DEF Waiting
<1> HIDE DEF a, e
<1>9. CASE n >= bidAmount
  BY <1>1, <1>2, <1>3, <1>4, <1>5, <1>6, <1>7, <1>8, <1>9, AuctionRows
     DEF auctionIsInexistent, auctionIsOpen
<1>10. CASE n < bidAmount
  <2>1. ~Leads(k)
    BY <1>2, <1>3, <1>7, <1>10 DEF Leads, BotBids
  <2>2. CanBid(a, bidAmount)
    BY <1>4, <1>7, <1>10 DEF CanBid, auctionIsOpen
  <2>3. Due(k) => Waiting("bid", k)'
    BY <1>8 DEF Due
  <2> QED
    BY <1>1, <1>2, <1>3, <1>4, <1>5, <1>6, <1>7, <1>8, <2>1, <2>2, <2>3, AuctionRows
       DEF auctionIsInexistent, auctionIsOpen
<1> QED
  BY <1>2, <1>9, <1>10

\* A row of a closed auction needs no reason.
LEMMA RivalCloseRows ==
  ASSUME RowInv, NEW k \in Operators, RivalClose(k)
  PROVE  RowInv'
<1> DEFINE a == auctionClose(auctions[k])
<1>1. /\ auctions' = [auctions EXCEPT ![k] = a]
      /\ log' = log /\ head' = head /\ mempool' = mempool /\ botUnchanged
  BY DEF RivalClose
<1>2. IInv' /\ IInv /\ BotBids
  BY RivalCloseStep DEF RowInv
<1>3. /\ a \in Auction /\ a.bestBid = auctions[k].bestBid
      /\ a.bestBidder = auctions[k].bestBidder /\ a.status = "Closed"
  <2>1. auctions[k] \in Auction
    BY <1>2, ChainFacts
  <2> QED
    BY <2>1, CloseUpdate
<1>4. \A j \in Operators : Waiting("bid", j) => Waiting("bid", j)'
  BY <1>1 DEF Waiting
<1> HIDE DEF a
<1>5. a.bestBidder = Bot => a.bestBid >= bidAmount
  BY <1>2, <1>3 DEF BotBids
<1> QED
  BY <1>1, <1>2, <1>3, <1>4, <1>5, AuctionRows DEF auctionIsInexistent, auctionIsOpen

\* A bid that is due is accepted, as the funds suffice.
LEMMA IncludeRows ==
  ASSUME RowInv, FundsSuffice, NEW tx \in Transaction, Include(tx)
  PROVE  RowInv'
<1> DEFINE k == tx.operator
<1>1. /\ k \in Operators /\ tx \in mempool
      /\ mempool' = mempool \ {tx} /\ head' = head /\ botUnchanged
      /\ tx = [call |-> tx.call, operator |-> k]
      /\ tx.call \in {"bid", "close"}
  BY DEF Include, Transaction
<1> HIDE DEF k
<1>2. IInv' /\ IInv /\ BotBids /\ TypeOK
  BY IncludeStep DEF RowInv, IInv
<1>3. ASSUME NEW j \in Operators, Waiting("bid", j)
      PROVE  Waiting("bid", j)' \/ (tx.call = "bid" /\ j = k)
  BY <1>1, <1>3 DEF Waiting
<1>4. CASE Accepted(tx) /\ tx.call = "bid"
  <2> DEFINE a == auctionBid(auctions[k], Bot, bidAmount)
  <2> DEFINE e == BidEvent(k, Bot, bidAmount)
  <2>1. /\ auctions' = [auctions EXCEPT ![k] = a] /\ log' = Append(log, e)
        /\ CanBid(auctions[k], bidAmount)
    BY <1>4 DEF Include, Accepted, k
  <2>2. bidAmount \in Nat /\ Bot # NoBidder /\ Bot \in Bidders
    OBVIOUS
  <2>3. /\ a \in Auction /\ a.bestBid = bidAmount /\ a.bestBidder = Bot
        /\ a.status = auctions[k].status
    <3>1. auctions[k] \in Auction
      BY <1>1, <1>2, ChainFacts
    <3> QED
      BY <2>2, <3>1, BidUpdate
  <2>4. e \in Event /\ e.block = head + 1
    BY <1>1, <1>2, <2>2, ChainFacts DEF Event, BidEvent
  <2>5. e.event = "LiquidationBid"
    BY DEF BidEvent
  <2>6. auctionIsOpen(auctions[k]) /\ a.bestBid >= bidAmount
    BY <2>1, <2>2, <2>3 DEF CanBid
  <2> HIDE DEF a, e
  <2> QED
    BY <1>1, <1>2, <1>3, <2>1, <2>3, <2>4, <2>5, <2>6, AuctionRows
       DEF auctionIsInexistent, auctionIsOpen
<1>5. CASE Accepted(tx) /\ tx.call = "close"
  <2> DEFINE a == auctionClose(auctions[k])
  <2>1. auctions' = [auctions EXCEPT ![k] = a] /\ log' = log
    BY <1>5 DEF Include, k
  <2>2. /\ a \in Auction /\ a.bestBid = auctions[k].bestBid
        /\ a.bestBidder = auctions[k].bestBidder /\ a.status = "Closed"
    <3>1. auctions[k] \in Auction
      BY <1>1, <1>2, ChainFacts
    <3> QED
      BY <3>1, CloseUpdate
  <2>3. \A j \in Operators : Waiting("bid", j) => Waiting("bid", j)'
    BY <1>3, <1>5
  <2> HIDE DEF a
  <2>4. a.bestBidder = Bot => a.bestBid >= bidAmount
    BY <1>1, <1>2, <2>2 DEF BotBids
  <2> QED
    BY <1>1, <1>2, <2>1, <2>2, <2>3, <2>4, AuctionRows
       DEF auctionIsInexistent, auctionIsOpen
<1>6. CASE ~Accepted(tx)
  <2>1. auctions' = auctions /\ log' = log
    BY <1>6 DEF Include
  <2>2. BotBids'
    BY <1>2, <2>1 DEF BotBids
  <2>3. tx.call = "bid" => ~CanBid(auctions[k], bidAmount)
    <3>1. CanBid(auctions[k], bidAmount) => CanPay
      BY <1>1, <1>2, CanPayAll
    <3> QED
      BY <1>6, <3>1 DEF Accepted, k
  <2>4. \A j \in Operators : (Leads(j) => Leads(j)') /\ (Due(j) => Due(j)')
    BY <1>3, <2>1, <2>3 DEF Leads, Due
  <2> QED
    BY <1>1, <1>2, <2>1, <2>2, <2>4, ChainRows
<1> QED
  BY <1>1, <1>4, <1>5, <1>6

-----------------------------------------------------------------------------
(* Rows and steps of the bot.                                              *)

\* What the steps of the bot keep whatever they do to its own state.
LEMMA BotRows ==
  ASSUME RowInv, chainUnchanged, mempool \subseteq mempool'
  PROVE  /\ OpenedOnce' /\ BotBids'
         /\ \A k : Leads(k) => Leads(k)'
         /\ \A k : Due(k) => Due(k)'
         /\ \A i, k : Opens(i, k)' <=> Opens(i, k)
<1>1. \A i, k : Opens(i, k)' <=> Opens(i, k)
  BY DEF chainUnchanged, Opens
<1>2. OpenedOnce' /\ BotBids'
  BY <1>1 DEF RowInv, chainUnchanged, OpenedOnce, BotBids
<1> QED
  BY <1>1, <1>2 DEF chainUnchanged, Leads, Due, Waiting

\* A step that leaves reasons as they are: those of the chain stand, and no
\* event is read.
LEMMA ReasonsStand ==
  ASSUME RowInv, chainUnchanged, mempool \subseteq mempool', NEW k, Backed(k),
         \A j \in DOMAIN log : Unread(j) => Unread(j)'
  PROVE  Backed(k)'
<1>1. (Leads(k) => Leads(k)') /\ (Due(k) => Due(k)')
  BY BotRows
<1>2. Pending(k) => Pending(k)'
  BY DEF Pending, chainUnchanged, Outbids
<1> QED
  BY <1>1, <1>2 DEF Backed, chainUnchanged

\* The end of the process: what is to be said of rows is said no more.
LEMMA EndRows ==
  ASSUME RowInv, IInv', UNCHANGED chainVars, UNCHANGED dbVars,
         ends' # 0, pc' \in {"down", "failed"}
  PROVE  RowInv'
<1>1. chainUnchanged /\ mempool \subseteq mempool' /\ activeAuctions' = activeAuctions
  BY DEF chainVars, dbVars, chainUnchanged
<1>2. OpenedOnce' /\ BotBids' /\ \A i, k : Opens(i, k)' <=> Opens(i, k)
  BY <1>1, BotRows
<1>3. TodoInRange'
  BY DEF TodoInRange
<1>4. RowsOpened'
  BY <1>1, <1>2 DEF RowInv, RowsOpened, chainUnchanged
<1> QED
  BY <1>2, <1>3, <1>4 DEF RowInv

\* An await that throws.
LEMMA FailRows ==
  ASSUME RowInv, IInv', Fail
  PROVE  RowInv'
<1>1. ends \in Nat
  BY DEF RowInv, IInv, TypeOK
<1>2. ends' # 0
  BY <1>1 DEF Fail
<1> QED
  BY <1>2, EndRows DEF Fail

\* The process is killed.
LEMMA KillRows ==
  ASSUME RowInv, Kill
  PROVE  RowInv'
<1>1. ends \in Nat
  BY DEF RowInv, IInv, TypeOK
<1>2. ends' # 0
  BY <1>1 DEF Kill
<1>3. IInv'
  BY KillStep DEF RowInv
<1> QED
  BY <1>2, <1>3, EndRows DEF Kill

\* The process starts for the first time without rows.
LEMMA StartRows ==
  ASSUME RowInv, Start
  PROVE  RowInv'
<1>1. /\ UNCHANGED chainVars /\ ends' = ends /\ pc \in {"down", "failed"}
      /\ activeAuctions' = activeAuctions /\ pc' = "idle"
  BY DEF Start
<1>2. chainUnchanged /\ mempool \subseteq mempool'
  BY <1>1 DEF chainVars, chainUnchanged
<1>3. OpenedOnce' /\ BotBids' /\ \A i, k : Opens(i, k)' <=> Opens(i, k)
  BY <1>2, BotRows
<1>4. TodoInRange'
  BY <1>1 DEF TodoInRange
<1>5. RowsOpened'
  BY <1>1, <1>2, <1>3 DEF RowInv, RowsOpened, chainUnchanged
<1>6. ends = 0 => activeAuctions = {}
  BY <1>1 DEF RowInv, Begun
<1>7. ends = 0 => Begun' /\ Fresh' /\ RowsBacked'
  BY <1>1, <1>6 DEF Begun, Fresh, RowsBacked, Rows
<1>8. IInv'
  BY StartStep DEF RowInv
<1> QED
  BY <1>1, <1>3, <1>4, <1>5, <1>7, <1>8 DEF RowInv

\* A poll puts the cursor behind the events that the rows reflect.
LEMMA PollRows ==
  ASSUME RowInv, Poll
  PROVE  RowInv'
<1>1. /\ UNCHANGED chainVars /\ UNCHANGED dbVars /\ pc = "idle" /\ pc' = "events"
      /\ todo' = todo /\ sent' = sent /\ ends' = ends
      /\ lastIndexedBlock + 1 <= head /\ cursor' = Handled(lastIndexedBlock)
  BY DEF Poll
<1>2. /\ chainUnchanged /\ mempool \subseteq mempool'
      /\ lastIndexedBlock' = lastIndexedBlock /\ activeAuctions' = activeAuctions
  BY <1>1 DEF chainVars, dbVars, chainUnchanged
<1>3. OpenedOnce' /\ BotBids' /\ \A i, k : Opens(i, k)' <=> Opens(i, k)
  BY <1>2, BotRows
<1>4. TypeOK /\ LogInOrder /\ RowsOpened /\ IInv' /\ TypeOK'
  BY PollStep DEF RowInv, IInv
<1>5. todo = {} /\ sent = {} /\ lastIndexedBlock \in Int /\ head \in Nat
  BY <1>1, <1>4 DEF TypeOK, NotIndexed
<1>6. TodoInRange'
  BY <1>1, <1>5 DEF TodoInRange
<1>7. RowsOpened'
  BY <1>2, <1>3, <1>4 DEF RowsOpened, chainUnchanged
<1>8. ASSUME NEW j \in DOMAIN log, Unread(j)
      PROVE  Unread(j)'
  <2>1. log[j].block > lastIndexedBlock
    BY <1>1, <1>8 DEF Unread, ReflectedBlock
  <2>2. log[j].block \in Nat /\ j \in Nat
    BY <1>4, LogFacts
  <2>3. /\ Handled(lastIndexedBlock) \in 0 .. Len(log)
        /\ log[j].block <= lastIndexedBlock <=> j <= Handled(lastIndexedBlock)
    BY <1>4, <1>5, HandledIs
  <2>4. Len(log) \in Nat
    BY <1>4, LogFacts
  <2>5. j > Handled(lastIndexedBlock)
    BY <1>5, <2>1, <2>2, <2>3, <2>4
  <2> QED
    BY <1>1, <2>5 DEF Unread
<1>9. ASSUME ends = 0
      PROVE  Begun' /\ Fresh' /\ RowsBacked'
  <2>1. Fresh /\ RowsBacked
    BY <1>9 DEF RowInv
  <2>2. Begun'
    BY <1>1, <1>2, <1>5 DEF Begun, chainUnchanged
  <2>3. Fresh'
    BY <1>1, <1>2, <1>3, <2>1 DEF Fresh, ReflectedBlock, chainUnchanged
  <2>4. \A k \in activeAuctions : Backed(k)'
    BY <1>2, <1>8, <2>1, ReasonsStand DEF RowsBacked, Rows
  <2> QED
    BY <1>1, <1>2, <2>2, <2>3, <2>4 DEF RowsBacked, Rows
<1> QED
  BY <1>1, <1>3, <1>4, <1>6, <1>7, <1>9 DEF RowInv

\* An event that outbids the bot in an auction with a row drops the row, since
\* the auction was opened before the range.
LEMMA ProcessEventRows ==
  ASSUME RowInv, ProcessEvent
  PROVE  RowInv'
<1>0. PICK n, e, k : n = cursor + 1 /\ e = log[n] /\ k = e.operator
  OBVIOUS
<1>1. /\ UNCHANGED chainVars /\ lastIndexedBlock' = lastIndexedBlock
      /\ pc = "events" /\ pc' = pc /\ cursor' = n
      /\ upperBoundBlock' = upperBoundBlock /\ sent' = sent /\ ends' = ends
      /\ cursor < Handled(upperBoundBlock)
  BY <1>0 DEF ProcessEvent
<1>2. chainUnchanged /\ mempool \subseteq mempool'
  BY <1>1 DEF chainVars, chainUnchanged
<1>3. \/ /\ e.event = "OperatorLiquidated"
         /\ todo' = todo \cup {k} /\ activeAuctions' = activeAuctions
      \/ /\ Outbids(e)
         /\ todo' = todo \ {k}
         /\ activeAuctions' = IF k \in todo THEN activeAuctions
                                             ELSE activeAuctions \ {k}
      \/ /\ e.event = "LiquidationBid" /\ ~Outbids(e)
         /\ todo' = todo /\ activeAuctions' = activeAuctions
  BY <1>0 DEF ProcessEvent
<1>4. /\ TypeOK /\ LogInOrder /\ Ranged /\ TodoInRange /\ OpenedOnce /\ RowsOpened
      /\ IInv /\ IInv'
  BY ProcessEventStep DEF RowInv, IInv
<1>5. /\ lastIndexedBlock \in Nat /\ upperBoundBlock \in Nat /\ cursor \in Nat
      /\ lastIndexedBlock < upperBoundBlock /\ upperBoundBlock <= head
      /\ head \in Nat
  BY <1>1, <1>4, RangeFacts DEF TypeOK
<1>6. /\ n \in DOMAIN log /\ k \in Operators
      /\ e.block \in Nat /\ e.block <= upperBoundBlock
      /\ lastIndexedBlock < e.block
  <2>0. upperBoundBlock \in Int
    BY <1>5
  <2>1. /\ Handled(upperBoundBlock) \in 0 .. Len(log)
        /\ \A i \in DOMAIN log :
             log[i].block <= upperBoundBlock <=> i <= Handled(upperBoundBlock)
    BY <1>4, <2>0, HandledIs
  <2>2. n \in DOMAIN log /\ n <= Handled(upperBoundBlock)
    BY <1>0, <1>1, <1>4, <1>5, <2>1, LogFacts
  <2>3. e.block \in Nat /\ k \in Operators
    BY <1>0, <1>4, <2>2, LogFacts
  <2>4. e.block <= lastIndexedBlock => n <= cursor
    BY <1>0, <1>1, <1>4, <2>2 DEF Ranged
  <2> QED
    BY <1>0, <1>5, <2>1, <2>2, <2>3, <2>4
<1>7. OpenedOnce' /\ BotBids' /\ \A i, j : Opens(i, j)' <=> Opens(i, j)
  BY <1>2, BotRows
<1>8. ASSUME NEW j \in todo'
      PROVE  \E i \in DOMAIN log : /\ Opens(i, j)
                                   /\ lastIndexedBlock < log[i].block
                                   /\ log[i].block <= upperBoundBlock
  <2>1. CASE j \in todo
    BY <1>1, <1>4, <2>1 DEF TodoInRange
  <2>2. CASE j \notin todo
    <3>1. e.event = "OperatorLiquidated" /\ j = k
      BY <1>3, <2>2
    <3>2. Opens(n, j)
      BY <1>0, <3>1 DEF Opens
    <3> QED
      BY <1>0, <1>6, <3>2
  <2> QED
    BY <2>1, <2>2
<1>9. TodoInRange'
  BY <1>1, <1>2, <1>4, <1>7, <1>8 DEF TodoInRange, chainUnchanged
<1>10. activeAuctions' \subseteq activeAuctions
  BY <1>3
<1>11. RowsOpened'
  BY <1>2, <1>4, <1>7, <1>10 DEF RowsOpened, chainUnchanged
<1>12. ASSUME ends = 0
       PROVE  Begun' /\ Fresh' /\ RowsBacked'
  <2>1. Fresh /\ RowsBacked
    BY <1>12 DEF RowInv
  <2>2. Begun'
    BY <1>1, <1>2, <1>5 DEF Begun, chainUnchanged
  <2>3. Fresh'
    BY <1>1, <1>2, <1>7, <1>10, <2>1 DEF Fresh, ReflectedBlock, chainUnchanged
  <2>4. ASSUME NEW j \in activeAuctions'
        PROVE  Backed(j)'
    <3>1. j \in activeAuctions /\ Backed(j)
      BY <1>10, <2>1 DEF RowsBacked, Rows
    <3>2. j \notin todo
      <4> SUFFICES ASSUME j \in todo PROVE FALSE
        OBVIOUS
      <4>1. PICK i \in DOMAIN log : Opens(i, j) /\ lastIndexedBlock < log[i].block
        BY <1>1, <1>4 DEF TodoInRange
      <4>2. log[i].block <= lastIndexedBlock
        BY <1>1, <2>1, <3>1, <4>1 DEF Fresh, ReflectedBlock
      <4>3. log[i].block \in Nat
        BY <1>4, LogFacts
      <4> QED
        BY <1>5, <4>1, <4>2, <4>3
    <3>3. ~(Outbids(e) /\ j = k)
      BY <1>3, <2>4, <3>2 DEF Outbids
    <3>4. Pending(j) => Pending(j)'
      <4> SUFFICES ASSUME Pending(j) PROVE Pending(j)'
        OBVIOUS
      <4>1. PICK i \in DOMAIN log :
              log[i].operator = j /\ Outbids(log[i]) /\ i > cursor
        BY <1>1 DEF Pending, Unread
      <4>2. i # n
        BY <1>0, <3>3, <4>1
      <4>3. i > n
        BY <1>0, <1>4, <1>5, <4>1, <4>2, LogFacts
      <4> QED
        BY <1>1, <1>2, <4>1, <4>3 DEF Pending, Unread, chainUnchanged, Outbids
    <3>5. (Leads(j) => Leads(j)') /\ (Due(j) => Due(j)')
      BY <1>2, BotRows
    <3> QED
      BY <1>2, <3>1, <3>4, <3>5 DEF Backed, chainUnchanged
  <2>5. RowsBacked'
    BY <1>1, <2>4 DEF RowsBacked, Rows
  <2> QED
    BY <2>2, <2>3, <2>5
<1> QED
  BY <1>1, <1>4, <1>7, <1>9, <1>11, <1>12 DEF RowInv

\* When the range is read, the cursor is behind its last block.
LEMMA EventsProcessedRows ==
  ASSUME RowInv, EventsProcessed
  PROVE  RowInv'
<1>1. /\ UNCHANGED chainVars /\ UNCHANGED dbVars /\ UNCHANGED memoryVars
      /\ pc = "events" /\ pc' = "bid" /\ ends' = ends
      /\ cursor = Handled(upperBoundBlock)
  BY DEF EventsProcessed
<1>2. /\ chainUnchanged /\ mempool \subseteq mempool'
      /\ lastIndexedBlock' = lastIndexedBlock /\ activeAuctions' = activeAuctions
      /\ upperBoundBlock' = upperBoundBlock /\ todo' = todo /\ sent' = sent
  BY <1>1 DEF chainVars, dbVars, memoryVars, chainUnchanged
<1>3. OpenedOnce' /\ BotBids' /\ \A i, k : Opens(i, k)' <=> Opens(i, k)
  BY <1>2, BotRows
<1>4. /\ TypeOK /\ LogInOrder /\ RowsOpened /\ TodoInRange /\ IInv /\ IInv'
  BY EventsProcessedStep DEF RowInv, IInv
<1>5. /\ sent = {} /\ lastIndexedBlock \in Nat /\ upperBoundBlock \in Nat
      /\ lastIndexedBlock < upperBoundBlock /\ upperBoundBlock <= head
      /\ head \in Nat
  BY <1>1, <1>4, RangeFacts DEF TodoInRange, TypeOK
<1>6. TodoInRange'
  BY <1>1, <1>2, <1>3, <1>4, <1>5 DEF TodoInRange, chainUnchanged
<1>7. RowsOpened'
  BY <1>2, <1>3, <1>4 DEF RowsOpened, chainUnchanged
<1>8. ASSUME NEW j \in DOMAIN log, Unread(j)
      PROVE  Unread(j)'
  <2>1. j > cursor
    BY <1>1, <1>8 DEF Unread
  <2>2. log[j].block \in Nat /\ j \in Nat /\ Len(log) \in Nat
    BY <1>4, LogFacts
  <2>3. upperBoundBlock \in Int
    BY <1>5
  <2>4. /\ Handled(upperBoundBlock) \in 0 .. Len(log)
        /\ log[j].block <= upperBoundBlock <=> j <= Handled(upperBoundBlock)
    BY <1>4, <2>3, HandledIs
  <2>5. log[j].block > upperBoundBlock
    BY <1>1, <1>5, <2>1, <2>2, <2>4
  <2> QED
    BY <1>1, <1>2, <2>5 DEF Unread, ReflectedBlock, chainUnchanged
<1>9. ASSUME ends = 0
      PROVE  Begun' /\ Fresh' /\ RowsBacked'
  <2>1. Fresh /\ RowsBacked
    BY <1>9 DEF RowInv
  <2>2. Begun'
    BY <1>1, <1>2, <1>5 DEF Begun, chainUnchanged
  <2>3. ASSUME NEW k \in activeAuctions, NEW i \in DOMAIN log, Opens(i, k)
        PROVE  log[i].block <= upperBoundBlock
    <3>1. log[i].block <= lastIndexedBlock
      BY <1>1, <2>1, <2>3 DEF Fresh, ReflectedBlock
    <3>2. log[i].block \in Nat
      BY <1>4, LogFacts
    <3> QED
      BY <1>5, <3>1, <3>2
  <2>4. Fresh'
    BY <1>1, <1>2, <1>3, <2>3 DEF Fresh, ReflectedBlock, chainUnchanged
  <2>5. \A k \in activeAuctions : Backed(k)'
    BY <1>2, <1>8, <2>1, ReasonsStand DEF RowsBacked, Rows
  <2> QED
    BY <1>2, <1>5, <2>2, <2>4, <2>5 DEF RowsBacked, Rows
<1> QED
  BY <1>1, <1>3, <1>4, <1>6, <1>7, <1>9 DEF RowInv

\* A bid goes out when it would be accepted: the row to come is backed by it.
LEMMA SendBidRows ==
  ASSUME RowInv, NEW k \in Operators, SendBid(k)
  PROVE  RowInv'
<1>1. IInv /\ IInv' /\ pc = "bid" /\ sent = {} /\ k \in todo
  BY SendBidStep DEF RowInv, SendBid
<1>2. CASE Fail
  BY <1>1, <1>2, FailRows
<1>3. CASE ~Fail
  <2> DEFINE tx == [call |-> "bid", operator |-> k]
  <2>1. /\ mempool' = mempool \cup {tx} /\ sent' = {k}
        /\ lastIndexedBlock' = lastIndexedBlock
        /\ activeAuctions' = activeAuctions
        /\ pc' = pc /\ upperBoundBlock' = upperBoundBlock /\ cursor' = cursor
        /\ todo' = todo /\ ends' = ends /\ chainUnchanged
        /\ CanBid(auctions[k], bidAmount)
    BY <1>3 DEF SendBid, Send, Accepted, dbVars, chainUnchanged
  <2>2. mempool \subseteq mempool'
    BY <2>1
  <2>3. OpenedOnce' /\ BotBids' /\ \A i, j : Opens(i, j)' <=> Opens(i, j)
    BY <2>1, <2>2, BotRows
  <2>4. TodoInRange /\ RowsOpened
    BY DEF RowInv
  <2>5. TodoInRange'
    BY <1>1, <2>1, <2>3, <2>4 DEF TodoInRange, chainUnchanged
  <2>6. RowsOpened'
    BY <2>1, <2>3, <2>4 DEF RowsOpened, chainUnchanged
  <2>7. ASSUME ends = 0
        PROVE  Begun' /\ Fresh' /\ RowsBacked'
    <3>1. Begun /\ Fresh /\ RowsBacked
      BY <2>7 DEF RowInv
    <3>2. Begun'
      BY <2>1, <3>1 DEF Begun, chainUnchanged
    <3>3. Fresh'
      BY <2>1, <2>3, <3>1 DEF Fresh, ReflectedBlock, chainUnchanged
    <3>4. \A j \in DOMAIN log : Unread(j) => Unread(j)'
      BY <2>1 DEF Unread, ReflectedBlock, chainUnchanged
    <3>5. \A j \in activeAuctions : Backed(j)'
      BY <2>1, <2>2, <3>1, <3>4, ReasonsStand DEF RowsBacked, Rows
    <3>6. Due(k)'
      BY <2>1 DEF Due, Waiting, chainUnchanged
    <3>7. Backed(k)'
      BY <3>6 DEF Backed
    <3> QED
      BY <1>1, <2>1, <3>2, <3>3, <3>5, <3>7 DEF RowsBacked, Rows
  <2> QED
    BY <1>1, <2>1, <2>3, <2>5, <2>6, <2>7 DEF RowInv
<1> QED
  BY <1>2, <1>3

\* The row is created, of an auction that was opened in the range and not after.
LEMMA CreateRowRows ==
  ASSUME RowInv, NEW k \in Operators, CreateRow(k)
  PROVE  RowInv'
<1>1. IInv /\ IInv' /\ TypeOK /\ pc = "bid" /\ k \in sent
  BY CreateRowStep DEF RowInv, IInv, CreateRow
<1>2. CASE Fail
  BY <1>1, <1>2, FailRows
<1>3. CASE ~Fail
  <2>1. /\ chainUnchanged /\ mempool' = mempool /\ mempool \subseteq mempool'
        /\ activeAuctions' = activeAuctions \cup {k} /\ todo' = todo \ {k}
        /\ sent' = {} /\ lastIndexedBlock' = lastIndexedBlock
        /\ pc' = pc /\ upperBoundBlock' = upperBoundBlock /\ cursor' = cursor
        /\ ends' = ends
    BY <1>3 DEF CreateRow, chainVars, chainUnchanged
  <2>2. OpenedOnce' /\ BotBids' /\ \A i, j : Opens(i, j)' <=> Opens(i, j)
    BY <2>1, BotRows
  <2>3. TodoInRange /\ RowsOpened /\ OpenedOnce
    BY DEF RowInv
  <2>4. PICK i \in DOMAIN log : Opens(i, k) /\ log[i].block <= upperBoundBlock
    BY <1>1, <2>3 DEF TodoInRange
  <2>5. TodoInRange'
    BY <1>1, <2>1, <2>2, <2>3 DEF TodoInRange, chainUnchanged
  <2>6. RowsOpened'
    BY <2>1, <2>2, <2>3, <2>4 DEF RowsOpened, chainUnchanged
  <2>7. ASSUME ends = 0
        PROVE  Begun' /\ Fresh' /\ RowsBacked'
    <3>1. Begun /\ Fresh /\ RowsBacked
      BY <2>7 DEF RowInv
    <3>2. Begun'
      <4>1. /\ lastIndexedBlock \in Nat /\ upperBoundBlock \in Nat
            /\ lastIndexedBlock < upperBoundBlock /\ upperBoundBlock <= head
            /\ head \in Nat
        BY <1>1, RangeFacts DEF TypeOK
      <4> QED
        BY <1>1, <2>1, <4>1 DEF Begun, chainUnchanged
    <3>3. \A j \in DOMAIN log : Opens(j, k) => log[j].block <= upperBoundBlock
      BY <2>3, <2>4 DEF OpenedOnce
    <3>4. Fresh'
      BY <1>1, <2>1, <2>2, <3>1, <3>3 DEF Fresh, ReflectedBlock, chainUnchanged
    <3>5. \A j \in DOMAIN log : Unread(j) => Unread(j)'
      BY <2>1 DEF Unread, ReflectedBlock, chainUnchanged
    <3>6. Rows' \subseteq Rows
      BY <1>1, <2>1 DEF Rows
    <3>7. \A j \in Rows' : Backed(j)'
      BY <2>1, <3>1, <3>5, <3>6, ReasonsStand DEF RowsBacked
    <3> QED
      BY <3>2, <3>4, <3>7 DEF RowsBacked
  <2> QED
    BY <1>1, <2>1, <2>2, <2>5, <2>6, <2>7 DEF RowInv
<1> QED
  BY <1>2, <1>3

\* The steps after the bids: rows go, none comes, and no event is read.
LEMMA CloseRows ==
  ASSUME RowInv, IInv', chainUnchanged, mempool \subseteq mempool', ends' = ends,
         pc \in {"bid", "close"}, pc' \in {"close", "idle"},
         pc' = "close" => upperBoundBlock' = upperBoundBlock,
         pc' = "idle" => lastIndexedBlock' = upperBoundBlock,
         activeAuctions' \subseteq activeAuctions
  PROVE  RowInv'
<1>1. OpenedOnce' /\ BotBids' /\ \A i, j : Opens(i, j)' <=> Opens(i, j)
  BY BotRows
<1>2. TodoInRange'
  BY DEF TodoInRange
<1>3. RowsOpened'
  BY <1>1 DEF RowInv, RowsOpened, chainUnchanged
<1>4. ReflectedBlock' = ReflectedBlock
  BY DEF ReflectedBlock
<1>5. ASSUME ends = 0
      PROVE  Begun' /\ Fresh' /\ RowsBacked'
  <2>1. Fresh /\ RowsBacked
    BY <1>5 DEF RowInv
  <2>2. Begun'
    <3>1. IInv
      BY DEF RowInv
    <3>2. upperBoundBlock <= head
      BY <3>1, RangeFacts
    <3>3. pc' = "close" => lastIndexedBlock' <= head'
      <4> SUFFICES ASSUME pc' = "close" PROVE lastIndexedBlock' <= head'
        OBVIOUS
      <4>1. /\ lastIndexedBlock' < upperBoundBlock' /\ upperBoundBlock' <= head'
            /\ lastIndexedBlock' \in Int /\ upperBoundBlock' \in Int /\ head' \in Int
        BY DEF IInv, TypeOK, Ranged, NotIndexed
      <4> QED
        BY <4>1
    <3> QED
      BY <3>2, <3>3 DEF Begun, chainUnchanged
  <2>3. Fresh'
    BY <1>1, <1>4, <2>1 DEF Fresh, chainUnchanged
  <2>4. \A j \in DOMAIN log : Unread(j) => Unread(j)'
    BY <1>4 DEF Unread, chainUnchanged
  <2>5. Rows' \subseteq Rows
    BY DEF Rows
  <2>6. \A j \in Rows' : Backed(j)'
    BY <2>1, <2>4, <2>5, ReasonsStand DEF RowsBacked
  <2> QED
    BY <2>2, <2>3, <2>6 DEF RowsBacked
<1> QED
  BY <1>1, <1>2, <1>3, <1>5 DEF RowInv

\* Nothing is bid or sent before the rows are read.
LEMMA ReadRowsRows ==
  ASSUME RowInv, ReadRows
  PROVE  RowInv'
<1>1. /\ chainUnchanged /\ mempool \subseteq mempool'
      /\ activeAuctions' = activeAuctions
      /\ pc = "bid" /\ pc' = "close" /\ upperBoundBlock' = upperBoundBlock
      /\ ends' = ends
  BY DEF ReadRows, chainVars, dbVars, chainUnchanged
<1>2. IInv'
  BY ReadRowsStep DEF RowInv
<1> QED
  BY <1>1, <1>2, CloseRows

\* A call that closes an auction goes out.
LEMMA SendCloseRows ==
  ASSUME RowInv, NEW k \in Operators, SendClose(k)
  PROVE  RowInv'
<1>1. IInv' /\ pc = "close"
  BY SendCloseStep DEF RowInv, SendClose
<1>2. CASE Fail
  BY <1>1, <1>2, FailRows
<1>3. CASE ~Fail
  <2>1. /\ mempool \subseteq mempool' /\ activeAuctions' = activeAuctions
        /\ pc' = pc /\ upperBoundBlock' = upperBoundBlock
        /\ ends' = ends /\ chainUnchanged
    BY <1>3 DEF SendClose, Send, dbVars, chainUnchanged
  <2> QED
    BY <1>1, <2>1, CloseRows
<1> QED
  BY <1>2, <1>3

\* A row goes.
LEMMA DestroyRowRows ==
  ASSUME RowInv, NEW k \in Operators, DestroyRow(k)
  PROVE  RowInv'
<1>1. /\ chainUnchanged /\ mempool \subseteq mempool'
      /\ activeAuctions' = activeAuctions \ {k}
      /\ pc = "close" /\ pc' = pc /\ upperBoundBlock' = upperBoundBlock
      /\ ends' = ends
  BY DEF DestroyRow, chainVars, chainUnchanged
<1>2. IInv'
  BY DestroyRowStep DEF RowInv
<1> QED
  BY <1>1, <1>2, CloseRows

\* The range is saved as handled.
LEMMA SaveRows ==
  ASSUME RowInv, Save
  PROVE  RowInv'
<1>1. /\ chainUnchanged /\ mempool \subseteq mempool'
      /\ activeAuctions' = activeAuctions /\ ends' = ends
      /\ pc = "close" /\ pc' = "idle" /\ lastIndexedBlock' = upperBoundBlock
  BY DEF Save, chainVars, chainUnchanged
<1>2. IInv'
  BY SaveStep DEF RowInv
<1> QED
  BY <1>1, <1>2, CloseRows

-----------------------------------------------------------------------------
(* The invariant of the rows and what follows from it.                     *)

\* There is no row at the beginning.
LEMMA InitRows ==
  ASSUME Init
  PROVE  RowInv
<1>1. IInv
  BY InitInvariant
<1>2. DOMAIN log = {} /\ activeAuctions = {} /\ pc = "down"
  BY DEF Init
<1>3. \A k \in Operators : auctions[k].bestBidder # Bot
  BY DEF Init, NoAuction
<1> QED
  BY <1>1, <1>2, <1>3
     DEF RowInv, OpenedOnce, TodoInRange, RowsOpened, BotBids, Begun, Fresh,
         RowsBacked, Rows

\* A step in which nothing happens.
LEMMA StutterRows ==
  ASSUME RowInv, UNCHANGED vars
  PROVE  RowInv'
<1>1. /\ UNCHANGED <<auctions, log, head, mempool>> /\ UNCHANGED dbVars
      /\ UNCHANGED memoryVars /\ pc' = pc /\ ends' = ends
  BY DEF vars, chainVars
<1>2. botUnchanged
  BY <1>1 DEF botUnchanged
<1>3. IInv'
  BY Stutter DEF RowInv
<1>4. BotBids'
  BY <1>1 DEF RowInv, BotBids
<1>5. \A k \in Operators : (Leads(k) => Leads(k)') /\ (Due(k) => Due(k)')
  BY <1>1 DEF Leads, Due, Waiting
<1> QED
  BY <1>1, <1>2, <1>3, <1>4, <1>5, ChainRows

\* Every step keeps the invariant, if the funds suffice.
LEMMA RowStep ==
  ASSUME FundsSuffice, RowInv, [Next]_vars
  PROVE  RowInv'
<1>1. CASE Start BY <1>1, StartRows
<1>2. CASE Poll BY <1>2, PollRows
<1>3. CASE ProcessEvent BY <1>3, ProcessEventRows
<1>4. CASE EventsProcessed BY <1>4, EventsProcessedRows
<1>5. CASE \E k \in Operators : SendBid(k) BY <1>5, SendBidRows
<1>6. CASE \E k \in Operators : CreateRow(k) BY <1>6, CreateRowRows
<1>7. CASE ReadRows BY <1>7, ReadRowsRows
<1>8. CASE \E k \in Operators : SendClose(k) BY <1>8, SendCloseRows
<1>9. CASE \E k \in Operators : DestroyRow(k) BY <1>9, DestroyRowRows
<1>10. CASE Save BY <1>10, SaveRows
<1>11. CASE Kill BY <1>11, KillRows
<1>12. CASE \E tx \in Transaction : Include(tx) BY <1>12, IncludeRows
<1>13. CASE Mine BY <1>13, MineRows
<1>14. CASE \E k \in Operators : Liquidate(k) BY <1>14, LiquidateRows
<1>15. CASE \E k \in Operators, who \in Rivals, n \in RivalBids :
              RivalBid(k, who, n)
  BY <1>15, RivalBidRows
<1>16. CASE \E k \in Operators : RivalClose(k) BY <1>16, RivalCloseRows
<1>17. CASE UNCHANGED vars BY <1>17, StutterRows
<1> QED
  BY <1>1, <1>2, <1>3, <1>4, <1>5, <1>6, <1>7, <1>8, <1>9, <1>10, <1>11,
     <1>12, <1>13, <1>14, <1>15, <1>16, <1>17 DEF Next, BotStep

\* An event that is not read lies behind those that the rows reflect.
LEMMA PendingIsOutbid ==
  ASSUME IInv, NEW k, Pending(k)
  PROVE  OutbidAfter(k, Reflected)
<1>1. TypeOK /\ LogInOrder
  BY DEF IInv
<1>2. PICK j \in DOMAIN log : log[j].operator = k /\ Outbids(log[j]) /\ Unread(j)
  BY DEF Pending
<1>3. log[j].block \in Nat /\ j \in Nat /\ Len(log) \in Nat
  BY <1>1, LogFacts
<1>4. ReflectedBlock \in Int
  BY <1>1 DEF ReflectedBlock, TypeOK, NotIndexed
<1>5. /\ Handled(ReflectedBlock) \in 0 .. Len(log)
      /\ log[j].block <= ReflectedBlock <=> j <= Handled(ReflectedBlock)
  BY <1>1, <1>4, HandledIs
<1>6. j > Reflected
  <2>1. CASE pc = "events"
    BY <1>2, <2>1 DEF Unread, Reflected
  <2>2. CASE pc # "events"
    <3>1. log[j].block > ReflectedBlock
      BY <1>2, <2>2 DEF Unread
    <3>2. Reflected = Handled(ReflectedBlock)
      BY <2>2 DEF Reflected, ReflectedBlock
    <3> HIDE DEF ReflectedBlock
    <3> QED
      BY <1>3, <1>4, <1>5, <3>1, <3>2
  <2> QED
    BY <2>1, <2>2
<1> QED
  BY <1>2, <1>6 DEF OutbidAfter

\* A bot with the tokens for a bid in every auction has a row only of auctions
\* that it leads, or will lead, or that an event still to be handled drops, as
\* long as its process did not end: it closes no auction for another
\* (bidInAuctions, processBids).  Without the tokens a bid that was sent may be
\* refused, and its row stays.
THEOREM RowIsJustifiedHolds == FundsSuffice => (Spec => []RowIsJustified)
<1>1. ASSUME RowInv
      PROVE  RowIsJustified
  <2> SUFFICES ASSUME ends = 0, NEW k \in activeAuctions, auctionIsOpen(auctions[k])
               PROVE  Leads(k) \/ Waiting("bid", k) \/ OutbidAfter(k, Reflected)
    BY DEF RowIsJustified
  <2>1. Leads(k) \/ Due(k) \/ Pending(k)
    BY <1>1 DEF RowInv, RowsBacked, Rows, Backed
  <2> QED
    BY <1>1, <2>1, PendingIsOutbid DEF Due, RowInv
<1>2. RowInv => RowIsJustified
  BY <1>1
<1>3. ASSUME FundsSuffice
      PROVE  Spec => []RowIsJustified
  <2>1. RowInv /\ [Next]_vars => RowInv'
    BY <1>3, RowStep
  <2> QED
    BY <1>2, <2>1, InitRows, PTL DEF Spec
<1> QED
  BY <1>3
=============================================================================
