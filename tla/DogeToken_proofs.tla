---------------------------- MODULE DogeToken_proofs ----------------------------
(***************************************************************************)
(* Theorems about DogeToken, for any accounts, operators, fees, values and *)
(* bids.  The invariant IInv says, besides the types and what the run      *)
(* checks, that every listed output comes from a relayed transaction, that *)
(* a bid has a bidder, and that the supply covers what is held of it.      *)
(*                                                                         *)
(* An action property is proved with the invariant: the lemma of an action *)
(* shows Kept, the invariant afterwards and the body of each property.     *)
(* Most actions change one operator, and MoveStep or QuietStep then turn   *)
(* what the operator, the balances and the supply gain into the sums.      *)
(***************************************************************************)
EXTENDS DogeToken, SumLemmas, SequenceTheorems, TLAPS

\* Every listed output belongs to a transaction that was relayed.
ListedAreProcessed ==
  \A k \in Operators : \A i \in DOMAIN operators[k].utxos :
    operators[k].utxos[i].txHash \in dogeTxHashesAlreadyProcessed

\* A bid has a bidder, and none is made before the auction is open.
BidsHaveBidders ==
  \A k \in Operators :
    LET auction == operators[k].auction
    IN  /\ auction.bestBidder = NoAccount => auction.bestBid = 0
        /\ auction.status = "Uninitialized" => auction.bestBid = 0

\* The inductive invariant.
IInv ==
  /\ TypeOK
  /\ AvailableIsUnspent
  /\ ListedAreProcessed
  /\ BidsHaveBidders
  /\ Held <= totalSupply

-----------------------------------------------------------------------------
(* Arithmetic of fees.                                                     *)

\* What a quotient by the fraction is: no more of them fit.
LEMMA Quotient ==
  ASSUME NEW n \in Nat
  PROVE  /\ n \div DOGETHEREUM_FEE_FRACTION \in Nat
         /\ (n \div DOGETHEREUM_FEE_FRACTION) * DOGETHEREUM_FEE_FRACTION <= n
<1>1. DOGETHEREUM_FEE_FRACTION \in Nat \ {0}
  BY FeesAssumption
<1> QED
  BY <1>1

\* Products with the fraction compare as their factors do.
LEMMA CancelFraction ==
  ASSUME NEW i \in Nat, NEW j \in Nat,
         i * DOGETHEREUM_FEE_FRACTION <= j * DOGETHEREUM_FEE_FRACTION
  PROVE  i <= j
<1>1. DOGETHEREUM_FEE_FRACTION \in Nat \ {0}
  BY FeesAssumption
<1> DEFINE f == DOGETHEREUM_FEE_FRACTION
<1>2. SUFFICES ASSUME i >= j + 1 PROVE FALSE
  OBVIOUS
<1>3. i * f >= (j + 1) * f
  BY <1>1, <1>2
<1>4. (j + 1) * f = j * f + f
  BY <1>1
<1>5. i * f \in Nat /\ j * f \in Nat
  BY <1>1
<1> HIDE DEF f
<1> QED
  BY <1>1, <1>3, <1>4, <1>5 DEF f

\* Two fees of a value, whose points make up no more than the whole, leave
\* something of the value or nothing.
LEMMA FeesFit ==
  ASSUME NEW v \in Nat, NEW p \in Nat, NEW q \in Nat,
         p + q <= DOGETHEREUM_FEE_FRACTION
  PROVE  /\ Fee(v, p) \in Nat /\ Fee(v, q) \in Nat
         /\ Fee(v, p) + Fee(v, q) <= v
<1> DEFINE f == DOGETHEREUM_FEE_FRACTION
<1>1. f \in Nat \ {0}
  BY FeesAssumption
<1>2. v * p \in Nat /\ v * q \in Nat
  OBVIOUS
<1>3. /\ Fee(v, p) \in Nat /\ Fee(v, p) * f <= v * p
      /\ Fee(v, q) \in Nat /\ Fee(v, q) * f <= v * q
  BY <1>2, Quotient DEF Fee
<1>4. v * p + v * q = v * (p + q) /\ v * (p + q) <= v * f
  BY <1>1
<1>5. (Fee(v, p) + Fee(v, q)) * f = Fee(v, p) * f + Fee(v, q) * f
  BY <1>1, <1>3
<1>6. (Fee(v, p) + Fee(v, q)) * f <= v * f
  BY <1>1, <1>2, <1>3, <1>4, <1>5
<1> HIDE DEF f
<1> QED
  BY <1>3, <1>6, CancelFraction DEF f

\* The fee of an unlock is no more than its value.
LEMMA FeeFits ==
  ASSUME NEW v \in Nat, NEW p \in Nat, p <= DOGETHEREUM_FEE_FRACTION
  PROVE  Fee(v, p) \in 0 .. v
<1>1. 0 \in Nat /\ p + 0 <= DOGETHEREUM_FEE_FRACTION
  BY FeesAssumption
<1>2. Fee(v, p) \in Nat /\ Fee(v, 0) \in Nat /\ Fee(v, p) + Fee(v, 0) <= v
  BY <1>1, FeesFit
<1> QED
  BY <1>2

-----------------------------------------------------------------------------
(* What outputs hold.                                                      *)

Outputs == Seq([value : Nat, txHash : TxHashes])

\* The value of some of an operator's outputs is a natural number.
LEMMA ValueType ==
  ASSUME NEW u \in Outputs, NEW S \in SUBSET (1 .. Len(u))
  PROVE  /\ IsFiniteSet(S)
         /\ \A i \in S : u[i].value \in Nat
         /\ Value(u, S) = SumFunctionOnSet([i \in S |-> u[i].value], S)
         /\ Value(u, S) \in Nat
<1>1. Len(u) \in Nat /\ \A i \in 1 .. Len(u) : u[i] \in [value : Nat, txHash : TxHashes]
  BY LenProperties, ElementOfSeq DEF Outputs
<1>2. IsFiniteSet(1 .. Len(u))
  BY <1>1, FS_Interval
<1>3. IsFiniteSet(S)
  BY <1>2, FS_Subset
<1>4. \A i \in S : u[i].value \in Nat
  BY <1>1
<1> DEFINE f == [i \in S |-> u[i].value]
<1>5. Value(u, S) = SumFunctionOnSet(f, S)
  BY DEF Value, SumFunction
<1>6. \A i \in S : f[i] \in Nat
  BY <1>4
<1> HIDE DEF f
<1>7. Value(u, S) \in Nat
  BY <1>3, <1>5, <1>6, SumNat
<1> QED
  BY <1>3, <1>4, <1>5, <1>7 DEF f

\* The outputs after a are those up to b and those after b.
LEMMA ValueSplit ==
  ASSUME NEW u \in Outputs, NEW a \in Nat, NEW b \in Nat, a <= b, b <= Len(u)
  PROVE  Value(u, a + 1 .. Len(u)) =
           Value(u, a + 1 .. b) + Value(u, b + 1 .. Len(u))
<1> DEFINE S == a + 1 .. Len(u)
<1> DEFINE T == a + 1 .. b
<1> DEFINE U == b + 1 .. Len(u)
<1> DEFINE f(R) == [i \in R |-> u[i].value]
<1>1. Len(u) \in Nat
  BY DEF Outputs
<1>2. /\ S \in SUBSET (1 .. Len(u)) /\ T \in SUBSET (1 .. Len(u))
      /\ U \in SUBSET (1 .. Len(u)) /\ T \in SUBSET S /\ U = S \ T
  BY <1>1
<1> HIDE DEF S, T, U
<1>3. /\ Value(u, S) = SumFunctionOnSet(f(S), S)
      /\ Value(u, T) = SumFunctionOnSet(f(T), T)
      /\ Value(u, U) = SumFunctionOnSet(f(U), U)
      /\ IsFiniteSet(S) /\ IsFiniteSet(T) /\ IsFiniteSet(U)
      /\ \A i \in S : f(S)[i] \in Int
  BY <1>2, ValueType
<1>4. \A i \in T : f(S)[i] = f(T)[i]
  BY <1>2
<1>5. \A i \in U : f(S)[i] = f(U)[i]
  BY <1>2
<1> HIDE DEF f
<1>6. SumFunctionOnSet(f(S), S) =
        SumFunctionOnSet(f(S), T) + SumFunctionOnSet(f(S), S \ T)
  BY <1>2, <1>3, SumSplit
<1>7. /\ SumFunctionOnSet(f(S), T) = SumFunctionOnSet(f(T), T)
      /\ SumFunctionOnSet(f(S), U) = SumFunctionOnSet(f(U), U)
  BY <1>3, <1>4, <1>5, SumEqual
<1> QED
  BY <1>2, <1>3, <1>6, <1>7 DEF S, T, U

\* One output more.
LEMMA ValueAppend ==
  ASSUME NEW u \in Outputs, NEW x \in [value : Nat, txHash : TxHashes],
         NEW a \in Nat, a <= Len(u)
  PROVE  /\ Append(u, x) \in Outputs
         /\ Len(Append(u, x)) = Len(u) + 1
         /\ Value(Append(u, x), a + 1 .. Len(u) + 1) =
              Value(u, a + 1 .. Len(u)) + x.value
<1> DEFINE n == Len(u)
<1> DEFINE w == Append(u, x)
<1> DEFINE S == a + 1 .. n
<1> DEFINE T == S \cup {n + 1}
<1>1. n \in Nat
  BY DEF Outputs
<1>2. /\ w \in Outputs /\ Len(w) = n + 1 /\ w[n + 1] = x
      /\ \A i \in 1 .. n : w[i] = u[i]
  BY DEF Outputs
<1>3. /\ T = a + 1 .. n + 1 /\ S \in SUBSET (1 .. n)
      /\ T \in SUBSET (1 .. n + 1) /\ n + 1 \notin S
  BY <1>1
<1> DEFINE f == [i \in S |-> u[i].value]
<1> DEFINE g == [i \in T |-> w[i].value]
<1> HIDE DEF S, w, n
<1>4. /\ Value(u, S) = SumFunctionOnSet(f, S) /\ IsFiniteSet(S)
  BY <1>3, ValueType DEF n
<1>5. /\ Value(w, T) = SumFunctionOnSet(g, T)
      /\ \A i \in T : g[i] \in Int
  <2>1. T \in SUBSET (1 .. Len(w))
    BY <1>2, <1>3
  <2> HIDE DEF T
  <2> QED
    BY <1>2, <2>1, ValueType
<1>6. g[n + 1] = x.value /\ \A i \in S : f[i] = g[i]
  BY <1>2, <1>3
<1> HIDE DEF f, g
<1>7. SumFunctionOnSet(g, T) = SumFunctionOnSet(g, S) + g[n + 1]
  <2> DEFINE m == n + 1
  <2>1. IsFiniteSet(S) /\ m \notin S /\ T = S \cup {m}
    BY <1>3, <1>4
  <2>2. \A i \in S \cup {m} : g[i] \in Int
    BY <1>5, <2>1
  <2> HIDE DEF m, T
  <2>3. SumFunctionOnSet(g, S \cup {m}) = SumFunctionOnSet(g, S) + g[m]
    BY <2>1, <2>2, SumAdd
  <2> QED
    BY <2>1, <2>3 DEF m
<1>8. SumFunctionOnSet(g, S) = SumFunctionOnSet(f, S)
  BY <1>4, <1>6, SumEqual
<1>9. Value(w, T) = Value(u, S) + x.value
  BY <1>4, <1>5, <1>6, <1>7, <1>8
<1> QED
  BY <1>2, <1>3, <1>9 DEF S, w, n

\* Nothing is held by no outputs.
LEMMA ValueNone == \A u : Value(u, {}) = 0
BY SumEmpty DEF Value, SumFunction

-----------------------------------------------------------------------------
(* What a transaction that changes one operator does to the sums.          *)

\* What the auction of an operator holds.
BidOf(operator) ==
  IF auctionIsOpen(operator.auction) THEN operator.auction.bestBid ELSE 0
DogesOf(operator) == operator.dogeAvailableBalance + operator.dogePendingBalance

\* The fields of an operator.
LEMMA OperatorType ==
  ASSUME NEW r \in Operator
  PROVE  /\ r.ethAddress \in Accounts \cup {NoAccount}
         /\ r.dogeAvailableBalance \in Nat /\ r.dogePendingBalance \in Nat
         /\ r.utxos \in Outputs /\ Len(r.utxos) \in Nat
         /\ DOMAIN r.utxos = 1 .. Len(r.utxos)
         /\ \A i \in DOMAIN r.utxos : /\ r.utxos[i].value \in Nat
                                      /\ r.utxos[i].txHash \in TxHashes
         /\ r.nextUnspentUtxoIndex \in Nat /\ r.ethBalance \in Nat
         /\ r.operatorKeyIndex \in Nat /\ r.auction \in Auction
         /\ BidOf(r) \in Nat /\ DogesOf(r) \in Nat
<1>1. /\ r.ethAddress \in Accounts \cup {NoAccount}
      /\ r.dogeAvailableBalance \in Nat /\ r.dogePendingBalance \in Nat
      /\ r.utxos \in Outputs
      /\ r.nextUnspentUtxoIndex \in Nat /\ r.ethBalance \in Nat
      /\ r.operatorKeyIndex \in Nat /\ r.auction \in Auction
  BY DEF Operator, Outputs
<1>2. Len(r.utxos) \in Nat /\ DOMAIN r.utxos = 1 .. Len(r.utxos)
  BY <1>1, LenProperties DEF Outputs
<1>3. \A i \in DOMAIN r.utxos : r.utxos[i] \in [value : Nat, txHash : TxHashes]
  BY <1>1, <1>2, ElementOfSeq DEF Outputs
<1>4. BidOf(r) \in Nat
  BY <1>1 DEF BidOf, Auction
<1> QED
  BY <1>1, <1>2, <1>3, <1>4 DEF DogesOf

\* One operator changes, the others keep their records.
LEMMA UpdateOperator ==
  ASSUME TypeOK, NEW k \in Operators, NEW op \in Operator,
         operators' = [operators EXCEPT ![k] = op]
  PROVE  /\ operators' \in [Operators -> Operator]
         /\ operators'[k] = op
         /\ \A l \in Operators : l # k => operators'[l] = operators[l]
BY DEF TypeOK

\* The sums over operators move by what the changed operator gains.
LEMMA OperatorSums ==
  ASSUME TypeOK, NEW k \in Operators, NEW op \in Operator,
         operators' = [operators EXCEPT ![k] = op]
  PROVE  /\ Backing \in Nat /\ HeldBids \in Nat
         /\ Backing' = Backing + (DogesOf(op) - Doges(k))
         /\ HeldBids' = HeldBids + (BidOf(op) - HeldBid(k))
<1>1. /\ operators' \in [Operators -> Operator] /\ operators'[k] = op
      /\ \A l \in Operators : l # k => operators'[l] = operators[l]
  BY UpdateOperator
<1>2. \A l \in Operators : operators[l] \in Operator /\ operators'[l] \in Operator
  BY <1>1 DEF TypeOK
<1> DEFINE f == [l \in Operators |-> DogesOf(operators[l])]
<1> DEFINE g == [l \in Operators |-> DogesOf(operators'[l])]
<1> DEFINE b == [l \in Operators |-> BidOf(operators[l])]
<1> DEFINE c == [l \in Operators |-> BidOf(operators'[l])]
<1>3. /\ Backing = SumFunctionOnSet(f, Operators)
      /\ Backing' = SumFunctionOnSet(g, Operators)
  BY DEF Backing, SumFunction, Doges, DogesOf
<1>4. /\ HeldBids = SumFunctionOnSet(b, Operators)
      /\ HeldBids' = SumFunctionOnSet(c, Operators)
  BY DEF HeldBids, SumFunction, HeldBid, BidOf
<1>5. \A l \in Operators : /\ f[l] \in Nat /\ g[l] \in Nat
                           /\ b[l] \in Nat /\ c[l] \in Nat
  BY <1>2, OperatorType
<1>6. \A l \in Operators \ {k} : g[l] = f[l] /\ c[l] = b[l]
  BY <1>1
<1>7. /\ f[k] = Doges(k) /\ g[k] = DogesOf(op)
      /\ b[k] = HeldBid(k) /\ c[k] = BidOf(op)
  BY <1>1 DEF Doges, DogesOf, HeldBid, BidOf
<1> HIDE DEF f, g, b, c
<1>8. IsFiniteSet(Operators)
  BY FiniteAssumption
<1>9. /\ SumFunctionOnSet(f, Operators) \in Nat
      /\ SumFunctionOnSet(b, Operators) \in Nat
  BY <1>5, <1>8, SumNat
<1>10. SumFunctionOnSet(g, Operators) =
         SumFunctionOnSet(f, Operators) + (g[k] - f[k])
  <2>1. \A l \in Operators : f[l] \in Int /\ g[l] \in Int
    BY <1>5
  <2>2. \A l \in Operators \ {k} : g[l] = f[l]
    BY <1>6
  <2> QED
    BY <1>8, <2>1, <2>2, SumUpdate
<1>11. SumFunctionOnSet(c, Operators) =
         SumFunctionOnSet(b, Operators) + (c[k] - b[k])
  <2>1. \A l \in Operators : b[l] \in Int /\ c[l] \in Int
    BY <1>5
  <2>2. \A l \in Operators \ {k} : c[l] = b[l]
    BY <1>6
  <2> QED
    BY <1>8, <2>1, <2>2, SumUpdate
<1> QED
  BY <1>3, <1>4, <1>7, <1>9, <1>10, <1>11

\* No bid is more than what all auctions hold.
LEMMA BidIsHeld ==
  ASSUME TypeOK, NEW k \in Operators
  PROVE  HeldBid(k) \in Nat /\ HeldBid(k) <= HeldBids /\ HeldBids \in Nat
<1> DEFINE b == [l \in Operators |-> BidOf(operators[l])]
<1>1. HeldBids = SumFunctionOnSet(b, Operators) /\ b[k] = HeldBid(k)
  BY DEF HeldBids, SumFunction, HeldBid, BidOf
<1>2. \A l \in Operators : b[l] \in Nat
  BY OperatorType DEF TypeOK
<1> HIDE DEF b
<1>3. IsFiniteSet(Operators)
  BY FiniteAssumption
<1> QED
  BY <1>1, <1>2, <1>3, SumBounds, SumNat

\* The balances add up to a natural number, no less than any of them.
LEMMA BalancesSum ==
  ASSUME balances \in [Accounts -> Nat]
  PROVE  /\ SumFunction(balances) = SumFunctionOnSet(balances, Accounts)
         /\ SumFunction(balances) \in Nat
         /\ \A a \in Accounts : balances[a] <= SumFunction(balances)
<1>1. IsFiniteSet(Accounts) /\ DOMAIN balances = Accounts
  BY FiniteAssumption
<1>2. SumFunction(balances) = SumFunctionOnSet(balances, Accounts)
  BY <1>1 DEF SumFunction
<1> QED
  BY <1>1, <1>2, SumNat, SumBounds

\* One balance changes.
LEMMA BalanceUpdate ==
  ASSUME NEW b, b \in [Accounts -> Int], NEW a \in Accounts, NEW x \in Int
  PROVE  LET c == [b EXCEPT ![a] = x]
         IN  /\ c \in [Accounts -> Int] /\ c[a] = x
             /\ \A z \in Accounts : z # a => c[z] = b[z]
             /\ SumFunction(b) \in Int
             /\ SumFunction(c) = SumFunction(b) + (x - b[a])
<1> DEFINE c == [b EXCEPT ![a] = x]
<1>1. /\ c \in [Accounts -> Int] /\ c[a] = x
      /\ \A z \in Accounts : z # a => c[z] = b[z]
  OBVIOUS
<1>2. IsFiniteSet(Accounts) /\ DOMAIN b = Accounts /\ DOMAIN c = Accounts
  BY <1>1, FiniteAssumption
<1> HIDE DEF c
<1>3. /\ SumFunction(b) = SumFunctionOnSet(b, Accounts)
      /\ SumFunction(c) = SumFunctionOnSet(c, Accounts)
  BY <1>2 DEF SumFunction
<1>4. SumFunctionOnSet(b, Accounts) \in Int
  BY <1>2, SumInt
<1>5. SumFunctionOnSet(c, Accounts) = SumFunctionOnSet(b, Accounts) + (c[a] - b[a])
  BY <1>1, <1>2, SumUpdate
<1> QED
  BY <1>1, <1>3, <1>4, <1>5 DEF c

-----------------------------------------------------------------------------
(* What is conserved by a step: the bodies of the action properties.       *)

\* Of SupplyConserved, DogesBackTokens, PendingIsAwaited and UnlocksAreFunded.
SupplyKept ==
  (\A k \in Operators : HeldBid(k) > 0 => operators'[k].ethAddress # NoAccount)
    => totalSupply' - Held' = totalSupply - Held

BackingKept ==
  Backing' - totalSupply' =
    Backing - totalSupply + SumFunction([k \in Closing |-> HeldBid(k)])

PendingKept ==
  ~Misrelayed =>
    \A k \in Operators :
      operators'[k].dogePendingBalance - AwaitedChange(k)' =
        operators[k].dogePendingBalance - AwaitedChange(k)

FundedKept ==
  \A i \in DOMAIN unlocks' \ DOMAIN unlocks :
    LET unlock == unlocks'[i]
        utxos == operators'[unlock.operatorPublicKeyHash].utxos
        outputs == IF unlock.operatorChange > 0 THEN 2 ELSE 1
    IN  /\ unlock.valueToUser > 0
        /\ Value(utxos, unlock.selectedUtxos) >=
             unlock.valueToUser + unlock.operatorChange
               + TxFee(Cardinality(unlock.selectedUtxos), outputs)

Kept == IInv' /\ SupplyKept /\ BackingKept /\ PendingKept /\ FundedKept

\* The sum over the closed auctions is 0 when a step closes none.
LEMMA ClosingNone ==
  ASSUME \A k \in Operators : HeldBid(k) > 0 => operators'[k].auction.status # "Closed"
  PROVE  SumFunction([k \in Closing |-> HeldBid(k)]) = 0
<1>1. Closing = {}
  BY DEF Closing
<1>2. SumFunction([k \in Closing |-> HeldBid(k)]) =
        SumFunctionOnSet([k \in {} |-> HeldBid(k)], {})
  BY <1>1 DEF SumFunction
<1> QED
  BY <1>2, SumEmpty

\* It is the bid of the auction that it closes when it closes one.
LEMMA ClosingOne ==
  ASSUME TypeOK, NEW k \in Operators, operators'[k].auction.status = "Closed",
         \A l \in Operators \ {k} :
           HeldBid(l) > 0 => operators'[l].auction.status # "Closed"
  PROVE  SumFunction([l \in Closing |-> HeldBid(l)]) = HeldBid(k)
<1>1. HeldBid(k) \in Nat
  BY BidIsHeld
<1>2. CASE HeldBid(k) = 0
  <2>1. \A l \in Operators : HeldBid(l) > 0 => operators'[l].auction.status # "Closed"
    BY <1>2
  <2> QED
    BY <1>2, <2>1, ClosingNone
<1>3. CASE HeldBid(k) > 0
  <2>1. Closing = {k}
    BY <1>3 DEF Closing
  <2> DEFINE f == [l \in {k} |-> HeldBid(l)]
  <2>2. SumFunction([l \in Closing |-> HeldBid(l)]) = SumFunctionOnSet(f, {k})
    BY <2>1 DEF SumFunction
  <2>3. f[k] = HeldBid(k) /\ \A l \in {k} : f[l] \in Int
    BY <1>1
  <2> HIDE DEF f
  <2>4. IsFiniteSet({k}) /\ {k} \ {k} = {}
    BY FS_Singleton
  <2>5. SumFunctionOnSet(f, {k}) = f[k] + SumFunctionOnSet(f, {k} \ {k})
    BY <2>3, <2>4, SumRemove
  <2>6. SumFunctionOnSet(f, {k} \ {k}) = 0
    BY <2>4, SumEmpty
  <2> QED
    BY <1>1, <2>2, <2>3, <2>5, <2>6
<1> QED
  BY <1>1, <1>2, <1>3

-----------------------------------------------------------------------------
(* The changes that operators await.                                       *)

AwaitedIn(q, k) ==
  {i \in DOMAIN q : q[i].operatorPublicKeyHash = k /\ ~q[i].completed}
ChangeIn(q, k) == SumFunction([i \in AwaitedIn(q, k) |-> q[i].operatorChange])

\* The changes awaited in the unlocks as they are, and as a step leaves them.
LEMMA AwaitedChangeIn ==
  ASSUME NEW k
  PROVE  /\ AwaitedChange(k) = ChangeIn(unlocks, k)
         /\ AwaitedChange(k)' = ChangeIn(unlocks', k)
BY DEF AwaitedChange, ChangeIn, AwaitedIn

\* The elements of a sequence of unlocks.
LEMMA UnlockType ==
  ASSUME NEW q \in Seq(Unlock)
  PROVE  /\ Len(q) \in Nat /\ DOMAIN q = 1 .. Len(q)
         /\ IsFiniteSet(DOMAIN q)
         /\ \A i \in DOMAIN q : /\ q[i] \in Unlock
                                /\ q[i].operatorChange \in Nat
                                /\ q[i].completed \in BOOLEAN
<1>1. Len(q) \in Nat /\ DOMAIN q = 1 .. Len(q)
  BY LenProperties
<1>2. \A i \in DOMAIN q : q[i] \in Unlock
  BY <1>1, ElementOfSeq
<1>3. IsFiniteSet(DOMAIN q)
  BY <1>1, FS_Interval
<1> QED
  BY <1>1, <1>2, <1>3 DEF Unlock

\* The awaited changes are a sum over a finite set.
LEMMA AwaitedSum ==
  ASSUME NEW q \in Seq(Unlock), NEW k
  PROVE  /\ IsFiniteSet(AwaitedIn(q, k))
         /\ \A i \in AwaitedIn(q, k) : q[i].operatorChange \in Nat
         /\ ChangeIn(q, k) =
              SumFunctionOnSet([i \in AwaitedIn(q, k) |-> q[i].operatorChange],
                               AwaitedIn(q, k))
         /\ ChangeIn(q, k) \in Nat
<1> DEFINE A == AwaitedIn(q, k)
<1> DEFINE f == [i \in A |-> q[i].operatorChange]
<1>1. A \in SUBSET DOMAIN q
  BY DEF AwaitedIn
<1>2. IsFiniteSet(A)
  BY <1>1, UnlockType, FS_Subset
<1>3. ChangeIn(q, k) = SumFunctionOnSet(f, A)
  BY DEF ChangeIn, SumFunction
<1>4. \A i \in A : q[i].operatorChange \in Nat
  BY <1>1, UnlockType
<1>5. \A i \in A : f[i] \in Nat
  BY <1>4
<1> HIDE DEF A, f
<1>6. SumFunctionOnSet(f, A) \in Nat
  BY <1>2, <1>5, SumNat
<1> QED
  BY <1>2, <1>3, <1>4, <1>6 DEF A, f

\* A new unlock adds its change to those its operator awaits.
LEMMA AwaitedAppend ==
  ASSUME NEW q \in Seq(Unlock), NEW u \in Unlock, ~u.completed, NEW k
  PROVE  /\ Append(q, u) \in Seq(Unlock)
         /\ ChangeIn(Append(q, u), k) =
              ChangeIn(q, k) + (IF u.operatorPublicKeyHash = k
                                  THEN u.operatorChange ELSE 0)
<1> DEFINE r == Append(q, u)
<1> DEFINE n == Len(q) + 1
<1> DEFINE A == AwaitedIn(q, k)
<1> DEFINE B == AwaitedIn(r, k)
<1> DEFINE f == [i \in A |-> q[i].operatorChange]
<1> DEFINE g == [i \in B |-> r[i].operatorChange]
<1>1. /\ r \in Seq(Unlock) /\ DOMAIN q = 1 .. n - 1
      /\ DOMAIN r = 1 .. n /\ n \in Nat \ {0}
      /\ r[n] = u /\ \A i \in 1 .. n - 1 : r[i] = q[i]
  BY AppendProperties, LenProperties
<1> HIDE DEF r, n
<1>2. /\ IsFiniteSet(A) /\ ChangeIn(q, k) = SumFunctionOnSet(f, A)
      /\ \A i \in A : f[i] \in Int
      /\ ChangeIn(q, k) \in Nat
  BY SMTT(30), AwaitedSum
<1>3. /\ IsFiniteSet(B) /\ ChangeIn(r, k) = SumFunctionOnSet(g, B)
      /\ \A i \in B : g[i] \in Int
  <2>1. r \in Seq(Unlock)
    BY <1>1
  <2>2. /\ IsFiniteSet(AwaitedIn(r, k))
        /\ \A i \in AwaitedIn(r, k) : r[i].operatorChange \in Nat
        /\ ChangeIn(r, k) =
             SumFunctionOnSet([i \in AwaitedIn(r, k) |-> r[i].operatorChange],
                              AwaitedIn(r, k))
    BY <2>1, AwaitedSum
  <2> QED
    BY <2>2
<1>4. /\ B = IF u.operatorPublicKeyHash = k THEN A \cup {n} ELSE A
      /\ n \notin A
  BY <1>1 DEF AwaitedIn
<1>5. (\A i \in A : g[i] = f[i]) /\ (n \in B => g[n] = u.operatorChange)
  BY <1>1, <1>4 DEF AwaitedIn
<1> HIDE DEF A, B, f, g
<1>6. SumFunctionOnSet(g, A) = SumFunctionOnSet(f, A)
  BY <1>2, <1>5, SumEqual
<1>7. CASE u.operatorPublicKeyHash = k
  <2>1. B = A \cup {n} /\ g[n] = u.operatorChange
    BY <1>4, <1>5, <1>7
  <2>2. \A i \in A \cup {n} : g[i] \in Int
    BY <1>3, <2>1
  <2>3. SumFunctionOnSet(g, A \cup {n}) = SumFunctionOnSet(g, A) + g[n]
    BY <1>2, <1>4, <2>2, SumAdd
  <2> QED
    BY <1>1, <1>2, <1>3, <1>6, <1>7, <2>1, <2>3 DEF r
<1>8. CASE u.operatorPublicKeyHash # k
  BY <1>1, <1>2, <1>3, <1>4, <1>6, <1>8 DEF r
<1> QED
  BY <1>7, <1>8

\* The completion of an unlock takes its change from those awaited.
LEMMA AwaitedComplete ==
  ASSUME NEW q \in Seq(Unlock), NEW n \in DOMAIN q, NEW k
  PROVE  LET r == [q EXCEPT ![n].completed = TRUE]
         IN  /\ r \in Seq(Unlock) /\ DOMAIN r = DOMAIN q
             /\ ChangeIn(r, k) =
                  ChangeIn(q, k) - (IF n \in AwaitedIn(q, k)
                                      THEN q[n].operatorChange ELSE 0)
<1> DEFINE u == [q[n] EXCEPT !.completed = TRUE]
<1> DEFINE r == [q EXCEPT ![n] = u]
<1> DEFINE A == AwaitedIn(q, k)
<1> DEFINE B == AwaitedIn(r, k)
<1> DEFINE f == [i \in A |-> q[i].operatorChange]
<1> DEFINE g == [i \in B |-> r[i].operatorChange]
<1>1. [q EXCEPT ![n].completed = TRUE] = r
  OBVIOUS
<1>2. /\ u \in Unlock /\ u.completed
      /\ u.operatorPublicKeyHash = q[n].operatorPublicKeyHash
      /\ u.operatorChange = q[n].operatorChange
  <2>1. q[n] \in Unlock
    BY UnlockType
  <2> QED
    BY <2>1 DEF Unlock
<1> HIDE DEF u
<1>3. /\ r \in Seq(Unlock) /\ DOMAIN r = DOMAIN q
      /\ r[n] = u
      /\ \A i \in DOMAIN q : i # n => r[i] = q[i]
  <2>1. n \in 1 .. Len(q) /\ DOMAIN q = 1 .. Len(q)
    BY UnlockType
  <2> QED
    BY <1>2, <2>1, ExceptSeq
<1> HIDE DEF r
<1>4. /\ IsFiniteSet(A) /\ ChangeIn(q, k) = SumFunctionOnSet(f, A)
      /\ \A i \in A : f[i] \in Int
      /\ ChangeIn(q, k) \in Nat
  BY AwaitedSum
<1>5. /\ IsFiniteSet(B) /\ ChangeIn(r, k) = SumFunctionOnSet(g, B)
      /\ \A i \in B : g[i] \in Int
  BY SMTT(30), <1>3, AwaitedSum
<1>6. B = A \ {n}
  BY <1>2, <1>3 DEF AwaitedIn
<1>7. \A i \in B : g[i] = f[i]
  BY <1>3, <1>6 DEF AwaitedIn
<1>8. n \in A => f[n] = q[n].operatorChange
  OBVIOUS
<1> HIDE DEF A, B, f, g
<1>9. SumFunctionOnSet(g, B) = SumFunctionOnSet(f, B)
  BY <1>5, <1>7, SumEqual
<1>10. CASE n \in A
  <2>1. SumFunctionOnSet(f, A) = f[n] + SumFunctionOnSet(f, A \ {n})
    <3>1. IsFiniteSet(A) /\ \A i \in A : f[i] \in Int
      BY <1>4
    <3> QED
      BY <1>10, <3>1, SumRemove
  <2>2. SumFunctionOnSet(f, A \ {n}) \in Int /\ f[n] \in Int
    <3>1. IsFiniteSet(A \ {n}) /\ \A i \in A : f[i] \in Int
      BY <1>4, <1>5, <1>6
    <3> QED
      BY <1>10, <3>1, SumInt
  <2>3. ChangeIn(r, k) = ChangeIn(q, k) - f[n]
    BY <1>4, <1>5, <1>6, <1>9, <2>1, <2>2
  <2> QED
    BY <1>1, <1>3, <1>8, <1>10, <2>3 DEF A
<1>11. CASE n \notin A
  <2>1. B = A
    BY <1>6, <1>11
  <2>2. ChangeIn(r, k) = ChangeIn(q, k) /\ ChangeIn(q, k) - 0 = ChangeIn(q, k)
    BY <1>4, <1>5, <1>9, <2>1
  <2>3. n \notin AwaitedIn(q, k)
    BY <1>11 DEF A
  <2> QED
    BY <1>1, <1>3, <2>2, <2>3
<1> QED
  BY <1>10, <1>11

-----------------------------------------------------------------------------
(* What keeps the invariant: a step changes one operator, or none.         *)

\* The conjuncts of the invariant about one operator.
Sound(op) ==
  /\ op \in Operator
  /\ op.nextUnspentUtxoIndex <= Len(op.utxos)
  /\ op.dogeAvailableBalance =
       Value(op.utxos, op.nextUnspentUtxoIndex + 1 .. Len(op.utxos))
  /\ op.auction.bestBidder = NoAccount => op.auction.bestBid = 0
  /\ op.auction.status = "Uninitialized" => op.auction.bestBid = 0

\* Outputs that operator k may have after a step: its own, those of transactions
\* that had not been processed, each once, and all processed now.
Fresh(k, utxos) ==
  /\ \A i, j \in DOMAIN utxos : utxos[i].txHash = utxos[j].txHash => i = j
  /\ \A i \in DOMAIN utxos :
       /\ utxos[i].txHash \in dogeTxHashesAlreadyProcessed'
       /\ \/ utxos[i].txHash \notin dogeTxHashesAlreadyProcessed
          \/ \E j \in DOMAIN operators[k].utxos :
               operators[k].utxos[j].txHash = utxos[i].txHash

\* The types of the variables other than operators.
OthersTyped ==
  /\ operatorKeys \in Seq([key : Operators, deleted : BOOLEAN])
  /\ unlocks \in Seq(Unlock)
  /\ dogeTxHashesAlreadyProcessed \subseteq TxHashes
  /\ balances \in [Accounts -> Nat]
  /\ totalSupply \in Nat
  /\ spent \subseteq TxHashes
  /\ price \in Prices /\ chainHeight \in Heights /\ now \in Nat

\* Under the invariant every operator is sound.
LEMMA AllSound ==
  ASSUME IInv, NEW k \in Operators
  PROVE  Sound(operators[k])
BY DEF IInv, TypeOK, AvailableIsUnspent, BidsHaveBidders, Sound

\* A step that changes one operator keeps the invariant.
LEMMA OneOperator ==
  ASSUME IInv, OthersTyped', NEW k \in Operators, NEW op,
         operators' = [operators EXCEPT ![k] = op],
         Sound(op), Fresh(k, op.utxos),
         dogeTxHashesAlreadyProcessed \subseteq dogeTxHashesAlreadyProcessed',
         Held' <= totalSupply'
  PROVE  IInv'
<1>1. /\ operators' \in [Operators -> Operator] /\ operators'[k] = op
      /\ \A l \in Operators : l # k => operators'[l] = operators[l]
  BY DEF Sound, IInv, TypeOK
<1>2. TypeOK'
  BY <1>1 DEF OthersTyped, TypeOK
<1>3. \A l \in Operators : Sound(operators'[l])
  BY <1>1, AllSound
<1>4. ListedAreProcessed'
  BY <1>1 DEF ListedAreProcessed, IInv, Fresh
<1>5. UtxosDistinct'
  <2> SUFFICES ASSUME NEW l \in Operators, NEW m \in Operators,
                      NEW i \in DOMAIN operators'[l].utxos,
                      NEW j \in DOMAIN operators'[m].utxos,
                      operators'[l].utxos[i].txHash = operators'[m].utxos[j].txHash
               PROVE  l = m /\ i = j
    BY DEF UtxosDistinct
  <2>1. CASE l = k /\ m = k
    BY <1>1, <2>1 DEF Fresh
  <2>2. CASE l # k /\ m # k
    BY <1>1, <2>2 DEF IInv, AvailableIsUnspent, UtxosDistinct
  <2>3. CASE l = k /\ m # k
    BY <1>1, <2>3 DEF IInv, AvailableIsUnspent, UtxosDistinct, ListedAreProcessed,
                      Fresh
  <2>4. CASE l # k /\ m = k
    BY <1>1, <2>4 DEF IInv, AvailableIsUnspent, UtxosDistinct, ListedAreProcessed,
                      Fresh
  <2> QED
    BY <2>1, <2>2, <2>3, <2>4
<1>6. AvailableIsUnspent'
  BY <1>3, <1>5 DEF AvailableIsUnspent, Sound, Value
<1>7. BidsHaveBidders'
  BY <1>3 DEF BidsHaveBidders, Sound
<1> QED
  BY <1>2, <1>4, <1>6, <1>7 DEF IInv

\* So does one that leaves the operators alone.
LEMMA NoOperatorChanges ==
  ASSUME IInv, OthersTyped', UNCHANGED operators,
         dogeTxHashesAlreadyProcessed \subseteq dogeTxHashesAlreadyProcessed',
         Held' <= totalSupply'
  PROVE  IInv'
<1>1. TypeOK'
  BY DEF OthersTyped, TypeOK, IInv
<1>2. ListedAreProcessed' /\ BidsHaveBidders'
  BY DEF ListedAreProcessed, BidsHaveBidders, IInv
<1>3. AvailableIsUnspent'
  BY DEF AvailableIsUnspent, UtxosDistinct, Value, IInv
<1> QED
  BY <1>1, <1>2, <1>3 DEF IInv

\* The outputs that an operator has.
LEMMA SameOutputs ==
  ASSUME IInv, NEW k \in Operators,
         dogeTxHashesAlreadyProcessed \subseteq dogeTxHashesAlreadyProcessed'
  PROVE  Fresh(k, operators[k].utxos)
BY DEF IInv, AvailableIsUnspent, UtxosDistinct, ListedAreProcessed, Fresh

\* One more output, of a transaction processed now.
LEMMA NewOutput ==
  ASSUME IInv, NEW k \in Operators, NEW h \in TxHashes, NEW v \in Nat,
         transactionPreliminaryChecks(h)
  PROVE  Fresh(k, Append(operators[k].utxos, [value |-> v, txHash |-> h]))
<1> DEFINE u == operators[k].utxos
<1> DEFINE x == [value |-> v, txHash |-> h]
<1> DEFINE w == Append(u, x)
<1>1. u \in Outputs /\ x \in [value : Nat, txHash : TxHashes] /\ x.txHash = h
  BY OperatorType DEF IInv, TypeOK
<1>2. Fresh(k, u)
  BY SameOutputs DEF transactionPreliminaryChecks
<1>3. \A i \in DOMAIN u : u[i].txHash \in dogeTxHashesAlreadyProcessed
  BY DEF IInv, ListedAreProcessed
<1> HIDE DEF u, x
<1>4. /\ Len(u) \in Nat /\ DOMAIN u = 1 .. Len(u)
      /\ DOMAIN w = 1 .. Len(u) + 1 /\ w[Len(u) + 1] = x
      /\ \A i \in 1 .. Len(u) : w[i] = u[i]
  BY <1>1, AppendProperties, LenProperties DEF Outputs
<1> HIDE DEF w
<1>5. \A i \in DOMAIN w : i \in DOMAIN u \/ i = Len(u) + 1
  BY <1>4
<1>6. \A i, j \in DOMAIN w : w[i].txHash = w[j].txHash => i = j
  BY <1>1, <1>2, <1>3, <1>4, <1>5 DEF Fresh, transactionPreliminaryChecks
<1>7. \A i \in DOMAIN w :
        /\ w[i].txHash \in dogeTxHashesAlreadyProcessed'
        /\ \/ w[i].txHash \notin dogeTxHashesAlreadyProcessed
           \/ \E j \in DOMAIN operators[k].utxos :
                operators[k].utxos[j].txHash = w[i].txHash
  BY <1>1, <1>2, <1>4, <1>5 DEF Fresh, transactionPreliminaryChecks, u
<1>8. Fresh(k, w)
  BY <1>6, <1>7 DEF Fresh
<1> QED
  BY <1>8 DEF w, u, x

-----------------------------------------------------------------------------
(* Steps that move no tokens.                                              *)

\* Unlocks and pending balances as they were.
LEMMA SameUnlocks ==
  ASSUME UNCHANGED unlocks,
         \A l \in Operators :
           operators'[l].dogePendingBalance = operators[l].dogePendingBalance
  PROVE  PendingKept /\ FundedKept
<1>1. \A l \in Operators : AwaitedChange(l)' = AwaitedChange(l)
  BY AwaitedChangeIn
<1>2. PendingKept
  BY <1>1 DEF PendingKept
<1>3. DOMAIN unlocks' \ DOMAIN unlocks = {}
  OBVIOUS
<1> QED
  BY <1>2, <1>3 DEF FundedKept

\* One operator changes, with its dogecoins and its bid, if it is not deleted,
\* as they were.
LEMMA QuietStep ==
  ASSUME IInv, NEW k \in Operators, NEW op,
         operators' = [operators EXCEPT ![k] = op],
         Sound(op), op.utxos = operators[k].utxos \/ op.utxos = <<>>,
         DogesOf(op) = Doges(k),
         op.dogePendingBalance = operators[k].dogePendingBalance,
         op.auction.status # "Closed" \/ HeldBid(k) = 0,
         BidOf(op) = HeldBid(k) \/ (BidOf(op) = 0 /\ op.ethAddress = NoAccount),
         UNCHANGED <<unlocks, tokenVars>>,
         OthersTyped',
         dogeTxHashesAlreadyProcessed \subseteq dogeTxHashesAlreadyProcessed'
  PROVE  Kept
<1>1. op \in Operator /\ TypeOK
  BY DEF Sound, IInv
<1>2. /\ operators'[k] = op
      /\ \A l \in Operators : l # k => operators'[l] = operators[l]
  BY <1>1, UpdateOperator
<1>3. /\ Backing \in Nat /\ Backing' = Backing + (DogesOf(op) - Doges(k))
      /\ HeldBids \in Nat /\ HeldBids' = HeldBids + (BidOf(op) - HeldBid(k))
  BY <1>1, OperatorSums
<1>4. DogesOf(op) \in Nat /\ Doges(k) \in Nat
      /\ BidOf(op) \in Nat /\ HeldBid(k) \in Nat
  BY <1>1, OperatorType, BidIsHeld
<1>5. /\ balances' = balances /\ totalSupply' = totalSupply
      /\ totalSupply \in Nat /\ SumFunction(balances) \in Nat
  BY BalancesSum DEF tokenVars, IInv, TypeOK
<1>6. Backing' = Backing
  BY <1>3, <1>4
<1>7. /\ HeldBids' <= HeldBids /\ HeldBids' \in Int
      /\ BidOf(op) = HeldBid(k) => HeldBids' = HeldBids
  BY <1>3, <1>4
<1>8. Held <= totalSupply /\ Held = SumFunction(balances) + HeldBids
      /\ Held' = SumFunction(balances) + HeldBids'
  BY <1>5 DEF IInv, Held
<1>9. Held' <= totalSupply'
  BY <1>3, <1>5, <1>7, <1>8
<1>10. Fresh(k, op.utxos)
  BY SameOutputs DEF Fresh
<1>11. IInv'
  BY <1>9, <1>10, OneOperator
<1>12. SupplyKept
  BY <1>2, <1>4, <1>5, <1>7, <1>8 DEF SupplyKept
<1>13. BackingKept
  <2>1. \A l \in Operators : HeldBid(l) > 0 => operators'[l].auction.status # "Closed"
    BY <1>2 DEF HeldBid, auctionIsOpen
  <2> QED
    BY <1>3, <1>5, <1>6, <2>1, ClosingNone DEF BackingKept
<1>14. PendingKept /\ FundedKept
  BY <1>2, SameUnlocks
<1> QED
  BY <1>11, <1>12, <1>13, <1>14 DEF Kept

\* An operator changes in its address, its ether or its key alone.
LEMMA OtherFields ==
  ASSUME IInv, NEW k \in Operators, NEW op \in Operator,
         operators' = [operators EXCEPT ![k] = op],
         op.dogeAvailableBalance = operators[k].dogeAvailableBalance,
         op.dogePendingBalance = operators[k].dogePendingBalance,
         op.utxos = operators[k].utxos,
         op.nextUnspentUtxoIndex = operators[k].nextUnspentUtxoIndex,
         op.auction = operators[k].auction,
         UNCHANGED <<unlocks, tokenVars>>,
         OthersTyped',
         dogeTxHashesAlreadyProcessed \subseteq dogeTxHashesAlreadyProcessed'
  PROVE  Kept
<1>1. Sound(operators[k])
  BY AllSound
<1>2. Sound(op)
  BY <1>1 DEF Sound
<1>3. DogesOf(op) = Doges(k) /\ BidOf(op) = HeldBid(k)
  BY DEF DogesOf, Doges, BidOf, HeldBid
<1>4. op.auction.status # "Closed" \/ HeldBid(k) = 0
  BY DEF HeldBid, auctionIsOpen
<1>5. op.utxos = operators[k].utxos \/ op.utxos = <<>>
  OBVIOUS
<1>6. BidOf(op) = HeldBid(k) \/ (BidOf(op) = 0 /\ op.ethAddress = NoAccount)
  BY <1>3
<1> QED
  BY <1>2, <1>3, <1>4, <1>5, <1>6, QuietStep

\* A key is added.
LEMMA AddOperatorStep ==
  ASSUME IInv, NEW a \in Accounts, NEW k \in Operators, AddOperator(a, k)
  PROVE  Kept
<1> DEFINE op == [operators[k] EXCEPT !.ethAddress = a,
                                      !.operatorKeyIndex = Len(operatorKeys)]
<1>1. operators' = [operators EXCEPT ![k] = op]
  BY DEF AddOperator
<1>2. operatorKeys' \in Seq([key : Operators, deleted : BOOLEAN])
      /\ Len(operatorKeys) \in Nat
  <2>1. /\ operatorKeys \in Seq([key : Operators, deleted : BOOLEAN])
        /\ [key |-> k, deleted |-> FALSE] \in [key : Operators, deleted : BOOLEAN]
    BY DEF IInv, TypeOK
  <2> QED
    BY <2>1, AppendProperties, LenProperties DEF AddOperator
<1>3. OthersTyped'
  BY <1>2 DEF OthersTyped, AddOperator, IInv, TypeOK, worldVars, tokenVars
<1>4. operators[k] \in Operator
  BY DEF IInv, TypeOK
<1>5. /\ op \in Operator
      /\ op.dogeAvailableBalance = operators[k].dogeAvailableBalance
      /\ op.dogePendingBalance = operators[k].dogePendingBalance
      /\ op.utxos = operators[k].utxos
      /\ op.nextUnspentUtxoIndex = operators[k].nextUnspentUtxoIndex
      /\ op.auction = operators[k].auction
  BY <1>2, <1>4 DEF Operator
<1> HIDE DEF op
<1>6. /\ UNCHANGED <<unlocks, tokenVars>>
      /\ dogeTxHashesAlreadyProcessed \subseteq dogeTxHashesAlreadyProcessed'
  BY DEF AddOperator
<1> QED
  BY <1>1, <1>3, <1>5, <1>6, OtherFields

\* Ether of an operator is added.
LEMMA AddOperatorDepositStep ==
  ASSUME IInv, NEW a \in Accounts, NEW k \in Operators, NEW n \in EtherAmounts,
         AddOperatorDeposit(a, k, n)
  PROVE  Kept
<1> DEFINE sum == operators[k].ethBalance + n
<1> DEFINE op == [operators[k] EXCEPT !.ethBalance = sum]
<1>1. operators' = [operators EXCEPT ![k] = op]
  BY DEF AddOperatorDeposit
<1>2. sum \in Nat
  <2>1. operators[k].ethBalance \in Nat /\ n \in Nat
    BY InputsAssumption, OperatorType DEF IInv, TypeOK
  <2> QED
    BY <2>1
<1>3. OthersTyped'
  BY DEF OthersTyped, AddOperatorDeposit, IInv, TypeOK, worldVars, tokenVars
<1> HIDE DEF sum
<1>4. operators[k] \in Operator
  BY DEF IInv, TypeOK
<1>5. /\ op \in Operator
      /\ op.dogeAvailableBalance = operators[k].dogeAvailableBalance
      /\ op.dogePendingBalance = operators[k].dogePendingBalance
      /\ op.utxos = operators[k].utxos
      /\ op.nextUnspentUtxoIndex = operators[k].nextUnspentUtxoIndex
      /\ op.auction = operators[k].auction
  BY <1>2, <1>4 DEF Operator
<1> HIDE DEF op
<1>6. /\ UNCHANGED <<unlocks, tokenVars>>
      /\ dogeTxHashesAlreadyProcessed \subseteq dogeTxHashesAlreadyProcessed'
  BY DEF AddOperatorDeposit
<1> QED
  BY <1>1, <1>3, <1>5, <1>6, OtherFields

\* Ether is withdrawn, as much as there is or less.
LEMMA WithdrawOperatorDepositStep ==
  ASSUME IInv, NEW a \in Accounts, NEW k \in Operators, NEW n \in EtherAmounts,
         WithdrawOperatorDeposit(a, k, n)
  PROVE  Kept
<1> DEFINE rest == operators[k].ethBalance - n
<1> DEFINE op == [operators[k] EXCEPT !.ethBalance = rest]
<1>1. operators' = [operators EXCEPT ![k] = op]
  BY DEF WithdrawOperatorDeposit
<1>2. rest \in Nat
  <2>1. operators[k].ethBalance \in Nat /\ n \in Nat
    BY InputsAssumption, OperatorType DEF IInv, TypeOK
  <2> QED
    BY <2>1 DEF WithdrawOperatorDeposit
<1>3. OthersTyped'
  BY DEF OthersTyped, WithdrawOperatorDeposit, IInv, TypeOK, worldVars, tokenVars
<1> HIDE DEF rest
<1>4. operators[k] \in Operator
  BY DEF IInv, TypeOK
<1>5. /\ op \in Operator
      /\ op.dogeAvailableBalance = operators[k].dogeAvailableBalance
      /\ op.dogePendingBalance = operators[k].dogePendingBalance
      /\ op.utxos = operators[k].utxos
      /\ op.nextUnspentUtxoIndex = operators[k].nextUnspentUtxoIndex
      /\ op.auction = operators[k].auction
  BY <1>2, <1>4 DEF Operator
<1> HIDE DEF op
<1>6. /\ UNCHANGED <<unlocks, tokenVars>>
      /\ dogeTxHashesAlreadyProcessed \subseteq dogeTxHashesAlreadyProcessed'
  BY DEF WithdrawOperatorDeposit
<1> QED
  BY <1>1, <1>3, <1>5, <1>6, OtherFields

\* A deleted operator has no dogecoins; a bid for its ether is lost.
LEMMA DeleteOperatorStep ==
  ASSUME IInv, NEW a \in Accounts, NEW k \in Operators, DeleteOperator(a, k)
  PROVE  Kept
<1>1. operators' = [operators EXCEPT ![k] = NoOperator]
  BY DEF DeleteOperator
<1>2. operatorKeys' \in Seq([key : Operators, deleted : BOOLEAN])
  <2> DEFINE Keys == [key : Operators, deleted : BOOLEAN]
  <2> DEFINE i == operators[k].operatorKeyIndex + 1
  <2> DEFINE x == [operatorKeys[i] EXCEPT !.deleted = TRUE]
  <2>1. operatorKeys \in Seq(Keys) /\ Len(operatorKeys) \in Nat
        /\ DOMAIN operatorKeys = 1 .. Len(operatorKeys)
    BY LenProperties DEF IInv, TypeOK
  <2>2. operatorKeys' = [operatorKeys EXCEPT ![i] = x]
    BY DEF DeleteOperator
  <2>3. CASE i \in 1 .. Len(operatorKeys)
    <3>1. operatorKeys[i] \in Keys
      BY <2>1, <2>3, ElementOfSeq
    <3>2. x \in Keys
      BY <3>1
    <3> HIDE DEF i, x, Keys
    <3> QED
      BY <2>1, <2>2, <2>3, <3>2, ExceptSeq DEF Keys
  <2>4. CASE i \notin 1 .. Len(operatorKeys)
    <3> HIDE DEF i, x, Keys
    <3>1. [operatorKeys EXCEPT ![i] = x] = operatorKeys
      BY <2>1, <2>4
    <3> QED
      BY <2>1, <2>2, <3>1 DEF Keys
  <2> QED
    BY <2>3, <2>4
<1>3. OthersTyped'
  BY <1>2 DEF OthersTyped, DeleteOperator, IInv, TypeOK, worldVars, tokenVars
<1>4. /\ NoOperator \in Operator /\ NoOperator.utxos = <<>>
      /\ NoOperator.dogeAvailableBalance = 0 /\ NoOperator.dogePendingBalance = 0
      /\ NoOperator.nextUnspentUtxoIndex = 0
      /\ NoOperator.auction = NoAuction /\ NoOperator.ethAddress = NoAccount
  <2>1. NoAuction \in Auction /\ <<>> \in Seq([value : Nat, txHash : TxHashes])
    BY DEF NoAuction, Auction
  <2> QED
    BY <2>1 DEF NoOperator, Operator
<1>5. Sound(NoOperator)
  <2>1. Len(NoOperator.utxos) = 0 /\ (0 + 1 .. 0) = {}
    BY <1>4
  <2>2. Value(NoOperator.utxos, 0 + 1 .. 0) = 0
    BY <2>1, ValueNone
  <2> QED
    BY <1>4, <2>1, <2>2 DEF Sound, NoAuction
<1>6. BidOf(NoOperator) = 0 /\ DogesOf(NoOperator) = 0
      /\ NoOperator.auction.status # "Closed"
  BY <1>4 DEF BidOf, DogesOf, NoAuction, auctionIsOpen
<1>7. Doges(k) = 0 /\ operators[k].dogePendingBalance = 0
  BY OperatorType DEF DeleteOperator, Doges, IInv, TypeOK
<1> QED
  BY <1>1, <1>3, <1>4, <1>5, <1>6, <1>7, QuietStep DEF DeleteOperator

\* The outputs that a Dogecoin transaction spends are some of the operator's.
LEMMA SpendType ==
  ASSUME IInv, NEW k \in Operators, NEW S, SpendUtxos(k, S)
  PROVE  spent' \subseteq TxHashes
<1>1. \A i \in DOMAIN operators[k].utxos : operators[k].utxos[i].txHash \in TxHashes
  BY OperatorType DEF IInv, TypeOK
<1> QED
  BY <1>1 DEF SpendUtxos, IInv, TypeOK

\* The operator of an active key is liquidated: there is no bid yet.
LEMMA LiquidateStep ==
  ASSUME IInv, NEW k \in Operators, isActive(k), liquidateOperator(k),
         UNCHANGED <<operatorKeys, unlocks, tokenVars, worldVars>>,
         spent' \subseteq TxHashes,
         dogeTxHashesAlreadyProcessed \subseteq dogeTxHashesAlreadyProcessed',
         dogeTxHashesAlreadyProcessed' \subseteq TxHashes
  PROVE  Kept
<1> DEFINE auction == auctionOpen(operators[k].auction, now)
<1> DEFINE op == [operators[k] EXCEPT !.auction = auction]
<1>1. operators' = [operators EXCEPT ![k] = op]
  BY DEF liquidateOperator
<1>2. OthersTyped'
  BY DEF OthersTyped, IInv, TypeOK, worldVars, tokenVars
<1>3. Sound(operators[k]) /\ operators[k].auction.status = "Uninitialized"
  BY AllSound DEF isActive, auctionIsInexistent
<1>4. /\ auction \in Auction /\ auction.bestBid = 0 /\ auction.status = "Open"
      /\ auction.bestBidder = operators[k].auction.bestBidder
  <2>1. now + auctionMinimumDuration \in Nat
    BY RatiosAssumption DEF IInv, TypeOK
  <2>2. operators[k].auction \in Auction /\ operators[k].auction.bestBid = 0
    BY <1>3 DEF Sound, Operator
  <2> QED
    BY <2>1, <2>2 DEF auctionOpen, Auction
<1> HIDE DEF auction
<1>5. /\ op \in Operator
      /\ op.dogeAvailableBalance = operators[k].dogeAvailableBalance
      /\ op.dogePendingBalance = operators[k].dogePendingBalance
      /\ op.utxos = operators[k].utxos
      /\ op.nextUnspentUtxoIndex = operators[k].nextUnspentUtxoIndex
      /\ op.auction = auction
  BY <1>3, <1>4 DEF Sound, Operator
<1> HIDE DEF op
<1>6. Sound(op)
  BY <1>3, <1>4, <1>5 DEF Sound
<1>7. DogesOf(op) = Doges(k) /\ BidOf(op) = 0 /\ HeldBid(k) = 0
  BY <1>3, <1>4, <1>5 DEF DogesOf, Doges, BidOf, HeldBid, auctionIsOpen
<1>8. BidOf(op) = HeldBid(k) \/ (BidOf(op) = 0 /\ op.ethAddress = NoAccount)
  BY <1>7
<1>9. op.auction.status # "Closed" \/ HeldBid(k) = 0
  BY <1>7
<1>10. op.utxos = operators[k].utxos \/ op.utxos = <<>>
  BY <1>5
<1> QED
  BY <1>1, <1>2, <1>5, <1>6, <1>7, <1>8, <1>9, <1>10, QuietStep

\* The reports that liquidate an operator.
LEMMA ReportOperatorMissingUnlockStep ==
  ASSUME IInv, NEW k \in Operators, NEW i \in DOMAIN unlocks,
         ReportOperatorMissingUnlock(k, i)
  PROVE  Kept
BY LiquidateStep DEF ReportOperatorMissingUnlock, IInv, TypeOK

\* A price that makes the collateral too small liquidates an operator.
LEMMA ReportOperatorUnsafeCollateralStep ==
  ASSUME IInv, NEW k \in Operators, ReportOperatorUnsafeCollateral(k)
  PROVE  Kept
BY LiquidateStep DEF ReportOperatorUnsafeCollateral, IInv, TypeOK

\* So does the relay of a transaction that spends a free output.
LEMMA ProcessReportOperatorFreeUtxoSpendStep ==
  ASSUME IInv, NEW h \in TxHashes, NEW k \in Operators, NEW i,
         ProcessReportOperatorFreeUtxoSpend(h, k, i)
  PROVE  Kept
<1>1. spent' \subseteq TxHashes
  BY SpendType DEF ProcessReportOperatorFreeUtxoSpend
<1>2. /\ dogeTxHashesAlreadyProcessed \subseteq dogeTxHashesAlreadyProcessed'
      /\ dogeTxHashesAlreadyProcessed' \subseteq TxHashes
  BY DEF ProcessReportOperatorFreeUtxoSpend, transactionPreliminaryChecks, IInv, TypeOK
<1> QED
  BY <1>1, <1>2, LiquidateStep DEF ProcessReportOperatorFreeUtxoSpend

-----------------------------------------------------------------------------
(* Steps that move tokens.                                                 *)

\* The supply moves by what accounts and auctions gain, and by what an operator
\* gains in dogecoins, and no auction closes.
LEMMA MoveStep ==
  ASSUME IInv, NEW k \in Operators, NEW op,
         operators' = [operators EXCEPT ![k] = op],
         Sound(op), Fresh(k, op.utxos),
         op.auction.status # "Closed" \/ HeldBid(k) = 0,
         SumFunction(balances') - SumFunction(balances)
             + (BidOf(op) - HeldBid(k)) = totalSupply' - totalSupply,
         DogesOf(op) - Doges(k) = totalSupply' - totalSupply,
         OthersTyped',
         dogeTxHashesAlreadyProcessed \subseteq dogeTxHashesAlreadyProcessed'
  PROVE  IInv' /\ SupplyKept /\ BackingKept
<1>1. op \in Operator /\ TypeOK
  BY DEF Sound, IInv
<1>2. /\ operators'[k] = op
      /\ \A l \in Operators : l # k => operators'[l] = operators[l]
  BY <1>1, UpdateOperator
<1>3. /\ Backing \in Nat /\ Backing' = Backing + (DogesOf(op) - Doges(k))
      /\ HeldBids \in Nat /\ HeldBids' = HeldBids + (BidOf(op) - HeldBid(k))
  BY <1>1, OperatorSums
<1>4. DogesOf(op) \in Nat /\ Doges(k) \in Nat
      /\ BidOf(op) \in Nat /\ HeldBid(k) \in Nat
  <2>1. operators[k] \in Operator
    BY <1>1 DEF TypeOK
  <2>2. DogesOf(op) \in Nat /\ BidOf(op) \in Nat /\ DogesOf(operators[k]) \in Nat
    BY <1>1, <2>1, OperatorType
  <2>3. HeldBid(k) \in Nat
    BY <1>1, BidIsHeld
  <2> QED
    BY <2>2, <2>3 DEF Doges, DogesOf
<1>5. /\ totalSupply \in Nat /\ totalSupply' \in Nat
      /\ SumFunction(balances) \in Nat
      /\ SumFunction(balances') \in Nat
  <2>1. balances \in [Accounts -> Nat] /\ balances' \in [Accounts -> Nat]
    BY DEF OthersTyped, IInv, TypeOK
  <2>2. \A b \in [Accounts -> Nat] : SumFunction(b) \in Nat
    <3> SUFFICES ASSUME NEW b \in [Accounts -> Nat] PROVE SumFunction(b) \in Nat
      OBVIOUS
    <3>1. IsFiniteSet(Accounts) /\ DOMAIN b = Accounts
          /\ \A x \in Accounts : b[x] \in Nat
      BY FiniteAssumption
    <3> QED
      BY <3>1, SumNat DEF SumFunction
  <2> QED
    BY <2>1, <2>2 DEF OthersTyped, IInv, TypeOK
<1> DEFINE s == SumFunction(balances)
<1> DEFINE t == SumFunction(balances')
<1>6. /\ Held <= totalSupply /\ Held = s + HeldBids /\ Held' = t + HeldBids'
      /\ t - s + (BidOf(op) - HeldBid(k)) = totalSupply' - totalSupply
      /\ s \in Nat /\ t \in Nat
  BY <1>5 DEF IInv, Held
<1> HIDE DEF s, t
<1>7. totalSupply' - Held' = totalSupply - Held /\ Held' <= totalSupply'
  BY <1>3, <1>4, <1>5, <1>6
<1>8. IInv'
  BY <1>7, OneOperator
<1>9. SupplyKept
  BY <1>7 DEF SupplyKept
<1>10. BackingKept
  <2>1. \A l \in Operators : HeldBid(l) > 0 => operators'[l].auction.status # "Closed"
    BY <1>2 DEF HeldBid, auctionIsOpen
  <2>2. Backing' - totalSupply' = Backing - totalSupply + 0
    BY <1>3, <1>4, <1>5
  <2> QED
    BY <2>1, <2>2, ClosingNone DEF BackingKept
<1> QED
  BY <1>8, <1>9, <1>10

\* A lock mints what its operator gets.
LEMMA ProcessLockTransactionStep ==
  ASSUME IInv, NEW h \in TxHashes, NEW k \in Operators, NEW v \in LockValues,
         NEW user \in Accounts, NEW submitter \in Accounts,
         ProcessLockTransaction(h, k, v, user, submitter)
  PROVE  Kept
<1> DEFINE x == [value |-> v, txHash |-> h]
<1> DEFINE utxos == Append(operators[k].utxos, x)
<1> DEFINE sum == operators[k].dogeAvailableBalance + v
<1> DEFINE op == [operators[k] EXCEPT !.utxos = utxos, !.dogeAvailableBalance = sum]
<1> DEFINE a == operators[k].ethAddress
<1> DEFINE f == Fee(v, OPERATOR_LOCK_FEE)
<1> DEFINE g == Fee(v, SUPERBLOCK_SUBMITTER_LOCK_FEE)
<1>1. operators' = [operators EXCEPT ![k] = op]
  BY DEF ProcessLockTransaction
<1>2. v \in Nat /\ f \in Nat /\ g \in Nat /\ v - f - g \in Nat
  <2>1. v \in Nat
    BY InputsAssumption
  <2>2. f \in Nat /\ g \in Nat /\ f + g <= v
    <3>1. /\ OPERATOR_LOCK_FEE \in Nat /\ SUPERBLOCK_SUBMITTER_LOCK_FEE \in Nat
          /\ OPERATOR_LOCK_FEE + SUPERBLOCK_SUBMITTER_LOCK_FEE
               <= DOGETHEREUM_FEE_FRACTION
      BY FeesAssumption
    <3> QED
      BY <2>1, <3>1, FeesFit
  <2> HIDE DEF f, g
  <2> QED
    BY <2>1, <2>2
<1>3. /\ Sound(operators[k]) /\ operators[k].auction.status = "Uninitialized"
      /\ a \in Accounts
  <2>1. operators[k] \in Operator
    BY DEF IInv, TypeOK
  <2> QED
    BY <2>1, AllSound, OperatorType
    DEF ProcessLockTransaction, isActive, isRegistered, auctionIsInexistent
<1>4. /\ utxos \in Outputs /\ Len(operators[k].utxos) \in Nat
      /\ Len(utxos) = Len(operators[k].utxos) + 1
      /\ operators[k].nextUnspentUtxoIndex \in Nat
      /\ Value(utxos, operators[k].nextUnspentUtxoIndex + 1 .. Len(utxos)) =
           operators[k].dogeAvailableBalance + v
      /\ operators[k].dogeAvailableBalance \in Nat
      /\ operators[k].dogePendingBalance \in Nat
      /\ operators[k].auction \in Auction
  <2>1. /\ operators[k] \in Operator
        /\ operators[k].nextUnspentUtxoIndex <= Len(operators[k].utxos)
        /\ operators[k].dogeAvailableBalance =
             Value(operators[k].utxos,
                   operators[k].nextUnspentUtxoIndex + 1 .. Len(operators[k].utxos))
    BY <1>3 DEF Sound
  <2>2. /\ operators[k].utxos \in Outputs
        /\ operators[k].nextUnspentUtxoIndex \in Nat
        /\ operators[k].dogeAvailableBalance \in Nat
        /\ operators[k].dogePendingBalance \in Nat
        /\ operators[k].auction \in Auction
        /\ Len(operators[k].utxos) \in Nat
    BY <2>1, OperatorType
  <2>3. x \in [value : Nat, txHash : TxHashes] /\ x.value = v
    BY <1>2
  <2> HIDE DEF x
  <2> QED
    BY <2>1, <2>2, <2>3, ValueAppend
<1>5. Fresh(k, utxos)
  BY <1>2, NewOutput DEF ProcessLockTransaction
<1>6. sum \in Nat
  BY SMTT(30), <1>2, <1>4
<1> HIDE DEF x, utxos
<1>7. /\ op \in Operator
      /\ op.utxos = utxos /\ op.dogeAvailableBalance = sum
      /\ op.dogePendingBalance = operators[k].dogePendingBalance
      /\ op.nextUnspentUtxoIndex = operators[k].nextUnspentUtxoIndex
      /\ op.auction = operators[k].auction
  <2> HIDE DEF sum
  <2> QED
    BY <1>3, <1>4, <1>6 DEF Sound, Operator, Outputs
<1> HIDE DEF op
<1>8. Sound(op)
  BY <1>3, <1>4, <1>7 DEF Sound
<1>9. DogesOf(op) - Doges(k) = v /\ BidOf(op) = HeldBid(k) /\ HeldBid(k) = 0
  <2>1. /\ op.dogeAvailableBalance = operators[k].dogeAvailableBalance + v
        /\ op.dogePendingBalance = operators[k].dogePendingBalance
        /\ v \in Nat /\ operators[k].dogeAvailableBalance \in Nat
        /\ operators[k].dogePendingBalance \in Nat
    BY <1>2, <1>4, <1>7
  <2>2. DogesOf(op) - Doges(k) = v
    BY <2>1 DEF DogesOf, Doges
  <2>3. BidOf(op) = 0 /\ HeldBid(k) = 0
    BY <1>3, <1>7 DEF BidOf, HeldBid, auctionIsOpen
  <2> QED
    BY <2>2, <2>3
<1> DEFINE b1 == [balances EXCEPT ![a] = balances[a] + f]
<1> DEFINE b2 == [b1 EXCEPT ![submitter] = b1[submitter] + g]
<1> DEFINE b3 == [b2 EXCEPT ![user] = b2[user] + (v - f - g)]
<1> HIDE DEF f, g, a
<1>10. balances \in [Accounts -> Nat]
  BY DEF IInv, TypeOK
<1>11. balances' = b3 /\ totalSupply' = totalSupply + v
  <2>1. balances' = [z \in Accounts |->
             balances[z] + (IF z = a THEN f ELSE 0)
                         + (IF z = submitter THEN g ELSE 0)
                         + (IF z = user THEN v - f - g ELSE 0)]
    BY DEF ProcessLockTransaction, distributeTokensAfterLock, f, g, a
  <2>2. \A z \in Accounts : balances'[z] = b3[z]
    BY <1>2, <1>3, <1>10, <2>1
  <2>3. balances' = b3
    BY <1>10, <2>1, <2>2
  <2> QED
    BY <2>3 DEF ProcessLockTransaction, distributeTokensAfterLock
<1>12. /\ balances' \in [Accounts -> Nat]
       /\ SumFunction(balances') - SumFunction(balances) = v
  <2>1. /\ b1 \in [Accounts -> Nat] /\ b2 \in [Accounts -> Nat]
        /\ b3 \in [Accounts -> Nat]
    BY <1>2, <1>3, <1>10
  <2>2. /\ SumFunction(balances) \in Int
        /\ SumFunction(b1) = SumFunction(balances) + f
    <3>1. balances \in [Accounts -> Int] /\ balances[a] + f \in Int
      BY <1>2, <1>3, <1>10
    <3>2. SumFunction(b1) = SumFunction(balances) + ((balances[a] + f) - balances[a])
          /\ SumFunction(balances) \in Int
      BY <1>3, <3>1, BalanceUpdate
    <3>3. (balances[a] + f) - balances[a] = f
      BY <1>2, <1>3, <1>10
    <3> QED
      BY <3>2, <3>3
  <2> HIDE DEF b1
  <2>3. SumFunction(b2) = SumFunction(b1) + g
    <3>1. b1 \in [Accounts -> Int] /\ b1[submitter] + g \in Int
      BY <1>2, <2>1
    <3>2. SumFunction(b2) = SumFunction(b1) + ((b1[submitter] + g) - b1[submitter])
      BY <3>1, BalanceUpdate
    <3>3. (b1[submitter] + g) - b1[submitter] = g
      BY <1>2, <2>1
    <3> QED
      BY <3>2, <3>3
  <2> HIDE DEF b2
  <2>4. SumFunction(b3) = SumFunction(b2) + (v - f - g)
    <3>1. b2 \in [Accounts -> Int] /\ b2[user] + (v - f - g) \in Int
      BY <1>2, <2>1
    <3> DEFINE y == b2[user] + (v - f - g)
    <3> HIDE DEF y
    <3>2. b2 \in [Accounts -> Int] /\ y \in Int /\ y - b2[user] = v - f - g
      BY <1>2, <2>1, <3>1 DEF y
    <3>3. SumFunction([b2 EXCEPT ![user] = y]) = SumFunction(b2) + (y - b2[user])
      BY <3>2, BalanceUpdate
    <3>4. b3 = [b2 EXCEPT ![user] = y]
      BY DEF y
    <3> HIDE DEF b3
    <3> QED
      BY <3>2, <3>3, <3>4
  <2> HIDE DEF b3
  <2> QED
    BY <1>2, <1>11, <2>1, <2>2, <2>3, <2>4
<1>13. OthersTyped'
  <2>1. totalSupply' \in Nat
    BY <1>2, <1>11 DEF IInv, TypeOK
  <2> QED
    BY <1>12, <2>1 DEF OthersTyped, ProcessLockTransaction,
                       transactionPreliminaryChecks, IInv, TypeOK, worldVars
<1>14. /\ totalSupply' - totalSupply = v
       /\ SumFunction(balances') - SumFunction(balances) + (BidOf(op) - HeldBid(k)) = v
  BY <1>2, <1>9, <1>11, <1>12 DEF IInv, TypeOK
<1>15. IInv' /\ SupplyKept /\ BackingKept
  <2>1. dogeTxHashesAlreadyProcessed \subseteq dogeTxHashesAlreadyProcessed'
    BY DEF ProcessLockTransaction, transactionPreliminaryChecks
  <2>2. Fresh(k, op.utxos)
    BY <1>5, <1>7
  <2>3. DogesOf(op) - Doges(k) = totalSupply' - totalSupply
    BY <1>9, <1>14
  <2>4. SumFunction(balances') - SumFunction(balances) + (BidOf(op) - HeldBid(k))
          = totalSupply' - totalSupply
    BY <1>14
  <2>5. op.auction.status # "Closed" \/ HeldBid(k) = 0
    BY <1>9
  <2> QED
    BY <1>1, <1>8, <1>13, <2>1, <2>2, <2>3, <2>4, <2>5, MoveStep
<1>16. PendingKept /\ FundedKept
  <2>1. \A l \in Operators :
          operators'[l].dogePendingBalance = operators[l].dogePendingBalance
    BY <1>1, <1>7, UpdateOperator DEF IInv
  <2> QED
    BY <2>1, SameUnlocks DEF ProcessLockTransaction
<1> QED
  BY <1>15, <1>16 DEF Kept

\* A bid moves tokens to the auction and the last bid back.
LEMMA LiquidationBidStep ==
  ASSUME IInv, NEW a \in Accounts, NEW k \in Operators, NEW n \in Bids,
         LiquidationBid(a, k, n)
  PROVE  Kept
<1> DEFINE old == operators[k].auction
<1> DEFINE auction == auctionBid(old, a, n)
<1> DEFINE op == [operators[k] EXCEPT !.auction = auction]
<1>1. operators' = [operators EXCEPT ![k] = op]
  BY DEF LiquidationBid
<1>2. n \in Nat /\ a # NoAccount
  BY InputsAssumption
<1>3. /\ Sound(operators[k]) /\ old.status = "Open" /\ old \in Auction
      /\ operators[k] \in Operator
  BY AllSound DEF LiquidationBid, CanBid, auctionIsOpen, Sound, Operator
<1>4. /\ old.bestBid \in Nat /\ old.bestBidder \in Accounts \cup {NoAccount}
      /\ old.bestBidder = NoAccount => old.bestBid = 0
  BY <1>3 DEF Auction, Sound
<1>5. /\ auction \in Auction /\ auction.bestBid = n /\ auction.bestBidder = a
      /\ auction.status = "Open"
  BY <1>2, <1>3 DEF auctionBid, Auction
<1> HIDE DEF auction
<1>6. /\ op \in Operator
      /\ op.dogeAvailableBalance = operators[k].dogeAvailableBalance
      /\ op.dogePendingBalance = operators[k].dogePendingBalance
      /\ op.utxos = operators[k].utxos
      /\ op.nextUnspentUtxoIndex = operators[k].nextUnspentUtxoIndex
      /\ op.auction = auction
  BY <1>3, <1>5 DEF Operator
<1> HIDE DEF op
<1>7. Sound(op)
  BY <1>2, <1>3, <1>5, <1>6 DEF Sound
<1>8. /\ DogesOf(op) = Doges(k) /\ BidOf(op) = n /\ HeldBid(k) = old.bestBid
  BY <1>3, <1>5, <1>6 DEF DogesOf, Doges, BidOf, HeldBid, auctionIsOpen
<1> HIDE DEF old
<1> DEFINE released == IF old.bestBidder = NoAccount THEN balances
                       ELSE [balances EXCEPT ![old.bestBidder] =
                               balances[old.bestBidder] + old.bestBid]
<1> DEFINE taken == [released EXCEPT ![a] = released[a] - n]
<1>9. balances' = taken /\ balances'[a] >= 0 /\ totalSupply' = totalSupply
  BY DEF LiquidationBid, BalancesAfterBid, old
<1>10. balances \in [Accounts -> Nat] /\ totalSupply \in Nat
  BY DEF IInv, TypeOK
<1>11. /\ released \in [Accounts -> Nat]
       /\ SumFunction(balances) \in Int
       /\ SumFunction(released) = SumFunction(balances) + old.bestBid
  <2>1. CASE old.bestBidder = NoAccount
    <3>1. SumFunction(balances) \in Int
      BY <1>10, BalancesSum
    <3>2. released = balances /\ old.bestBid = 0
      BY <1>4, <2>1
    <3> HIDE DEF released
    <3>3. SumFunction(balances) + old.bestBid = SumFunction(balances)
      BY <3>1, <3>2
    <3> QED
      BY <1>10, <3>1, <3>2, <3>3
  <2>2. CASE old.bestBidder # NoAccount
    <3> DEFINE b == old.bestBidder
    <3> DEFINE v == balances[b] + old.bestBid
    <3>1. b \in Accounts /\ balances \in [Accounts -> Int] /\ v \in Nat
          /\ v - balances[b] = old.bestBid
      BY <1>4, <1>10, <2>2
    <3>2. released = [balances EXCEPT ![b] = v]
      BY <2>2
    <3> HIDE DEF b, v
    <3> DEFINE c == [balances EXCEPT ![b] = v]
    <3>3. /\ SumFunction(balances) \in Int
          /\ SumFunction(c) = SumFunction(balances) + (v - balances[b])
      <4>1. b \in Accounts /\ balances \in [Accounts -> Int] /\ v \in Int
        BY <3>1
      <4> QED
        BY <4>1, BalanceUpdate
    <3>4. c \in [Accounts -> Nat]
      BY <1>10, <3>1
    <3> HIDE DEF released, c
    <3> QED
      BY <3>1, <3>2, <3>3, <3>4 DEF c
  <2> QED
    BY <2>1, <2>2
<1> HIDE DEF released
<1>12. /\ balances' \in [Accounts -> Nat]
       /\ SumFunction(balances') = SumFunction(released) - n
  <2>1. released \in [Accounts -> Int] /\ released[a] - n \in Int
        /\ (released[a] - n) - released[a] = -n
    BY <1>2, <1>11
  <2>2. /\ taken \in [Accounts -> Int] /\ taken[a] = released[a] - n
        /\ \A z \in Accounts : z # a => taken[z] = released[z]
        /\ SumFunction(released) \in Int
        /\ SumFunction(taken) = SumFunction(released) + ((released[a] - n) - released[a])
    BY <2>1, BalanceUpdate
  <2> HIDE DEF taken
  <2>3. \A z \in Accounts : taken[z] \in Nat
    BY <1>9, <1>11, <2>2
  <2>4. taken \in [Accounts -> Nat]
    BY <2>2, <2>3
  <2>5. SumFunction(taken) = SumFunction(released) - n
    BY <1>2, <2>1, <2>2
  <2> QED
    BY <1>9, <2>4, <2>5
<1>13. OthersTyped'
  BY <1>12 DEF OthersTyped, LiquidationBid, IInv, TypeOK, worldVars
<1>14. SumFunction(balances') - SumFunction(balances) + (BidOf(op) - HeldBid(k))
         = totalSupply' - totalSupply
  <2>1. /\ SumFunction(balances') = (SumFunction(balances) + old.bestBid) - n
        /\ SumFunction(balances) \in Int /\ old.bestBid \in Nat /\ n \in Nat
        /\ BidOf(op) = n /\ HeldBid(k) = old.bestBid
        /\ totalSupply' - totalSupply = 0
    BY <1>2, <1>4, <1>8, <1>9, <1>10, <1>11, <1>12
  <2> DEFINE s == SumFunction(balances)
  <2> DEFINE t == SumFunction(balances')
  <2> HIDE DEF s, t
  <2>2. t = (s + old.bestBid) - n /\ s \in Int
    BY <2>1 DEF s, t
  <2>3. t - s + (n - old.bestBid) = 0
    BY <2>1, <2>2
  <2> QED
    BY <2>1, <2>3 DEF s, t
<1>15. DogesOf(op) - Doges(k) = totalSupply' - totalSupply
  <2>1. DogesOf(op) \in Nat
    BY <1>6, OperatorType
  <2> QED
    BY <1>8, <1>9, <1>10, <2>1
<1>16. Fresh(k, op.utxos)
       /\ dogeTxHashesAlreadyProcessed \subseteq dogeTxHashesAlreadyProcessed'
  <2>1. dogeTxHashesAlreadyProcessed \subseteq dogeTxHashesAlreadyProcessed'
    BY DEF LiquidationBid
  <2> QED
    BY <1>6, <2>1, SameOutputs
<1>17. op.auction.status # "Closed" \/ HeldBid(k) = 0
  BY <1>5, <1>6
<1>18. IInv' /\ SupplyKept /\ BackingKept
  BY <1>1, <1>7, <1>13, <1>14, <1>15, <1>16, <1>17, MoveStep
<1>19. PendingKept /\ FundedKept
  <2>1. \A l \in Operators :
          operators'[l].dogePendingBalance = operators[l].dogePendingBalance
    BY <1>1, <1>6, UpdateOperator DEF IInv
  <2> QED
    BY <2>1, SameUnlocks DEF LiquidationBid
<1> QED
  BY <1>18, <1>19 DEF Kept

\* The bid that closes an auction is burnt, of tokens the auction held.
LEMMA CloseLiquidationAuctionStep ==
  ASSUME IInv, NEW k \in Operators, CloseLiquidationAuction(k)
  PROVE  Kept
<1> DEFINE old == operators[k].auction
<1> DEFINE auction == auctionClose(old)
<1> DEFINE op == [operators[k] EXCEPT !.auction = auction, !.ethBalance = 0]
<1>1. operators' = [operators EXCEPT ![k] = op]
  BY DEF CloseLiquidationAuction
<1>2. /\ Sound(operators[k]) /\ old.status = "Open" /\ old \in Auction
      /\ operators[k] \in Operator
  BY AllSound DEF CloseLiquidationAuction, CanClose, auctionIsOpen, Sound, Operator
<1>3. /\ old.bestBid \in Nat /\ old.bestBidder = NoAccount => old.bestBid = 0
  BY <1>2 DEF Auction, Sound
<1>4. /\ auction \in Auction /\ auction.bestBid = old.bestBid
      /\ auction.bestBidder = old.bestBidder /\ auction.status = "Closed"
  BY <1>2 DEF auctionClose, Auction
<1> HIDE DEF auction
<1>5. /\ op \in Operator
      /\ op.dogeAvailableBalance = operators[k].dogeAvailableBalance
      /\ op.dogePendingBalance = operators[k].dogePendingBalance
      /\ op.utxos = operators[k].utxos
      /\ op.nextUnspentUtxoIndex = operators[k].nextUnspentUtxoIndex
      /\ op.auction = auction
  BY <1>2, <1>4 DEF Operator
<1> HIDE DEF op
<1>6. Sound(op)
  BY <1>2, <1>3, <1>4, <1>5 DEF Sound
<1>7. DogesOf(op) = Doges(k) /\ BidOf(op) = 0 /\ HeldBid(k) = old.bestBid
  BY <1>2, <1>4, <1>5 DEF DogesOf, Doges, BidOf, HeldBid, auctionIsOpen
<1>8. TypeOK /\ balances' = balances /\ totalSupply' = totalSupply - HeldBid(k)
  BY <1>7 DEF CloseLiquidationAuction, IInv
<1>9. /\ operators'[k] = op
      /\ \A l \in Operators : l # k => operators'[l] = operators[l]
  BY <1>1, <1>5, <1>8, UpdateOperator
<1>10. /\ Backing \in Nat /\ HeldBids \in Nat
       /\ Backing' = Backing + (DogesOf(op) - Doges(k))
       /\ HeldBids' = HeldBids + (BidOf(op) - HeldBid(k))
  BY <1>1, <1>5, <1>8, OperatorSums
<1>11. HeldBid(k) \in Nat /\ HeldBid(k) <= HeldBids /\ DogesOf(op) \in Nat
  BY <1>5, <1>8, BidIsHeld, OperatorType
<1>12. /\ totalSupply \in Nat /\ Held <= totalSupply
       /\ SumFunction(balances) \in Nat
       /\ Held = SumFunction(balances) + HeldBids
       /\ Held' = SumFunction(balances) + HeldBids'
  BY <1>8, BalancesSum DEF Held, IInv, TypeOK
<1>13. Backing' = Backing /\ HeldBids' = HeldBids - HeldBid(k)
  BY <1>7, <1>10, <1>11
<1>14. /\ totalSupply' \in Nat /\ Held' <= totalSupply'
       /\ totalSupply' - Held' = totalSupply - Held
  BY <1>8, <1>10, <1>11, <1>12, <1>13
<1>15. OthersTyped'
  BY <1>14 DEF OthersTyped, CloseLiquidationAuction, IInv, TypeOK, worldVars
<1>16. IInv'
  <2>1. dogeTxHashesAlreadyProcessed \subseteq dogeTxHashesAlreadyProcessed'
    BY DEF CloseLiquidationAuction
  <2>2. Fresh(k, op.utxos)
    BY <1>5, <2>1, SameOutputs
  <2> QED
    BY <1>1, <1>6, <1>14, <1>15, <2>1, <2>2, OneOperator
<1>17. SupplyKept
  BY <1>14 DEF SupplyKept
<1>18. BackingKept
  <2>1. operators'[k].auction.status = "Closed"
    BY <1>4, <1>5, <1>9
  <2>2. \A l \in Operators \ {k} :
          HeldBid(l) > 0 => operators'[l].auction.status # "Closed"
    BY <1>9 DEF HeldBid, auctionIsOpen
  <2>3. SumFunction([l \in Closing |-> HeldBid(l)]) = HeldBid(k)
    BY <1>8, <2>1, <2>2, ClosingOne
  <2>4. Backing' - totalSupply' = Backing - totalSupply + HeldBid(k)
    BY <1>8, <1>10, <1>11, <1>12, <1>13
  <2> QED
    BY <2>3, <2>4 DEF BackingKept
<1>19. PendingKept /\ FundedKept
  <2>1. \A l \in Operators :
          operators'[l].dogePendingBalance = operators[l].dogePendingBalance
    BY <1>5, <1>9
  <2> QED
    BY <2>1, SameUnlocks DEF CloseLiquidationAuction
<1> QED
  BY <1>16, <1>17, <1>18, <1>19 DEF Kept

\* Operators as they are.
LEMMA SameOperators ==
  ASSUME IInv, UNCHANGED <<operators, unlocks, totalSupply,
                           dogeTxHashesAlreadyProcessed>>,
         SumFunction(balances') = SumFunction(balances),
         OthersTyped'
  PROVE  Kept
<1>1. HeldBids' = HeldBids /\ Backing' = Backing
  BY DEF HeldBids, HeldBid, Backing, Doges
<1>2. Held' = Held
  BY <1>1 DEF Held
<1>3. IInv'
  BY <1>2, NoOperatorChanges DEF IInv
<1>4. SupplyKept
  BY <1>2 DEF SupplyKept
<1>5. BackingKept
  <2>1. \A l \in Operators : HeldBid(l) > 0 => operators'[l].auction.status # "Closed"
    BY DEF HeldBid, auctionIsOpen
  <2>2. TypeOK /\ totalSupply \in Nat
    BY DEF IInv, TypeOK
  <2>3. Backing \in Int
    <3> DEFINE f == [l \in Operators |-> DogesOf(operators[l])]
    <3>1. Backing = SumFunctionOnSet(f, Operators)
      BY DEF Backing, SumFunction, Doges, DogesOf
    <3>2. \A l \in Operators : f[l] \in Int
      BY <2>2, OperatorType DEF TypeOK
    <3> HIDE DEF f
    <3> QED
      BY <3>1, <3>2, FiniteAssumption, SumInt
  <2>4. Backing' - totalSupply' = Backing - totalSupply + 0
    BY <1>1, <2>2, <2>3
  <2> QED
    BY <2>1, <2>4, ClosingNone DEF BackingKept
<1>6. PendingKept /\ FundedKept
  BY SameUnlocks
<1> QED
  BY <1>3, <1>4, <1>5, <1>6 DEF Kept

\* A transfer leaves the sum of the balances.
LEMMA TransferStep ==
  ASSUME IInv, NEW a \in Accounts, NEW b \in Accounts, NEW n \in Transfers,
         Transfer(a, b, n)
  PROVE  Kept
<1> DEFINE taken == [balances EXCEPT ![a] = balances[a] - n]
<1> DEFINE given == [taken EXCEPT ![b] = taken[b] + n]
<1>1. n \in Nat /\ balances \in [Accounts -> Nat]
  BY InputsAssumption DEF IInv, TypeOK
<1>2. balances' = given /\ balances[a] >= n
  BY DEF Transfer
<1>3. taken \in [Accounts -> Nat] /\ given \in [Accounts -> Nat]
  BY <1>1, <1>2
<1>4. SumFunction(taken) = SumFunction(balances) - n /\ SumFunction(balances) \in Int
  <2>1. /\ balances \in [Accounts -> Int] /\ balances[a] - n \in Int
        /\ (balances[a] - n) - balances[a] = -n
    BY <1>1
  <2>2. /\ SumFunction(taken) = SumFunction(balances) + ((balances[a] - n) - balances[a])
        /\ SumFunction(balances) \in Int
    BY <2>1, BalanceUpdate
  <2> HIDE DEF taken
  <2> QED
    BY <1>1, <2>1, <2>2
<1> HIDE DEF taken
<1>5. SumFunction(given) = SumFunction(taken) + n
  <2>1. /\ taken \in [Accounts -> Int] /\ taken[b] + n \in Int
        /\ (taken[b] + n) - taken[b] = n
    BY <1>1, <1>3
  <2>2. SumFunction(given) = SumFunction(taken) + ((taken[b] + n) - taken[b])
    BY <2>1, BalanceUpdate
  <2> QED
    BY <2>1, <2>2
<1> HIDE DEF given
<1>6. SumFunction(balances') = SumFunction(balances)
  <2>1. SumFunction(given) = (SumFunction(balances) - n) + n
    BY <1>4, <1>5
  <2> QED
    BY <1>1, <1>2, <1>4, <2>1
<1>7. OthersTyped'
  BY <1>2, <1>3 DEF OthersTyped, Transfer, IInv, TypeOK, worldVars
<1> QED
  BY <1>6, <1>7, SameOperators DEF Transfer

\* Prices, heights and the clock are no part of any sum.
LEMMA WorldChangesStep ==
  ASSUME IInv, WorldChanges
  PROVE  Kept
<1>1. OthersTyped'
  BY DEF OthersTyped, WorldChanges, IInv, TypeOK, tokenVars
<1>2. SumFunction(balances') = SumFunction(balances)
  BY DEF WorldChanges, tokenVars
<1> QED
  BY <1>1, <1>2, SameOperators DEF WorldChanges, tokenVars

\* A step that changes nothing keeps everything.
LEMMA StutteringStep ==
  ASSUME IInv, UNCHANGED vars
  PROVE  Kept
<1>1. OthersTyped'
  BY DEF OthersTyped, vars, IInv, TypeOK, tokenVars, worldVars
<1>2. SumFunction(balances') = SumFunction(balances)
  BY DEF vars, tokenVars
<1> QED
  BY <1>1, <1>2, SameOperators DEF vars, tokenVars

\* The fee of a transaction is a natural number.
LEMMA TxFeeType ==
  ASSUME NEW i \in Nat, NEW o \in Nat
  PROVE  TxFee(i, o) \in Nat
<1>1. /\ DOGE_TX_FEE_RATE \in Nat /\ DOGE_TX_FIXED_SIZE \in Nat
      /\ DOGE_TX_INPUT_SIZE \in Nat /\ DOGE_TX_OUTPUT_SIZE \in Nat
  BY FeesAssumption
<1> DEFINE x == DOGE_TX_INPUT_SIZE * i
<1> DEFINE y == DOGE_TX_OUTPUT_SIZE * o
<1> DEFINE z == DOGE_TX_FIXED_SIZE + x + y
<1>2. x \in Nat /\ y \in Nat
  BY <1>1
<1>3. z \in Nat
  <2> HIDE DEF x, y
  <2> QED
    BY <1>1, <1>2
<1>4. TxFee(i, o) = DOGE_TX_FEE_RATE * z
  BY DEF TxFee
<1> HIDE DEF z
<1>5. DOGE_TX_FEE_RATE * z \in Nat
  BY <1>1, <1>3
<1> QED
  BY <1>4, <1>5

\* What selectUtxosAndFee returns: a run of free outputs that holds the value, the
\* change and the dust, and the fee of its transaction over the dust.
LEMMA Selection ==
  ASSUME NEW op \in Operator, op.nextUnspentUtxoIndex <= Len(op.utxos),
         op.dogeAvailableBalance =
           Value(op.utxos, op.nextUnspentUtxoIndex + 1 .. Len(op.utxos)),
         NEW v \in Nat, NEW selected \in Selections(v, op)
  PROVE  LET choice == Choice(v, op, selected)
             next == op.nextUnspentUtxoIndex + Cardinality(selected)
             fee == TxFee(Cardinality(selected), IF choice.change > 0 THEN 2 ELSE 1)
         IN  /\ choice.change \in Nat /\ choice.dust \in Nat
             /\ fee \in Nat /\ choice.fee = choice.dust + fee
             /\ Value(op.utxos, selected) = v + choice.change + choice.dust
             /\ selected \in SUBSET Nat
             /\ next \in Nat /\ next <= Len(op.utxos)
             /\ op.dogeAvailableBalance =
                  (v + choice.change + choice.dust)
                    + Value(op.utxos, next + 1 .. Len(op.utxos))
             /\ Value(op.utxos, next + 1 .. Len(op.utxos)) \in Nat
<1> DEFINE u == op.utxos
<1> DEFINE m == op.nextUnspentUtxoIndex
<1> DEFINE choice == Choice(v, op, selected)
<1> DEFINE c == Cardinality(selected)
<1> DEFINE fee == TxFee(c, IF choice.change > 0 THEN 2 ELSE 1)
<1> DEFINE held == Value(u, selected)
<1>1. u \in Outputs /\ m \in Nat /\ Len(u) \in Nat
  BY OperatorType
<1>2. PICK n \in m + 1 .. Len(u) :
        selected = m + 1 .. n /\ Value(u, m + 1 .. n) >= v
  BY DEF Selections
<1>3. c = n - m /\ n \in Nat /\ selected \in SUBSET (1 .. Len(u))
  <2>1. n \in Nat /\ m + 1 <= n /\ n <= Len(u) /\ m + 1 \in Int
    BY <1>1, <1>2
  <2>2. Cardinality(m + 1 .. n) = (n - (m + 1)) + 1
    BY <2>1, FS_Interval
  <2> HIDE DEF m
  <2> QED
    BY <1>1, <1>2, <2>1, <2>2
<1>4. held \in Nat /\ held >= v
  BY <1>1, <1>2, <1>3, ValueType
<1>5. DOGE_DUST \in Nat
  BY FeesAssumption
<1> DEFINE rest == held - v
<1> DEFINE dust == IF rest < DOGE_DUST THEN rest ELSE 0
<1> DEFINE change == rest - dust
<1>6. /\ choice.dust = dust /\ choice.change = change
      /\ choice.fee = dust + TxFee(c, IF change > 0 THEN 2 ELSE 1)
  BY DEF Choice
<1> HIDE DEF held
<1>7. dust \in Nat /\ change \in Nat /\ held = v + change + dust
  BY <1>4, <1>5
<1> HIDE DEF choice, dust, change, c
<1>8. fee \in Nat /\ choice.fee = choice.dust + fee
  <2>1. c \in Nat
    BY <1>1, <1>2, <1>3
  <2>2. (IF choice.change > 0 THEN 2 ELSE 1) \in Nat
    OBVIOUS
  <2> QED
    BY <1>6, <2>1, <2>2, TxFeeType
<1>9. m + c = n
  BY <1>1, <1>3
<1>10. Value(u, m + 1 .. Len(u)) = Value(u, m + 1 .. n) + Value(u, n + 1 .. Len(u))
       /\ Value(u, n + 1 .. Len(u)) \in Nat
  <2>1. m <= n /\ n <= Len(u) /\ (n + 1 .. Len(u)) \in SUBSET (1 .. Len(u))
    BY <1>1, <1>2, <1>3
  <2>2. Value(u, n + 1 .. Len(u)) \in Nat
    BY <1>1, <2>1, ValueType
  <2>3. Value(u, m + 1 .. Len(u)) = Value(u, m + 1 .. n) + Value(u, n + 1 .. Len(u))
    BY <1>1, <1>3, <2>1, ValueSplit
  <2> QED
    BY <2>2, <2>3
<1>11. selected \in SUBSET Nat /\ n <= Len(u)
  BY <1>1, <1>2, <1>3
<1> HIDE DEF fee, u, m
<1> QED
  BY <1>2, <1>3, <1>6, <1>7, <1>8, <1>9, <1>10, <1>11 DEF choice, c, fee, held, u, m

\* A request takes the value of its dogecoins and the dust from the supply, and
\* what it says is covered by the outputs it selects.
LEMMA DoUnlockStep ==
  ASSUME IInv, NEW a \in Accounts, NEW k \in Operators, NEW v \in UnlockValues,
         DoUnlock(a, k, v)
  PROVE  Kept
<1> DEFINE old == operators[k]
<1> DEFINE e == old.ethAddress
<1> DEFINE fee == Fee(v, OPERATOR_UNLOCK_FEE)
<1> DEFINE w == v - fee
<1>1. PICK selected \in Selections(w, old) :
        LET choice == Choice(w, old, selected)
            taken == [balances EXCEPT ![a] = @ - v]
        IN  /\ w > choice.fee
            /\ fee >= choice.dust
            /\ balances' = [taken EXCEPT ![e] = @ + fee - choice.dust]
            /\ totalSupply' = totalSupply - w - choice.dust
            /\ unlocks' = Append(unlocks,
                 [valueToUser |-> w - choice.fee,
                  operatorChange |-> choice.change, timestamp |-> now,
                  superblockHeight |-> chainHeight,
                  selectedUtxos |-> selected, operatorPublicKeyHash |-> k,
                  completed |-> FALSE])
            /\ operators' = [operators EXCEPT
                 ![k].dogeAvailableBalance = @ - w - choice.change - choice.dust,
                 ![k].dogePendingBalance = @ + choice.change,
                 ![k].nextUnspentUtxoIndex = @ + Cardinality(selected)]
  BY DEF DoUnlock
<1> DEFINE choice == Choice(w, old, selected)
<1> DEFINE c == choice.change
<1> DEFINE d == choice.dust
<1> DEFINE t == TxFee(Cardinality(selected), IF c > 0 THEN 2 ELSE 1)
<1> DEFINE next == old.nextUnspentUtxoIndex + Cardinality(selected)
<1> DEFINE available == old.dogeAvailableBalance - w - c - d
<1> DEFINE pending == old.dogePendingBalance + c
<1> DEFINE op == [old EXCEPT !.dogeAvailableBalance = available,
                             !.dogePendingBalance = pending,
                             !.nextUnspentUtxoIndex = next]
<1> DEFINE x == [valueToUser |-> w - choice.fee, operatorChange |-> c,
                 timestamp |-> now, superblockHeight |-> chainHeight,
                 selectedUtxos |-> selected, operatorPublicKeyHash |-> k,
                 completed |-> FALSE]
<1>2. operators' = [operators EXCEPT ![k] = op]
  BY <1>1
<1>3. unlocks' = Append(unlocks, x)
  BY <1>1
<1>4. v \in Nat /\ fee \in Nat /\ w \in Nat /\ fee + w = v
  <2>1. v \in Nat
    BY InputsAssumption
  <2>2. fee \in 0 .. v
    <3>1. OPERATOR_UNLOCK_FEE \in Nat /\ OPERATOR_UNLOCK_FEE <= DOGETHEREUM_FEE_FRACTION
      BY FeesAssumption
    <3> QED
      BY <2>1, <3>1, FeeFits
  <2> HIDE DEF fee
  <2> QED
    BY <2>1, <2>2
<1> HIDE DEF w
<1>5. /\ Sound(old) /\ old \in Operator /\ e \in Accounts
      /\ old.auction.status = "Uninitialized"
  <2>1. old \in Operator
    BY DEF IInv, TypeOK
  <2> QED
    BY <2>1, AllSound, OperatorType
    DEF DoUnlock, isActive, isRegistered, auctionIsInexistent
<1>6. /\ c \in Nat /\ d \in Nat /\ t \in Nat /\ choice.fee = d + t
      /\ Value(old.utxos, selected) = w + c + d
      /\ selected \in SUBSET Nat
      /\ next \in Nat /\ next <= Len(old.utxos)
      /\ old.dogeAvailableBalance =
           (w + c + d) + Value(old.utxos, next + 1 .. Len(old.utxos))
      /\ Value(old.utxos, next + 1 .. Len(old.utxos)) \in Nat
  <2>1. /\ old.nextUnspentUtxoIndex <= Len(old.utxos)
        /\ old.dogeAvailableBalance =
             Value(old.utxos, old.nextUnspentUtxoIndex + 1 .. Len(old.utxos))
    BY <1>5 DEF Sound
  <2> HIDE DEF old
  <2> QED
    BY <1>4, <1>5, <2>1, Selection
<1>7. w > choice.fee /\ fee >= d /\ totalSupply' = totalSupply - w - d
      /\ balances' = [[balances EXCEPT ![a] = @ - v] EXCEPT ![e] = @ + fee - d]
  BY <1>1
<1>8. /\ available \in Nat /\ pending \in Nat
      /\ available = Value(old.utxos, next + 1 .. Len(old.utxos))
      /\ (available + pending)
           - (old.dogeAvailableBalance + old.dogePendingBalance) = -w - d
      /\ old.dogeAvailableBalance \in Nat /\ old.dogePendingBalance \in Nat
      /\ old.utxos \in Outputs /\ old.auction \in Auction
  <2>1. /\ old.dogeAvailableBalance \in Nat /\ old.dogePendingBalance \in Nat
        /\ old.utxos \in Outputs /\ old.auction \in Auction
    BY <1>5, OperatorType
  <2> DEFINE r == Value(old.utxos, next + 1 .. Len(old.utxos))
  <2>2. /\ old.dogeAvailableBalance = (w + c + d) + r /\ r \in Nat
        /\ c \in Nat /\ d \in Nat /\ w \in Nat
    BY <1>4, <1>6
  <2> HIDE DEF r, c, d
  <2>3. available = r
    BY <2>2
  <2>4. pending \in Nat
    BY <2>1, <2>2
  <2>5. (available + pending)
           - (old.dogeAvailableBalance + old.dogePendingBalance) = -w - d
    BY <2>1, <2>2
  <2> QED
    BY <2>1, <2>2, <2>3, <2>4, <2>5 DEF r
<1>9. /\ x \in Unlock /\ ~x.completed /\ x.operatorPublicKeyHash = k
      /\ x.operatorChange = c /\ x.selectedUtxos = selected
      /\ x.valueToUser = w - choice.fee /\ x.valueToUser > 0
  <2>1. w - choice.fee \in Nat /\ w - choice.fee > 0
    <3>1. choice.fee \in Nat
      BY <1>6
    <3> HIDE DEF choice
    <3> QED
      BY <1>4, <1>7, <3>1
  <2>2. now \in Nat /\ chainHeight \in Nat
    BY InputsAssumption DEF IInv, TypeOK
  <2> HIDE DEF choice
  <2> QED
    BY <1>6, <2>1, <2>2 DEF Unlock
<1> HIDE DEF choice, t, next, available, pending, x
<1>10. /\ op \in Operator
       /\ op.dogeAvailableBalance = available /\ op.dogePendingBalance = pending
       /\ op.nextUnspentUtxoIndex = next
       /\ op.utxos = old.utxos /\ op.auction = old.auction
  <2> HIDE DEF old
  <2> QED
    BY <1>5, <1>6, <1>8 DEF Operator
<1> HIDE DEF op
<1>11. Sound(op)
  BY <1>5, <1>6, <1>8, <1>10 DEF Sound
<1>12. DogesOf(op) - Doges(k) = -w - d /\ BidOf(op) = 0 /\ HeldBid(k) = 0
  <2>1. DogesOf(op) = available + pending
        /\ Doges(k) = old.dogeAvailableBalance + old.dogePendingBalance
    BY <1>10 DEF DogesOf, Doges
  <2>2. BidOf(op) = 0 /\ HeldBid(k) = 0
    BY <1>5, <1>10 DEF BidOf, HeldBid, auctionIsOpen
  <2> QED
    BY <1>8, <2>1, <2>2
<1>13. balances \in [Accounts -> Nat] /\ balances[a] >= v /\ totalSupply \in Nat
  BY DEF DoUnlock, IInv, TypeOK
<1> HIDE DEF fee, old, c, d, e
<1> DEFINE taken == [balances EXCEPT ![a] = balances[a] - v]
<1> DEFINE paid == [taken EXCEPT ![e] = taken[e] + fee - d]
<1>14. taken \in [Accounts -> Nat] /\ paid \in [Accounts -> Nat] /\ balances' = paid
  <2>1. taken \in [Accounts -> Nat]
    BY <1>4, <1>13
  <2>2. balances' = paid
    BY <1>7
  <2> HIDE DEF taken
  <2>3. taken[e] + fee - d \in Nat
    BY <1>4, <1>5, <1>6, <1>7, <2>1
  <2> QED
    BY <2>1, <2>2, <2>3
<1>15. SumFunction(taken) = SumFunction(balances) - v /\ SumFunction(balances) \in Int
  <2>1. /\ balances \in [Accounts -> Int] /\ balances[a] - v \in Int
        /\ (balances[a] - v) - balances[a] = -v
    BY <1>4, <1>13
  <2>2. /\ SumFunction(taken) = SumFunction(balances) + ((balances[a] - v) - balances[a])
        /\ SumFunction(balances) \in Int
    BY <2>1, BalanceUpdate
  <2> HIDE DEF taken
  <2> QED
    BY <1>4, <2>1, <2>2
<1> HIDE DEF taken
<1>16. SumFunction(paid) = SumFunction(taken) + (fee - d)
  <2>1. /\ taken \in [Accounts -> Int] /\ taken[e] + fee - d \in Int
        /\ (taken[e] + fee - d) - taken[e] = fee - d /\ e \in Accounts
    BY <1>4, <1>5, <1>6, <1>14
  <2> DEFINE y == taken[e] + fee - d
  <2> HIDE DEF y
  <2>2. e \in Accounts /\ taken \in [Accounts -> Int] /\ y \in Int
    BY <2>1 DEF y
  <2>3. SumFunction([taken EXCEPT ![e] = y]) = SumFunction(taken) + (y - taken[e])
    BY <2>2, BalanceUpdate
  <2>4. paid = [taken EXCEPT ![e] = y]
    BY DEF y
  <2>5. y - taken[e] = fee - d
    BY <2>1 DEF y
  <2> HIDE DEF paid
  <2> QED
    BY <2>3, <2>4, <2>5
<1> HIDE DEF paid
<1>17. SumFunction(balances') - SumFunction(balances) = -w - d
  <2>1. /\ SumFunction(balances') = (SumFunction(balances) - v) + (fee - d)
        /\ SumFunction(balances) \in Int /\ v = fee + w
        /\ v \in Nat /\ fee \in Nat /\ w \in Nat /\ d \in Nat
    BY <1>4, <1>6, <1>14, <1>15, <1>16
  <2> DEFINE s == SumFunction(balances)
  <2> HIDE DEF s
  <2>2. (s \in Int /\ v = fee + w) => ((s - v) + (fee - d)) - s = -w - d
    BY <2>1
  <2> QED
    BY <2>1, <2>2 DEF s
<1>18. /\ SumFunction(balances') - SumFunction(balances) + (BidOf(op) - HeldBid(k))
            = totalSupply' - totalSupply
       /\ DogesOf(op) - Doges(k) = totalSupply' - totalSupply
  <2>1. totalSupply' - totalSupply = -w - d /\ -w - d \in Int
    BY <1>4, <1>6, <1>7, <1>13
  <2> QED
    BY <1>12, <1>17, <2>1
<1>19. totalSupply' \in Nat
  <2>1. operators' \in [Operators -> Operator] /\ TypeOK
    BY <1>2, <1>10, UpdateOperator DEF IInv
  <2>2. /\ HeldBids' = HeldBids + (BidOf(op) - HeldBid(k)) /\ HeldBids \in Nat
    BY <1>2, <1>10, <2>1, OperatorSums
  <2>3. Held <= totalSupply /\ Held = SumFunction(balances) + HeldBids
    BY DEF IInv, Held
  <2>4. SumFunction(balances') \in Nat
    <3>1. balances' \in [Accounts -> Nat]
      BY <1>14
    <3>2. IsFiniteSet(Accounts) /\ DOMAIN balances' = Accounts
          /\ \A z \in Accounts : balances'[z] \in Nat
      BY <3>1, FiniteAssumption
    <3> QED
      BY <3>2, SumNat DEF SumFunction
  <2> DEFINE p == SumFunction(balances)
  <2> DEFINE q == SumFunction(balances')
  <2>5. q - p = -w - d /\ p \in Int /\ q \in Nat /\ p + HeldBids <= totalSupply
        /\ totalSupply' = totalSupply - w - d /\ HeldBids \in Nat
        /\ w \in Nat /\ d \in Nat /\ totalSupply \in Nat
    BY <1>4, <1>6, <1>7, <1>13, <1>15, <1>17, <2>2, <2>3, <2>4
  <2> HIDE DEF p, q
  <2> QED
    BY <2>5
<1>20. unlocks' \in Seq(Unlock)
       /\ \A l : ChangeIn(unlocks', l) =
            ChangeIn(unlocks, l) + (IF l = k THEN c ELSE 0)
  <2>1. unlocks \in Seq(Unlock)
    BY DEF IInv, TypeOK
  <2> SUFFICES ASSUME NEW l
               PROVE  /\ unlocks' \in Seq(Unlock)
                      /\ ChangeIn(unlocks', l) =
                           ChangeIn(unlocks, l) + (IF l = k THEN c ELSE 0)
    OBVIOUS
  <2>2. /\ Append(unlocks, x) \in Seq(Unlock)
        /\ ChangeIn(Append(unlocks, x), l) =
             ChangeIn(unlocks, l) + (IF x.operatorPublicKeyHash = l
                                       THEN x.operatorChange ELSE 0)
    BY <1>9, <2>1, AwaitedAppend
  <2> QED
    BY <1>3, <1>9, <2>2
<1>21. OthersTyped'
  BY <1>14, <1>19, <1>20 DEF OthersTyped, DoUnlock, IInv, TypeOK, worldVars
<1>22. IInv' /\ SupplyKept /\ BackingKept
  <2>1. dogeTxHashesAlreadyProcessed \subseteq dogeTxHashesAlreadyProcessed'
    BY DEF DoUnlock
  <2>2. Fresh(k, op.utxos)
    BY <1>10, <2>1, SameOutputs DEF old
  <2>3. op.auction.status # "Closed" \/ HeldBid(k) = 0
    BY <1>12
  <2> QED
    BY <1>2, <1>11, <1>18, <1>21, <2>1, <2>2, <2>3, MoveStep
<1>23. /\ operators'[k] = op
       /\ \A l \in Operators : l # k => operators'[l] = operators[l]
  BY <1>2, <1>10, UpdateOperator DEF IInv
<1>24. PendingKept
  <2>1. ASSUME NEW l \in Operators
        PROVE  operators'[l].dogePendingBalance - AwaitedChange(l)' =
                 operators[l].dogePendingBalance - AwaitedChange(l)
    <3>1. /\ AwaitedChange(l) = ChangeIn(unlocks, l)
          /\ AwaitedChange(l)' = ChangeIn(unlocks', l)
      BY AwaitedChangeIn
    <3>2. ChangeIn(unlocks, l) \in Nat /\ operators[l].dogePendingBalance \in Nat
      BY AwaitedSum, OperatorType DEF IInv, TypeOK
    <3>3. ChangeIn(unlocks', l) = ChangeIn(unlocks, l) + (IF l = k THEN c ELSE 0)
      BY <1>20
    <3>4. operators'[l].dogePendingBalance =
            operators[l].dogePendingBalance + (IF l = k THEN c ELSE 0)
      <4>1. CASE l = k
        BY <1>10, <1>23, <4>1 DEF old, pending
      <4>2. CASE l # k
        BY <1>23, <3>2, <4>2
      <4> QED
        BY <4>1, <4>2
    <3>5. (IF l = k THEN c ELSE 0) \in Nat
      BY <1>6
    <3> QED
      BY <3>1, <3>2, <3>3, <3>4, <3>5
  <2> QED
    BY <2>1 DEF PendingKept
<1>25. FundedKept
  <2>1. unlocks \in Seq(Unlock)
    BY DEF IInv, TypeOK
  <2>2. \A i \in DOMAIN unlocks' \ DOMAIN unlocks : unlocks'[i] = x
    <3>1. /\ DOMAIN unlocks = 1 .. Len(unlocks) /\ Len(unlocks) \in Nat
          /\ DOMAIN unlocks' = 1 .. Len(unlocks) + 1
          /\ unlocks'[Len(unlocks) + 1] = x
      BY <1>3, <1>9, <2>1, AppendProperties, LenProperties
    <3> QED
      BY <3>1
  <2>3. /\ x.valueToUser > 0 /\ operators'[x.operatorPublicKeyHash].utxos = old.utxos
        /\ Value(old.utxos, x.selectedUtxos) >=
             x.valueToUser + x.operatorChange
               + TxFee(Cardinality(x.selectedUtxos),
                       IF x.operatorChange > 0 THEN 2 ELSE 1)
    <3>1. Value(old.utxos, x.selectedUtxos) = w + c + d
          /\ x.operatorChange = c /\ x.valueToUser = w - (d + t)
      BY <1>6, <1>9
    <3>2. TxFee(Cardinality(x.selectedUtxos), IF x.operatorChange > 0 THEN 2 ELSE 1) = t
      BY <1>9 DEF t
    <3>3. w + c + d >= (w - (d + t)) + c + t
      BY <1>4, <1>6
    <3> QED
      BY <1>9, <1>10, <1>23, <3>1, <3>2, <3>3
  <2> QED
    BY <2>2, <2>3 DEF FundedKept
<1> QED
  BY <1>22, <1>24, <1>25 DEF Kept

\* The relay of an unlock's transaction makes its change available again.
LEMMA ProcessUnlockTransactionStep ==
  ASSUME IInv, NEW h \in TxHashes, NEW k \in Operators, NEW i \in DOMAIN unlocks,
         ProcessUnlockTransaction(h, k, i)
  PROVE  Kept
<1> DEFINE old == operators[k]
<1> DEFINE c == unlocks[i].operatorChange
<1> DEFINE x == [value |-> c, txHash |-> h]
<1> DEFINE utxos == Append(old.utxos, x)
<1> DEFINE available == old.dogeAvailableBalance + c
<1> DEFINE pending == old.dogePendingBalance - c
<1> DEFINE credited == [old EXCEPT !.utxos = utxos,
                                   !.dogeAvailableBalance = available,
                                   !.dogePendingBalance = pending]
<1> DEFINE op == IF c = 0 THEN old ELSE credited
<1>1. /\ unlocks \in Seq(Unlock) /\ c \in Nat /\ old \in Operator /\ Sound(old)
      /\ operators \in [Operators -> Operator]
  BY UnlockType, AllSound DEF IInv, TypeOK
<1>2. operators' = [operators EXCEPT ![k] = op] /\ (c # 0 => pending \in Nat)
  <2>1. CASE c = 0
    <3>1. operators' = operators
      BY <2>1 DEF ProcessUnlockTransaction, Credit
    <3>2. op = old
      BY <2>1
    <3> QED
      BY <1>1, <2>1, <3>1, <3>2
  <2>2. CASE c # 0
    <3>1. operators' = [operators EXCEPT ![k] = credited]
          /\ old.dogePendingBalance >= c
      BY <2>2 DEF ProcessUnlockTransaction, Credit
    <3>2. old.dogePendingBalance \in Nat
      BY <1>1, OperatorType
    <3>3. op = credited
      BY <2>2
    <3>4. pending \in Nat
      BY <1>1, <3>1, <3>2
    <3> QED
      BY <3>1, <3>3, <3>4
  <2> QED
    BY <2>1, <2>2
<1>3. dogeTxHashesAlreadyProcessed \subseteq dogeTxHashesAlreadyProcessed'
      /\ dogeTxHashesAlreadyProcessed' \subseteq TxHashes
  BY DEF ProcessUnlockTransaction, transactionPreliminaryChecks, IInv, TypeOK
<1>4. /\ utxos \in Outputs /\ Len(old.utxos) \in Nat
      /\ Len(utxos) = Len(old.utxos) + 1
      /\ old.nextUnspentUtxoIndex \in Nat
      /\ Value(utxos, old.nextUnspentUtxoIndex + 1 .. Len(utxos)) =
           old.dogeAvailableBalance + c
      /\ old.dogeAvailableBalance \in Nat /\ old.dogePendingBalance \in Nat
      /\ old.auction \in Auction
      /\ old.nextUnspentUtxoIndex <= Len(old.utxos)
  <2>1. /\ old.nextUnspentUtxoIndex <= Len(old.utxos)
        /\ old.dogeAvailableBalance =
             Value(old.utxos, old.nextUnspentUtxoIndex + 1 .. Len(old.utxos))
    BY <1>1 DEF Sound
  <2>2. /\ old.utxos \in Outputs
        /\ old.nextUnspentUtxoIndex \in Nat
        /\ old.dogeAvailableBalance \in Nat
        /\ old.dogePendingBalance \in Nat
        /\ old.auction \in Auction
        /\ Len(old.utxos) \in Nat
    BY <1>1, OperatorType
  <2>3. x \in [value : Nat, txHash : TxHashes] /\ x.value = c
    BY <1>1
  <2> HIDE DEF x, old, c
  <2> QED
    BY <2>1, <2>2, <2>3, ValueAppend
<1>5. Fresh(k, utxos)
  BY <1>1, NewOutput DEF ProcessUnlockTransaction
<1>6. Fresh(k, old.utxos)
  BY <1>3, SameOutputs
<1>7. available \in Nat
  BY <1>1, <1>4
<1> HIDE DEF x, utxos
<1>8. c # 0 => /\ credited \in Operator
               /\ credited.utxos = utxos /\ credited.dogeAvailableBalance = available
               /\ credited.dogePendingBalance = pending
               /\ credited.nextUnspentUtxoIndex = old.nextUnspentUtxoIndex
               /\ credited.auction = old.auction
  <2> HIDE DEF available, pending, old, c
  <2> QED
    BY <1>1, <1>2, <1>4, <1>7 DEF Operator, Outputs
<1>9. Sound(op) /\ Fresh(k, op.utxos) /\ op \in Operator /\ op.auction = old.auction
  <2>1. CASE c = 0
    BY <1>1, <1>6, <2>1
  <2>2. CASE c # 0
    <3>1. op = credited
      BY <2>2
    <3> HIDE DEF op, credited
    <3>2. /\ op \in Operator /\ op.utxos = utxos
          /\ op.dogeAvailableBalance = available
          /\ op.nextUnspentUtxoIndex = old.nextUnspentUtxoIndex
          /\ op.auction = old.auction
      BY <1>8, <2>2, <3>1
    <3>3. op.nextUnspentUtxoIndex <= Len(op.utxos)
      BY <1>4, <3>2
    <3>4. /\ old.auction.bestBidder = NoAccount => old.auction.bestBid = 0
          /\ old.auction.status = "Uninitialized" => old.auction.bestBid = 0
      BY <1>1 DEF Sound
    <3> QED
      BY <1>4, <1>5, <3>2, <3>3, <3>4 DEF Sound
  <2> QED
    BY <2>1, <2>2
<1>10. /\ DogesOf(op) - Doges(k) = 0 /\ BidOf(op) = HeldBid(k) /\ HeldBid(k) \in Nat
       /\ op.dogePendingBalance = old.dogePendingBalance - c
       /\ op.auction.status # "Closed" \/ HeldBid(k) = 0
  <2>1. op.dogePendingBalance = old.dogePendingBalance - c
        /\ op.dogeAvailableBalance = old.dogeAvailableBalance + c
    <3>1. CASE c = 0
      BY <1>4, <3>1
    <3>2. CASE c # 0
      BY <1>8, <3>2
    <3> QED
      BY <3>1, <3>2
  <2>2. DogesOf(op) - Doges(k) = 0
    <3>1. DogesOf(op) = (old.dogeAvailableBalance + c) + (old.dogePendingBalance - c)
          /\ Doges(k) = old.dogeAvailableBalance + old.dogePendingBalance
      BY <2>1 DEF DogesOf, Doges
    <3> HIDE DEF op, old
    <3> QED
      BY <1>1, <1>4, <3>1
  <2>3. BidOf(op) = HeldBid(k) /\ HeldBid(k) \in Nat
    <3>1. HeldBid(k) \in Nat
      BY BidIsHeld DEF IInv
    <3> QED
      BY <1>9, <3>1 DEF BidOf, HeldBid
  <2>4. op.auction.status # "Closed" \/ HeldBid(k) = 0
    BY <1>9 DEF HeldBid, auctionIsOpen
  <2> QED
    BY <2>1, <2>2, <2>3, <2>4
<1> HIDE DEF op
<1>11. /\ unlocks' \in Seq(Unlock) /\ DOMAIN unlocks' = DOMAIN unlocks
       /\ \A l : ChangeIn(unlocks', l) =
            ChangeIn(unlocks, l) - (IF i \in AwaitedIn(unlocks, l) THEN c ELSE 0)
  <2>1. unlocks' = [unlocks EXCEPT ![i].completed = TRUE]
    BY DEF ProcessUnlockTransaction
  <2>2. \A l : /\ [unlocks EXCEPT ![i].completed = TRUE] \in Seq(Unlock)
               /\ DOMAIN [unlocks EXCEPT ![i].completed = TRUE] = DOMAIN unlocks
               /\ ChangeIn([unlocks EXCEPT ![i].completed = TRUE], l) =
                    ChangeIn(unlocks, l)
                      - (IF i \in AwaitedIn(unlocks, l) THEN c ELSE 0)
    BY <1>1, AwaitedComplete
  <2> QED
    BY <2>1, <2>2
<1>12. OthersTyped'
  <2>1. spent' \subseteq TxHashes
    BY SpendType DEF ProcessUnlockTransaction
  <2> QED
    BY <1>3, <1>11, <2>1 DEF OthersTyped, ProcessUnlockTransaction, IInv, TypeOK,
                             tokenVars, worldVars
<1>13. IInv' /\ SupplyKept /\ BackingKept
  <2>1. /\ balances' = balances /\ totalSupply' = totalSupply /\ totalSupply \in Nat
        /\ SumFunction(balances) \in Nat
    BY BalancesSum DEF ProcessUnlockTransaction, tokenVars, IInv, TypeOK
  <2>2. totalSupply' - totalSupply = 0
    BY <2>1
  <2>3. SumFunction(balances') - SumFunction(balances) + (BidOf(op) - HeldBid(k))
          = totalSupply' - totalSupply
    BY <1>10, <2>1
  <2>4. DogesOf(op) - Doges(k) = totalSupply' - totalSupply
    BY <1>10, <2>2
  <2>5. op.auction.status # "Closed" \/ HeldBid(k) = 0
    BY <1>10
  <2> QED
    BY <1>2, <1>3, <1>9, <1>12, <2>3, <2>4, <2>5, MoveStep
<1>14. PendingKept
  <2> SUFFICES ASSUME ~Misrelayed, NEW l \in Operators
               PROVE  operators'[l].dogePendingBalance - AwaitedChange(l)' =
                        operators[l].dogePendingBalance - AwaitedChange(l)
    BY DEF PendingKept
  <2>1. ~unlocks[i].completed /\ unlocks[i].operatorPublicKeyHash = k
    BY DEF Misrelayed
  <2>2. i \in AwaitedIn(unlocks, l) <=> l = k
    BY <2>1 DEF AwaitedIn
  <2>3. /\ AwaitedChange(l) = ChangeIn(unlocks, l)
        /\ AwaitedChange(l)' = ChangeIn(unlocks', l)
    BY AwaitedChangeIn
  <2>4. ChangeIn(unlocks, l) \in Nat /\ operators[l].dogePendingBalance \in Nat
    BY <1>1, AwaitedSum, OperatorType
  <2>5. ChangeIn(unlocks', l) = ChangeIn(unlocks, l) - (IF l = k THEN c ELSE 0)
    BY <1>11, <2>2
  <2>6. /\ operators'[k] = op
        /\ \A m \in Operators : m # k => operators'[m] = operators[m]
    BY <1>2, <1>9, UpdateOperator DEF IInv
  <2>7. operators'[l].dogePendingBalance =
          operators[l].dogePendingBalance - (IF l = k THEN c ELSE 0)
    BY <1>10, <2>4, <2>6
  <2> HIDE DEF c
  <2> QED
    BY <1>1, <2>3, <2>4, <2>5, <2>7
<1>15. FundedKept
  BY <1>11 DEF FundedKept
<1> QED
  BY <1>13, <1>14, <1>15 DEF Kept

-----------------------------------------------------------------------------
(* The theorems.                                                           *)

\* Nothing is held at first.
LEMMA InitHolds == Init => IInv
<1> SUFFICES ASSUME Init PROVE IInv
  OBVIOUS
<1>1. NoOperator \in Operator
  <2>1. NoAuction \in Auction /\ <<>> \in Seq([value : Nat, txHash : TxHashes])
    BY DEF NoAuction, Auction
  <2> QED
    BY <2>1 DEF NoOperator, Operator
<1>2. \A k \in Operators : operators[k] = NoOperator
  BY DEF Init
<1>3. TypeOK
  <2>1. operators \in [Operators -> Operator]
    BY <1>1 DEF Init
  <2> QED
    BY <2>1 DEF Init, TypeOK
<1>4. /\ NoOperator.utxos = <<>> /\ NoOperator.auction = NoAuction
      /\ NoOperator.dogeAvailableBalance = 0 /\ NoOperator.nextUnspentUtxoIndex = 0
  BY DEF NoOperator
<1>5. AvailableIsUnspent
  <2>1. Len(NoOperator.utxos) = 0 /\ (0 + 1 .. 0) = {} /\ DOMAIN NoOperator.utxos = {}
    BY <1>4
  <2>2. Value(NoOperator.utxos, 0 + 1 .. 0) = 0
    BY <2>1, ValueNone
  <2>3. UtxosDistinct
    BY <1>2, <2>1 DEF UtxosDistinct
  <2> QED
    BY <1>2, <1>4, <2>1, <2>2, <2>3 DEF AvailableIsUnspent
<1>6. ListedAreProcessed /\ BidsHaveBidders
  BY <1>2, <1>4 DEF ListedAreProcessed, BidsHaveBidders, NoAuction
<1>7. Held <= totalSupply
  <2>1. HeldBids = 0
    <3> DEFINE f == [k \in Operators |-> HeldBid(k)]
    <3>1. \A k \in Operators : f[k] = 0
      BY <1>2, <1>4 DEF HeldBid, NoAuction, auctionIsOpen
    <3>2. HeldBids = SumFunctionOnSet(f, Operators)
      BY DEF HeldBids, SumFunction
    <3> HIDE DEF f
    <3> QED
      BY <3>1, <3>2, FiniteAssumption, SumZero
  <2>2. SumFunction(balances) = 0
    <3>1. DOMAIN balances = Accounts /\ \A z \in Accounts : balances[z] = 0
      BY DEF Init
    <3> QED
      BY <3>1, FiniteAssumption, SumZero DEF SumFunction
  <2> QED
    BY <2>1, <2>2 DEF Held, Init
<1> QED
  BY <1>3, <1>5, <1>6, <1>7 DEF IInv

\* Every step keeps the invariant and what the action properties say.
LEMMA Step == IInv /\ [Next]_vars => Kept
<1> SUFFICES ASSUME IInv, [Next]_vars PROVE Kept
  OBVIOUS
<1>1. ASSUME NEW a \in Accounts, NEW k \in Operators, AddOperator(a, k)
      PROVE  Kept
  BY <1>1, AddOperatorStep
<1>2. ASSUME NEW a \in Accounts, NEW k \in Operators, DeleteOperator(a, k)
      PROVE  Kept
  BY <1>2, DeleteOperatorStep
<1>3. ASSUME NEW a \in Accounts, NEW k \in Operators, NEW n \in EtherAmounts,
             AddOperatorDeposit(a, k, n)
      PROVE  Kept
  BY <1>3, AddOperatorDepositStep
<1>4. ASSUME NEW a \in Accounts, NEW k \in Operators, NEW n \in EtherAmounts,
             WithdrawOperatorDeposit(a, k, n)
      PROVE  Kept
  BY <1>4, WithdrawOperatorDepositStep
<1>5. ASSUME NEW h \in TxHashes, NEW k \in Operators, NEW v \in LockValues,
             NEW a \in Accounts, NEW s \in Accounts,
             ProcessLockTransaction(h, k, v, a, s)
      PROVE  Kept
  BY <1>5, ProcessLockTransactionStep
<1>6. ASSUME NEW h \in TxHashes, NEW k \in Operators, NEW i \in DOMAIN unlocks,
             ProcessUnlockTransaction(h, k, i)
      PROVE  Kept
  BY <1>6, ProcessUnlockTransactionStep
<1>7. ASSUME NEW h \in TxHashes, NEW k \in Operators,
             NEW i \in DOMAIN operators[k].utxos,
             ProcessReportOperatorFreeUtxoSpend(h, k, i)
      PROVE  Kept
  BY <1>7, ProcessReportOperatorFreeUtxoSpendStep
<1>8. ASSUME NEW k \in Operators, NEW i \in DOMAIN unlocks,
             ReportOperatorMissingUnlock(k, i)
      PROVE  Kept
  BY <1>8, ReportOperatorMissingUnlockStep
<1>9. ASSUME NEW k \in Operators, ReportOperatorUnsafeCollateral(k)
      PROVE  Kept
  BY <1>9, ReportOperatorUnsafeCollateralStep
<1>10. ASSUME NEW a \in Accounts, NEW k \in Operators, NEW n \in Bids,
              LiquidationBid(a, k, n)
       PROVE  Kept
  BY <1>10, LiquidationBidStep
<1>11. ASSUME NEW k \in Operators, CloseLiquidationAuction(k)
       PROVE  Kept
  BY <1>11, CloseLiquidationAuctionStep
<1>12. ASSUME NEW a \in Accounts, NEW k \in Operators, NEW v \in UnlockValues,
              DoUnlock(a, k, v)
       PROVE  Kept
  BY <1>12, DoUnlockStep
<1>13. ASSUME NEW a \in Accounts, NEW b \in Accounts, NEW n \in Transfers,
              Transfer(a, b, n)
       PROVE  Kept
  BY <1>13, TransferStep
<1>14. CASE WorldChanges
  BY <1>14, WorldChangesStep
<1>15. CASE UNCHANGED vars
  BY <1>15, StutteringStep
<1> QED
  BY <1>1, <1>2, <1>3, <1>4, <1>5, <1>6, <1>7, <1>8, <1>9, <1>10, <1>11, <1>12,
     <1>13, <1>14, <1>15 DEF Next

\* The invariant holds in every state.
LEMMA Invariance == Spec => []IInv
<1>1. IInv /\ [Next]_vars => IInv'
  BY Step DEF Kept
<1> QED
  BY InitHolds, <1>1, PTL DEF Spec

\* Every variable has its type: no call leaves an account, an operator or the
\* supply below zero, whatever the fees and the values of the calls.
THEOREM TypeCorrect == Spec => []TypeOK
<1>1. IInv => TypeOK
  BY DEF IInv
<1> QED
  BY <1>1, Invariance, PTL

\* The available balance of an operator is what its free outputs hold, each
\* listed once: what DoUnlock compares a request with can be paid.
THEOREM AvailableIsUnspentHolds == Spec => []AvailableIsUnspent
<1>1. IInv => AvailableIsUnspent
  BY DEF IInv
<1> QED
  BY <1>1, Invariance, PTL

\* What accounts own and open auctions hold is no more than the total supply.
THEOREM HeldFitsSupply == Spec => [](Held <= totalSupply)
<1>1. IInv => Held <= totalSupply
  BY DEF IInv
<1> QED
  BY <1>1, Invariance, PTL

\* The supply and what is held of it change together, except where an operator
\* is deleted whose auction holds a bid.
THEOREM SupplyConservedHolds == Spec => SupplyConserved
<1>1. IInv /\ [Next]_vars => [SupplyKept]_vars
  BY Step DEF Kept
<1> QED
  BY <1>1, Invariance, PTL DEF Spec, SupplyConserved, SupplyKept

\* The dogecoins of operators and the supply change together, except for the bids
\* that closed auctions burn.
THEOREM DogesBackTokensHolds == Spec => DogesBackTokens
<1>1. IInv /\ [Next]_vars => [BackingKept]_vars
  BY Step DEF Kept
<1> QED
  BY <1>1, Invariance, PTL DEF Spec, DogesBackTokens, BackingKept

\* The pending balance of an operator and the change it awaits move together, in
\* every step but the relay of an unlock under another operator or once more.
THEOREM PendingIsAwaitedHolds == Spec => PendingIsAwaited
<1>1. IInv /\ [Next]_vars => [PendingKept]_vars
  BY Step DEF Kept
<1> QED
  BY <1>1, Invariance, PTL DEF Spec, PendingIsAwaited, PendingKept

\* The outputs that a new unlock selects hold what it asks the operator to pay.
THEOREM UnlocksAreFundedHolds == Spec => UnlocksAreFunded
<1>1. IInv /\ [Next]_vars => [FundedKept]_vars
  BY Step DEF Kept
<1> QED
  BY <1>1, Invariance, PTL DEF Spec, UnlocksAreFunded, FundedKept
=============================================================================
