------------------------------- MODULE DogeToken -------------------------------
(***************************************************************************)
(* contracts/token/DogeToken.sol, with StandardToken.sol, EtherAuction.sol *)
(* and Set.sol: tokens minted for dogecoins locked with an operator, burnt *)
(* for dogecoins an operator is told to pay, and the liquidation of an     *)
(* operator's ether.  Each action is one transaction that does not revert. *)
(*                                                                         *)
(* A Dogecoin transaction is relayed by DogeSuperblocks once it is in a    *)
(* superblock of the main chain.  What it holds is chosen when it is       *)
(* relayed; its hash stands for its one output that matters, to the        *)
(* operator.  Dogecoin lets an output be spent once (spent).               *)
(***************************************************************************)
EXTENDS Integers, Sequences, FiniteSets, Functions

CONSTANTS
  Operators,                 \* public key hashes of operators
  Accounts, NoAccount,       \* Ethereum addresses; the address 0
  TxHashes,                  \* hashes of Dogecoin transactions
  MIN_LOCK_VALUE, OPERATOR_LOCK_FEE, SUPERBLOCK_SUBMITTER_LOCK_FEE,
  MIN_UNLOCK_VALUE, OPERATOR_UNLOCK_FEE, DOGETHEREUM_FEE_FRACTION,
  DOGE_TX_FEE_RATE, DOGE_DUST,
  DOGE_TX_INPUT_SIZE, DOGE_TX_OUTPUT_SIZE, DOGE_TX_FIXED_SIZE,
  DOGETHEREUM_COLLATERAL_RATIO_FRACTION,
  lockCollateralRatio, liquidationThreshold,
  ethereumTimeGracePeriod, superblocksHeightGracePeriod,
  auctionMinimumDuration,
  LockValues, UnlockValues, Transfers, Bids, EtherAmounts,  \* arguments of calls
  Prices,                    \* ether for one dogecoin, by the oracles
  Heights,                   \* heights of the superblock chain
  MaxTime, MaxEther, MaxKeys, MaxUnlocks   \* bounds

ASSUME FeesAssumption ==
  /\ {OPERATOR_LOCK_FEE, SUPERBLOCK_SUBMITTER_LOCK_FEE, OPERATOR_UNLOCK_FEE,
      DOGE_TX_FEE_RATE, DOGE_DUST, DOGE_TX_INPUT_SIZE, DOGE_TX_OUTPUT_SIZE,
      DOGE_TX_FIXED_SIZE, MIN_LOCK_VALUE, MIN_UNLOCK_VALUE} \subseteq Nat
  /\ DOGETHEREUM_FEE_FRACTION \in Nat \ {0}
  /\ OPERATOR_LOCK_FEE + SUPERBLOCK_SUBMITTER_LOCK_FEE <= DOGETHEREUM_FEE_FRACTION
  /\ OPERATOR_UNLOCK_FEE <= DOGETHEREUM_FEE_FRACTION
\* "If the operator change is dust, the following equation must hold"
\* (DogeToken.sol:28).
ASSUME DustAssumption ==
  DOGE_DUST * DOGETHEREUM_FEE_FRACTION < MIN_UNLOCK_VALUE * OPERATOR_UNLOCK_FEE
ASSUME RatiosAssumption ==
  /\ lockCollateralRatio > liquidationThreshold
  /\ liquidationThreshold > DOGETHEREUM_COLLATERAL_RATIO_FRACTION
  /\ ethereumTimeGracePeriod > 0 /\ superblocksHeightGracePeriod > 0
  /\ auctionMinimumDuration \in Nat
ASSUME InputsAssumption ==
  /\ NoAccount \notin Accounts
  /\ LockValues \cup UnlockValues \cup Transfers \cup Bids \cup EtherAmounts \subseteq Nat
  /\ Prices \subseteq Nat \ {0} /\ Heights \subseteq Nat

\* Addresses and public key hashes are words of 20 bytes.
ASSUME FiniteAssumption == IsFiniteSet(Accounts) /\ IsFiniteSet(Operators)

VARIABLES
  operators,      \* public key hash -> operator
  operatorKeys,   \* every key ever added, in order
  unlocks,        \* unlock requests, in order
  dogeTxHashesAlreadyProcessed,
  balances, totalSupply,       \* tokens
  spent,          \* utxos spent by the Dogecoin transactions relayed
  price,          \* dogeEthPrice()
  chainHeight,    \* superblocks.getChainHeight()
  now             \* block.timestamp

INSTANCE EtherAuction WITH Bidders <- Accounts, NoBidder <- NoAccount

tokenVars == <<balances, totalSupply>>
worldVars == <<price, chainHeight, now>>
vars == <<operators, operatorKeys, unlocks, dogeTxHashesAlreadyProcessed,
          tokenVars, spent, worldVars>>

Operator ==
  [ethAddress : Accounts \cup {NoAccount}, dogeAvailableBalance : Nat,
   dogePendingBalance : Nat, utxos : Seq([value : Nat, txHash : TxHashes]),
   nextUnspentUtxoIndex : Nat, ethBalance : Nat, operatorKeyIndex : Nat,
   auction : Auction]

NoOperator ==
  [ethAddress |-> NoAccount, dogeAvailableBalance |-> 0, dogePendingBalance |-> 0,
   utxos |-> <<>>, nextUnspentUtxoIndex |-> 0, ethBalance |-> 0,
   operatorKeyIndex |-> 0, auction |-> NoAuction]

\* The user and its Dogecoin address are left out: the transaction of an unlock
\* pays whom it should.  selectedUtxos holds indexes from 1.
Unlock ==
  [valueToUser : Nat, operatorChange : Nat, timestamp : Nat,
   superblockHeight : Nat, selectedUtxos : SUBSET Nat,
   operatorPublicKeyHash : Operators, completed : BOOLEAN]

isRegistered(k) == operators[k].ethAddress # NoAccount
isActive(k) == isRegistered(k) /\ auctionIsInexistent(operators[k].auction)
Doges(k) == operators[k].dogeAvailableBalance + operators[k].dogePendingBalance
Value(utxos, S) == SumFunction([i \in S |-> utxos[i].value])

-----------------------------------------------------------------------------
Init ==
  /\ operators = [k \in Operators |-> NoOperator]
  /\ operatorKeys = <<>>
  /\ unlocks = <<>>
  /\ dogeTxHashesAlreadyProcessed = {}
  /\ balances = [a \in Accounts |-> 0]
  /\ totalSupply = 0
  /\ spent = {}
  /\ price \in Prices
  /\ chainHeight \in Heights
  /\ now = 0

AddOperator(a, k) ==
  /\ ~isRegistered(k)
  /\ Len(operatorKeys) < MaxKeys
  /\ operatorKeys' = Append(operatorKeys, [key |-> k, deleted |-> FALSE])
  /\ operators' = [operators EXCEPT ![k].ethAddress = a,
                                    ![k].operatorKeyIndex = Len(operatorKeys)]
  /\ UNCHANGED <<unlocks, dogeTxHashesAlreadyProcessed, tokenVars, spent, worldVars>>

\* Its auction and its unlocks are not looked at.
DeleteOperator(a, k) ==
  /\ operators[k].ethAddress = a
  /\ Doges(k) = 0 /\ operators[k].ethBalance = 0
  /\ operatorKeys' =
       [operatorKeys EXCEPT ![operators[k].operatorKeyIndex + 1].deleted = TRUE]
  /\ operators' = [operators EXCEPT ![k] = NoOperator]
  /\ UNCHANGED <<unlocks, dogeTxHashesAlreadyProcessed, tokenVars, spent, worldVars>>

AddOperatorDeposit(a, k, amount) ==
  /\ operators[k].ethAddress = a
  /\ operators[k].ethBalance + amount <= MaxEther
  /\ operators' = [operators EXCEPT ![k].ethBalance = @ + amount]
  /\ UNCHANGED <<operatorKeys, unlocks, dogeTxHashesAlreadyProcessed, tokenVars,
                 spent, worldVars>>

\* Whether the operator is liquidated is not looked at.
WithdrawOperatorDeposit(a, k, amount) ==
  LET rest == operators[k].ethBalance - amount
  IN  /\ operators[k].ethAddress = a
      /\ rest >= 0
      /\ (rest * DOGETHEREUM_COLLATERAL_RATIO_FRACTION) \div price
           >= Doges(k) * lockCollateralRatio
      /\ operators' = [operators EXCEPT ![k].ethBalance = rest]
      /\ UNCHANGED <<operatorKeys, unlocks, dogeTxHashesAlreadyProcessed,
                     tokenVars, spent, worldVars>>

-----------------------------------------------------------------------------
(* Relayed transactions.                                                   *)

\* Mutant: the transaction is not remembered.
transactionPreliminaryChecksForgetful(h) ==
  /\ h \notin dogeTxHashesAlreadyProcessed
  /\ UNCHANGED dogeTxHashesAlreadyProcessed

transactionPreliminaryChecks(h) ==
  /\ h \notin dogeTxHashesAlreadyProcessed
  /\ dogeTxHashesAlreadyProcessed' = dogeTxHashesAlreadyProcessed \cup {h}

Fee(value, points) == (value * points) \div DOGETHEREUM_FEE_FRACTION

\* The tokens of a lock: fees of the operator and of the submitter of the
\* superblock, which may be one account, and the rest to the user.
distributeTokensAfterLock(user, value, operator, submitter) ==
  LET operatorFee == Fee(value, OPERATOR_LOCK_FEE)
      submitterFee == Fee(value, SUPERBLOCK_SUBMITTER_LOCK_FEE)
      minted(a, b, amount) == IF a = b THEN amount ELSE 0
  IN  /\ balances' = [a \in Accounts |->
                        balances[a] + minted(a, operator, operatorFee)
                                    + minted(a, submitter, submitterFee)
                                    + minted(a, user, value - operatorFee - submitterFee)]
      /\ totalSupply' = totalSupply + value

ProcessLockTransaction(h, k, value, user, submitter) ==
  /\ transactionPreliminaryChecks(h)
  /\ isActive(k)
  /\ value >= MIN_LOCK_VALUE
  /\ operators' = [operators EXCEPT
                     ![k].utxos = Append(@, [value |-> value, txHash |-> h]),
                     ![k].dogeAvailableBalance = @ + value]
  /\ distributeTokensAfterLock(user, value, operators[k].ethAddress, submitter)
  /\ UNCHANGED <<operatorKeys, unlocks, spent, worldVars>>

\* A Dogecoin transaction spends these utxos of the operator.
SpendUtxos(k, S) ==
  /\ S \subseteq DOMAIN operators[k].utxos
  /\ LET hashes == {operators[k].utxos[i].txHash : i \in S}
     IN  /\ hashes \cap spent = {}
         /\ spent' = spent \cup hashes

\* Mutants: the change is not credited; it stays pending.
CreditUncounted(k, change, h) ==
  IF change = 0 THEN UNCHANGED operators
  ELSE /\ operators[k].dogePendingBalance >= change
       /\ operators' = [operators EXCEPT
                          ![k].utxos = Append(@, [value |-> change, txHash |-> h]),
                          ![k].dogePendingBalance = @ - change]

CreditPending(k, change, h) ==
  IF change = 0 THEN UNCHANGED operators
  ELSE operators' = [operators EXCEPT
                       ![k].utxos = Append(@, [value |-> change, txHash |-> h]),
                       ![k].dogeAvailableBalance = @ + change]

\* The change of an unlock becomes a utxo of k.
Credit(k, change, h) ==
  IF change = 0 THEN UNCHANGED operators
  ELSE /\ operators[k].dogePendingBalance >= change
       /\ operators' = [operators EXCEPT
                          ![k].utxos = Append(@, [value |-> change, txHash |-> h]),
                          ![k].dogeAvailableBalance = @ + change,
                          ![k].dogePendingBalance = @ - change]

\* A transaction that spends the selected utxos, as k has them, and pays the
\* user and the operator of unlock i.  The code compares neither k with the
\* operator of the unlock nor whether the unlock was completed before.
ProcessUnlockTransaction(h, k, i) ==
  /\ transactionPreliminaryChecks(h)
  /\ isActive(k)
  /\ SpendUtxos(k, unlocks[i].selectedUtxos)
  /\ Credit(k, unlocks[i].operatorChange, h)
  /\ unlocks' = [unlocks EXCEPT ![i].completed = TRUE]
  /\ UNCHANGED <<operatorKeys, tokenVars, worldVars>>

liquidateOperator(k) ==
  operators' = [operators EXCEPT ![k].auction = auctionOpen(@, now)]

\* A transaction that spends a utxo of k that no unlock has asked for.
ProcessReportOperatorFreeUtxoSpend(h, k, i) ==
  /\ transactionPreliminaryChecks(h)
  /\ isActive(k)
  /\ i > operators[k].nextUnspentUtxoIndex
  /\ SpendUtxos(k, {i})
  /\ liquidateOperator(k)
  /\ UNCHANGED <<operatorKeys, unlocks, tokenVars, worldVars>>

-----------------------------------------------------------------------------
(* Liquidation.                                                            *)

\* Neither whose unlock it is nor whether it is completed is looked at.
ReportOperatorMissingUnlock(k, i) ==
  /\ isActive(k)
  /\ now > unlocks[i].timestamp + ethereumTimeGracePeriod
  /\ chainHeight > unlocks[i].superblockHeight + superblocksHeightGracePeriod
  /\ liquidateOperator(k)
  /\ UNCHANGED <<operatorKeys, unlocks, dogeTxHashesAlreadyProcessed, tokenVars,
                 spent, worldVars>>

ReportOperatorUnsafeCollateral(k) ==
  /\ isActive(k)
  /\ (operators[k].ethBalance * liquidationThreshold) \div price
       < Doges(k) * DOGETHEREUM_COLLATERAL_RATIO_FRACTION
  /\ liquidateOperator(k)
  /\ UNCHANGED <<operatorKeys, unlocks, dogeTxHashesAlreadyProcessed, tokenVars,
                 spent, worldVars>>

\* Mutant: the tokens of the bid are not looked at.
LiquidationBidUnchecked(a, k, amount) ==
  LET auction == operators[k].auction
  IN  /\ isRegistered(k)
      /\ CanBid(auction, amount)
      /\ balances' = BalancesAfterBid(balances, auction, a, amount)
      /\ operators' = [operators EXCEPT ![k].auction = auctionBid(@, a, amount)]
      /\ UNCHANGED <<operatorKeys, unlocks, dogeTxHashesAlreadyProcessed,
                     totalSupply, spent, worldVars>>

LiquidationBid(a, k, amount) ==
  LET auction == operators[k].auction
  IN  /\ isRegistered(k)
      /\ CanBid(auction, amount)
      /\ balances' = BalancesAfterBid(balances, auction, a, amount)
      /\ balances'[a] >= 0
      /\ operators' = [operators EXCEPT ![k].auction = auctionBid(@, a, amount)]
      /\ UNCHANGED <<operatorKeys, unlocks, dogeTxHashesAlreadyProcessed,
                     totalSupply, spent, worldVars>>

\* Mutant: the winning bid is given back.
CloseLiquidationAuctionUnburnt(k) ==
  /\ isRegistered(k)
  /\ CanClose(operators[k].auction, now)
  /\ operators' = [operators EXCEPT ![k].auction = auctionClose(@),
                                    ![k].ethBalance = 0]
  /\ balances' = [balances EXCEPT ![operators[k].auction.bestBidder] =
                                    @ + operators[k].auction.bestBid]
  /\ UNCHANGED <<operatorKeys, unlocks, dogeTxHashesAlreadyProcessed, totalSupply,
                 spent, worldVars>>

\* The winner gets the ether and the tokens of its bid are burnt.
CloseLiquidationAuction(k) ==
  /\ isRegistered(k)
  /\ CanClose(operators[k].auction, now)
  /\ operators' = [operators EXCEPT ![k].auction = auctionClose(@),
                                    ![k].ethBalance = 0]
  /\ totalSupply' = totalSupply - operators[k].auction.bestBid
  /\ UNCHANGED <<operatorKeys, unlocks, dogeTxHashesAlreadyProcessed, balances,
                 spent, worldVars>>

-----------------------------------------------------------------------------
(* Unlocks.                                                                *)

TxFee(inputs, outputs) ==
  DOGE_TX_FEE_RATE * (DOGE_TX_FIXED_SIZE + DOGE_TX_INPUT_SIZE * inputs
                      + DOGE_TX_OUTPUT_SIZE * outputs)

\* Runs of free utxos of the operator that cover the value, none too long.
Selections(value, operator) ==
  LET run(n) == operator.nextUnspentUtxoIndex + 1 .. n
      covers(n) == Value(operator.utxos, run(n)) >= value
  IN  {run(n) : n \in {m \in operator.nextUnspentUtxoIndex + 1 .. Len(operator.utxos) :
                         covers(m) /\ ~covers(m - 1)}}

\* Mutant: the fee does not count the output of the change.
ChoiceOneOutput(value, operator, selected) ==
  LET rest == Value(operator.utxos, selected) - value
      dust == IF rest < DOGE_DUST THEN rest ELSE 0
      change == rest - dust
  IN  [change |-> change, dust |-> dust,
       fee |-> dust + TxFee(Cardinality(selected), 1)]

\* selectUtxosAndFee: what is left over the value is the operator's change or,
\* if it is dust, part of the miner's fee, which the user pays.  DoUnlock takes
\* it from the operator's fee as well.
Choice(value, operator, selected) ==
  LET rest == Value(operator.utxos, selected) - value
      dust == IF rest < DOGE_DUST THEN rest ELSE 0
      change == rest - dust
  IN  [change |-> change, dust |-> dust,
       fee |-> dust + TxFee(Cardinality(selected), IF change > 0 THEN 2 ELSE 1)]

DoUnlock(a, k, value) ==
  LET fee == Fee(value, OPERATOR_UNLOCK_FEE)
      unlockValue == value - fee
  IN  /\ value >= MIN_UNLOCK_VALUE
      /\ balances[a] >= value
      /\ isActive(k)
      /\ operators[k].dogeAvailableBalance >= unlockValue
      /\ Len(unlocks) < MaxUnlocks
      /\ \E selected \in Selections(unlockValue, operators[k]) :
           LET choice == Choice(unlockValue, operators[k], selected)
               taken == [balances EXCEPT ![a] = @ - value]
           IN  /\ unlockValue > choice.fee
               /\ fee >= choice.dust
               /\ balances' = [taken EXCEPT ![operators[k].ethAddress] =
                                              @ + fee - choice.dust]
               /\ totalSupply' = totalSupply - unlockValue - choice.dust
               /\ unlocks' = Append(unlocks,
                    [valueToUser |-> unlockValue - choice.fee,
                     operatorChange |-> choice.change, timestamp |-> now,
                     superblockHeight |-> chainHeight,
                     selectedUtxos |-> selected, operatorPublicKeyHash |-> k,
                     completed |-> FALSE])
               /\ operators' = [operators EXCEPT
                    ![k].dogeAvailableBalance =
                       @ - unlockValue - choice.change - choice.dust,
                    ![k].dogePendingBalance = @ + choice.change,
                    ![k].nextUnspentUtxoIndex = @ + Cardinality(selected)]
      /\ UNCHANGED <<operatorKeys, dogeTxHashesAlreadyProcessed, spent, worldVars>>

\* transfer, and transferFrom with an allowance, which is left out.
Transfer(a, b, amount) ==
  /\ balances[a] >= amount
  /\ LET taken == [balances EXCEPT ![a] = @ - amount]
     IN  balances' = [taken EXCEPT ![b] = @ + amount]
  /\ UNCHANGED <<operators, operatorKeys, unlocks, dogeTxHashesAlreadyProcessed,
                 totalSupply, spent, worldVars>>

\* The oracles, the superblock chain (whose height may fall when a fork with
\* more work is confirmed) and the clock.
WorldChanges ==
  /\ \/ price' \in Prices /\ UNCHANGED <<chainHeight, now>>
     \/ chainHeight' \in Heights /\ UNCHANGED <<price, now>>
     \/ now < MaxTime /\ now' = now + 1 /\ UNCHANGED <<price, chainHeight>>
  /\ UNCHANGED <<operators, operatorKeys, unlocks, dogeTxHashesAlreadyProcessed,
                 tokenVars, spent>>

Next ==
  \/ \E a \in Accounts, k \in Operators : AddOperator(a, k)
  \/ \E a \in Accounts, k \in Operators : DeleteOperator(a, k)
  \/ \E a \in Accounts, k \in Operators, n \in EtherAmounts :
       AddOperatorDeposit(a, k, n)
  \/ \E a \in Accounts, k \in Operators, n \in EtherAmounts :
       WithdrawOperatorDeposit(a, k, n)
  \/ \E h \in TxHashes, k \in Operators, v \in LockValues, a, s \in Accounts :
       ProcessLockTransaction(h, k, v, a, s)
  \/ \E h \in TxHashes, k \in Operators, i \in DOMAIN unlocks :
       ProcessUnlockTransaction(h, k, i)
  \/ \E h \in TxHashes, k \in Operators :
       \E i \in DOMAIN operators[k].utxos :
         ProcessReportOperatorFreeUtxoSpend(h, k, i)
  \/ \E k \in Operators, i \in DOMAIN unlocks : ReportOperatorMissingUnlock(k, i)
  \/ \E k \in Operators : ReportOperatorUnsafeCollateral(k)
  \/ \E a \in Accounts, k \in Operators, n \in Bids : LiquidationBid(a, k, n)
  \/ \E k \in Operators : CloseLiquidationAuction(k)
  \/ \E a \in Accounts, k \in Operators, v \in UnlockValues : DoUnlock(a, k, v)
  \/ \E a, b \in Accounts, n \in Transfers : Transfer(a, b, n)
  \/ WorldChanges

Spec == Init /\ [][Next]_vars

-----------------------------------------------------------------------------
(* Properties                                                              *)

\* Every variable has its type; no balance is below zero.
TypeOK ==
  /\ operators \in [Operators -> Operator]
  /\ operatorKeys \in Seq([key : Operators, deleted : BOOLEAN])
  /\ unlocks \in Seq(Unlock)
  /\ dogeTxHashesAlreadyProcessed \subseteq TxHashes
  /\ balances \in [Accounts -> Nat]
  /\ totalSupply \in Nat
  /\ spent \subseteq TxHashes
  /\ price \in Prices /\ chainHeight \in Heights /\ now \in Nat

\* No Dogecoin output is listed twice, with one operator or with two.
UtxosDistinct ==
  \A k, l \in Operators :
    \A i \in DOMAIN operators[k].utxos, j \in DOMAIN operators[l].utxos :
      operators[k].utxos[i].txHash = operators[l].utxos[j].txHash
        => k = l /\ i = j

\* The available balance of an operator is what its free utxos hold, each of
\* them an output counted once, so a request that fits the balance finds the
\* dogecoins, through any sequence of locks, unlocks, dust, completions, relays
\* of the same transaction, deletions and registrations anew.
AvailableIsUnspent ==
  /\ UtxosDistinct
  /\ \A k \in Operators :
       LET operator == operators[k]
           next == operator.nextUnspentUtxoIndex
       IN  /\ next <= Len(operator.utxos)
           /\ operator.dogeAvailableBalance =
                Value(operator.utxos, next + 1 .. Len(operator.utxos))

HeldBid(k) == IF auctionIsOpen(operators[k].auction)
                THEN operators[k].auction.bestBid ELSE 0
HeldBids == SumFunction([k \in Operators |-> HeldBid(k)])
Held == SumFunction(balances) + HeldBids

\* totalSupply is the "Total amount of tokens" (StandardToken.sol:11): what
\* accounts own and open auctions hold changes with it, never alone, through
\* bids, bids over bids, closures, locks and unlocks.  The one exception is the
\* deletion of an operator whose auction holds a bid: that bid is lost.
SupplyConserved ==
  [][(\A k \in Operators : HeldBid(k) > 0 => operators'[k].ethAddress # NoAccount)
       => totalSupply' - Held' = totalSupply - Held]_vars

Backing == SumFunction([k \in Operators |-> Doges(k)])

\* Auctions that a step closes.
Closing ==
  {k \in Operators : HeldBid(k) > 0 /\ operators'[k].auction.status = "Closed"}

\* "the amount of circulating DogeTokens coincides with the amount of dogecoins
\* locked with operators" (DogeToken.sol:30): only a closed auction, which burns
\* the winning bid for the dogecoins of a liquidated operator, parts the two.
DogesBackTokens ==
  [][Backing' - totalSupply' =
       Backing - totalSupply + SumFunction([k \in Closing |-> HeldBid(k)])]_vars

\* Changes that operator k still has to send to itself.
AwaitedChange(k) ==
  LET awaited == {i \in DOMAIN unlocks :
                    unlocks[i].operatorPublicKeyHash = k /\ ~unlocks[i].completed}
  IN  SumFunction([i \in awaited |-> unlocks[i].operatorChange])

\* The transaction of an unlock relayed under another operator than its own,
\* or once more.
Misrelayed ==
  \E h \in TxHashes, k \in Operators, i \in DOMAIN unlocks :
    /\ unlocks[i].completed \/ unlocks[i].operatorPublicKeyHash # k
    /\ ProcessUnlockTransaction(h, k, i)

\* The pending balance of an operator is the change of its incomplete unlocks:
\* the two move together in every step but those.
PendingIsAwaited ==
  [][~Misrelayed =>
       \A k \in Operators :
         operators'[k].dogePendingBalance - AwaitedChange(k)' =
           operators[k].dogePendingBalance - AwaitedChange(k)]_vars

\* What the selected utxos hold covers the user, the change and the miner's fee
\* for a transaction of that many inputs and outputs, so an operator can obey
\* the request without dogecoins of its own.
UnlocksAreFunded ==
  [][\A i \in DOMAIN unlocks' \ DOMAIN unlocks :
       LET unlock == unlocks'[i]
           utxos == operators'[unlock.operatorPublicKeyHash].utxos
           outputs == IF unlock.operatorChange > 0 THEN 2 ELSE 1
       IN  /\ unlock.valueToUser > 0
           /\ Value(utxos, unlock.selectedUtxos) >=
                unlock.valueToUser + unlock.operatorChange
                  + TxFee(Cardinality(unlock.selectedUtxos), outputs)]_vars
=============================================================================
