# Formal model of Dogethereum

TLA+ modules for the contracts of the Dogethereum bridge and for the programs
that use them (the auction bot, the command line tasks of a challenger, the
deployment scripts), TLC configurations that check them on small instances, and
TLAPS proofs of what matters most for every instance. The reference is the
Solidity source in `contracts/` and the TypeScript source in `auction-bot/`,
`tasks/`, `scripts/` and `deploy/`; a comment at the head of each module names
the files it models, and `PROJECT.json` maps each definition to its lines.

    tlc -workers 2 -config MCClaims.cfg MCClaims     # one run
    tlapm SuperblockClaims_proofs.tla                # the proofs of a module

## 1. The system

Dogethereum lets Ethereum contracts verify Dogecoin transactions. Submitters
propose *superblocks*, each standing for an hour of Dogecoin blocks. Anyone may
challenge one and make its submitter defend it in a *battle*, within which a
scrypt hash may be disputed in a *game* of its own. A superblock that survives
is approved, and transactions are proved against approved superblocks on the
heaviest chain. DogeToken uses such proofs to mint tokens for dogecoins locked
with *operators* and to watch over the operators, whose ether is collateral.

### Components

| component | state | operations |
|---|---|---|
| `DogeSuperblocks` | superblocks by id (status, parent, work, height, skip list), indexes, the best superblock | `initialize`, `propose`, `confirm`, `challenge`, `semiApprove`, `invalidate`, `relayTx`, `verifyTx`, lookups |
| `SuperblockClaims`, `DogeDepositsManager` | a claim per superblock (submitter, queue of challengers, bonds, flags), free deposits | deposits, `proposeSuperblock`, `challengeSuperblock`, `checkClaimFinished`, `confirmClaim`, `rejectClaim`, `sessionDecided`, `bondDeposit` |
| `DogeBattleManager` | sessions (state, list of hashes, counters, who moved last), block infos, scrypt verifications | queries and answers of the parties, `scryptSubmitted`, `scryptVerified`, `scryptFailed`, `verifySuperblock`, `timeout` |
| `ScryptClaims`, `Verifier`, `ScryptVerifier`, `DepositsManager` | scrypt claims (queue, bonds, flags), games (interval, hashes, times), deposits | deposits, `checkScrypt`, `challengeClaim`, `runNextVerificationGame`, `query`, `respond`, `performStepVerification`, `timeout`, `sessionDecided`, `checkClaimSuccessful`, `unbondDeposit` |
| `DogeToken`, `StandardToken`, `Set` | operators (utxos, balances, ether, auction), unlock requests, processed transactions, token balances | operators and their deposits, locks, unlocks, three reports, auction, transfers |
| `EtherAuction` | one auction per operator | open, bid, close |
| `ScryptFramework`, `ScryptRunner` | the scrypt mixing function | pure, not modelled |
| `DogeMessageLibrary` | parsing of headers, transactions, Merkle proofs | pure, not modelled |
| `ECRecovery` | signature recovery | pure, not modelled |
| `auction-bot/` | last block handled, auctions it bid in (a database) | polls the chain, processes events, bids, closes, is restarted |
| `tasks/superblock-cli.ts`, `tasks/battle.ts` | none but where the process is | challenge task (deposit, listen, challenge, drive the battle), status task |
| `deploy/`, `scripts/deployDogethereum.ts`, `scripts/initContracts.ts` | `deployment.json` | create contracts, tell them of one another, write the file, bring into use |
| `tasks/scryptBattle.ts`, the other tasks and scripts | none | one-shot calls and printing; not modelled |

### Interactions

    submitters, challengers
        |                 |                         |
        v                 v                         v
    SuperblockClaims <-> DogeBattleManager <---- ScryptClaims <-> ScryptVerifier
        |   sessions, convictions      scrypt results     games, verdicts
        v
    DogeSuperblocks --- relayTx ---> DogeToken --- EtherAuction
                    <-- heights ----     |
                                      oracles, operators, users

    challenge task ----> SuperblockClaims, DogeBattleManager (events, calls)
    auction bot <------> auctions of DogeToken (events, calls), its database
    deployment scripts -> all contracts, deployment.json -> initContracts

* Every status change of a superblock is a call by `SuperblockClaims`, inside a
  transaction of its own; the two contracts keep their own flags about it.
* `SuperblockClaims` opens a session for the next challenger in the queue;
  `DogeBattleManager` bonds deposits through it while the session lives and ends
  it with `sessionDecided`, which may open the next one.
* `ScryptClaims` calls back `scryptSubmitted` when the submitter puts a hash to
  it and `scryptVerified` or `scryptFailed` when the claim is decided. Meanwhile
  the battle cannot time out.
* `DogeSuperblocks.relayTx` calls DogeToken with a transaction proved against a
  superblock of the main chain; DogeToken reads heights for its grace periods.
* The challenge task reads the chain, waits for events and sends transactions;
  between any two of these, other accounts, and its own, go on.
* The auction bot sees the chain a range of blocks at a time, and remembers it
  in a database that it writes in several steps.
* The scripts send transactions, of which they await some and not others, and
  hand a deployment over in a file.

### What is hard

Transactions of the contracts are atomic, so their concurrency is in the order: parties,
strangers and other contracts call in any order they like, and time passes
between calls. What goes wrong goes wrong over several transactions:

* state kept twice, in two contracts, must agree (claim flags and statuses;
  sessions and claims; games and scrypt claims);
* a call made by another contract at the end of its own work must not revert,
  or that work can never end;
* money is moved by loops over queues and forks that any account may extend;
* timeouts race with late answers, and every wait must have an end;
* indexes, counters and a skip list stand for facts about lists and trees.

The programs around them are not atomic at all:

* whatever was read may be stale at the next await, and a transaction that was
  accepted when it was sent may revert when it is included;
* a process is killed between two steps, and starts again from what it had
  written down by then, or from a file it had half written;
* events come in any order within a range, responses in the very block of the
  query, and scripts run side by side.

`PROJECT.json` ("hazards") has these at their lines, each with the
properties that would catch it.

### What makes each component correct

* *DogeSuperblocks*: approvals are closed under parents and final; the best
  superblock is the heaviest approved one; skip list, main chain and locator
  agree with the parents.
* *SuperblockClaims*: claims, statuses and sessions agree; no result of a battle
  can be refused; every claim is decided; nothing is paid that is not held, and
  nothing stays bonded.
* *DogeBattleManager*: a party loses only for a reason; a party whose turn it is
  can move; the battle ends.
* *ScryptClaims and Verifier*: an honest party that is in time keeps its bond;
  a game that a claim waits for never comes to a halt; bonds are covered,
  whichever game decides which claim.
* *DogeToken*: tokens in circulation, dogecoins with operators, utxos and
  pending changes stay in their relations.
* *Auction bot*: it knows of every auction it leads, whenever it was killed; it
  closes what it wins, and nothing else.
* *Challenge, battle and status tasks*: the battle a task goes on with is its
  own; its queries are not refused as long as its deposit covers them; what is
  shown is what happened.
* *Deployment*: what the file names is complete and stays; a system that was
  initialized works.

## 2. Plan

Modules in the order in which they are written, the most important behaviour of
the system first, and what is left:

| | module | builds on | state |
|---|---|---|---|
| 1 | `SuperblockTree` (abstract), `DogeSuperblocks` | the second implements the first | done; tree, head, skip list and refinement proved |
| 2 | `SuperblockClaims` | `INSTANCE DogeSuperblocks`, and implements its `Spec` | done; statuses, sessions, rejections, money and refinement proved |
| 3 | `DogeBattleManager` | | done; verdicts and moves proved |
| 4 | `EtherAuction`, `DogeToken` | the first as operators in the second | done; relations of tokens, dogecoins, outputs proved |
| 5 | `Verifier`, `ScryptClaims` | the first as operators in the second | done; honest parties' bonds, solvency and the progress of games proved |
| 6 | `AuctionBot` | `EtherAuction` | done; reasons of rows and leads proved |
| 7 | `ChallengeTask` | extends 2 | done; proved |
| 8 | `BattleTask` | extends 3, and implements its `Spec` | done; queries and refinement proved |
| 9 | `Deployment` | | done; what is stored proved |
| 10 | a relay composition: transactions of DogeToken relayed against a moving main chain | 1, 4 | next |
| 11 | battle and scrypt claim composed, instead of each other's environment; the driver of `tasks/scryptBattle.ts` | 3, 5 | next |
| 12 | pure functions of `DogeMessageLibrary` (difficulty adjustment, Merkle root and proofs, variable length integers) against reference definitions | | next |

Abstract specifications worth stating: the tree of final verdicts
(`SuperblockTree`, done); the queue of duels that both `SuperblockClaims` and
`ScryptClaims` implement; a ledger of two currencies that DogeToken implements.

Theorems worth proving: those of section 6, which state every invariant and every
action property that a run checks. What modules 10 to 12 would add: that a
transaction is relayed once only, whatever the main chain does between; that a
battle and the scrypt claims it asks for keep one another's assumptions.

## 3. The modules and the code

**`SuperblockTree`** is what those who verify transactions rely on: each
registered superblock awaits one final verdict, accepted superblocks are accepted
on accepted ones, and the head is an accepted superblock with the most work.

**`DogeSuperblocks`** has the contract's storage under its own names. An id is a
value of `Superblocks` and its data are chosen when it is registered, which
stands for a hash of the data. One action per status transition; since all are
reserved to `SuperblockClaims`, the module lets that contract call any of them at
any time, and module 2 shows which it calls. `ConfirmPath` is the one exception:
it is the loop of `confirmClaim` over several `confirm` calls in one transaction.
Error codes returned instead of a revert change nothing and are no step.

**`SuperblockClaims`** has the storage of the contract, of `DogeSuperblocks`
(instance `SB`), the deposits and the live sessions of the battle manager. An
action is one transaction with all its calls: `ChallengeSuperblock` includes
`challenge` in `DogeSuperblocks` and `runNextBattleSession`; `FailClaim` and
`PassClaim` are the two ways of `checkClaimFinished`; `ConfirmClaim` has both
loops over the descendants; `SessionDecided` includes the next session.
Payments are those of `doPayChallengers` and `doPaySubmitter`, with integer
division and in the order of the queue: `Remaining` and `TotalDeposits` are the
sums its loops compute, `Rewarded` what a challenger that occurs in it is paid.

**`DogeBattleManager`** is one session. Sessions share nothing but deposits: the
challenger bonds part of its deposit in `SuperblockClaims` with each move
(`hasDeposit`, `bondDeposit`), and deposits, withdraws, is paid or bonds elsewhere
at any time (`DepositChanges`). Headers and
hashes appear by what decides: which headers the submitter can answer, and
whether the headers bear the superblock out. `HashLists` are the lists of hashes
that pass the check of the Merkle root; one repeats its last hash, as a Merkle
root of an odd list allows. Ages of messages replace the clock (`idle`).

**`EtherAuction`** and **`Verifier`** are libraries of operators on an auction
and on a game, as the code's are functions on a storage struct.

**`DogeToken`** has the contract's storage. Dogecoin transactions are relayed
with contents chosen at that moment, within what Dogecoin allows: an output is
spent once, and the transaction that fulfils an unlock spends the utxos named by
it. Oracles and the superblock chain are `WorldChanges`. Amounts are scaled down,
with the assumptions of the constructor's and the contract's comments as
`ASSUME`s.

**`ScryptClaims`** is any number of scrypt claims, which share the deposits and the
games. The two contracts trust one another less than their comments say, and the
module has each case: `BeginGame` is a call of `claimComputation` by a stranger,
between any two accounts and about any output; `Timeout` takes the claim that a game
decides from its caller, so a game of one claim may decide another;
`TimeoutElsewhere`, and the second way of `PerformStepVerification`, report to a
contract of the caller's, after which the game is deleted and no claim was told. What
a claim waits for (`Awaited`) may so be over, while the claim still says that it
waits. The result of a step of the computation is a fact of the hashes at its ends
(`StepVerdicts`): from the right state there is no proof of a wrong one. A set of
honest parties, fixed at the start and otherwise arbitrary, plays to win; the
others send any message they can. `isHonest` and `Sensible`, the honest
challenger's strategy, are not code; with them a property can speak of honest
parties at all.

**`AuctionBot`** is the process of `auction-bot/` beside the auctions of
`EtherAuction`. The database has the variables of its two tables; the rest of the
process's variables are memory and are lost when it ends. A step goes from one
await to the next: `Poll` computes the range, `ProcessEvent` handles one event
of it, `SendBid` and `CreateRow` are the two awaits of `bidInAuctions`,
`SendClose` and `DestroyRow` those of `closeAuctions`, `Save` writes the block. A
call that would revert is refused when it is sent, and an error ends the process
(`Fail`), as `cli.ts` has it; `Kill` ends it anywhere. A transaction that was
sent waits in `mempool` and may revert when it is included. Operators are
liquidated once, and blocks are final.

**`ChallengeTask`** extends `SuperblockClaims` with the process of the challenge
task, one await per action: the deposit that is sent and not awaited, the reading
of the best superblock, the reading of a status and the subscription with a gap
between them, the listener as part of the proposal it hears, the challenge that
is sent on one state and included in another, and the battle taken from its
receipt. Everybody else, and the task's own account, goes on with the whole of
`Next`. `Shown` is what the status task prints of a challenger.

**`BattleTask`** extends `DogeBattleManager` with the loop of the challenge task
over one battle: the query of the hashes, then of the headers of the first few,
each sent, included and answered. A response is found only in blocks after that
of the query (`sameBlock`), or not before the driver gives up. The account may
make other moves meanwhile, or use its deposit for something else (`OwnMove`).
`funded` remembers whether the deposit covered all the queries at the beginning; a
driver without it is refused when it runs out.

**`Deployment`** has the scripts as sequences of calls, built by the functions of
`deploy/index.ts` under their names, and processes that send them (`Send`), wait
for some (`awaited`) and are killed. A contract is the set of what it was told;
what is told once is refused the second time, by `initializer` modifiers and the
guards of `setSuperblockClaims`, `initialize` and `addOperator`. Transactions of
one account are included in order, those of two accounts in any. The file is
`Torn` while it is being written.

### What the models take from outside

The identity of the sender (`onlySuperblockClaims` and its like) is the caller
of the action. Reading functions without effect are left out, apart from those
properties are about. Gas, logs and error texts are left out. Addresses may be
anybody's; a submitter may be its own challenger, as in the code.

## 4. The runs

| run | configuration | states | asks |
|---|---|---|---|
| `superblocks` | `MCDogeSuperblocks` | 91 561 | the tree and its skip list |
| `claims` | `MCClaims` | 470 190 | agreement of claims, statuses, sessions; money; confirmations and rejections over forks |
| `claims_live` | `MCClaimsLive` | 130 219 | every claim is decided; the challenge and status tasks beside it |
| `battle` | `MCBattle` | 1 855 882 | verdicts and end of a battle; a driver of it |
| `token` | `MCToken` | 388 859 | relations of tokens, dogecoins, utxos |
| `scrypt` | `MCScrypt` | 671 073 | honest parties keep their bonds, whichever game decides which claim |
| `bot` | `MCBot` | 488 786 | the auction bot, its rivals and its restarts |
| `deploy` | `MCDeploy` | 61 778 | deployments that overlap and are killed |
| `claims_twice`, `claims_self`, `scrypt_stalled`, `bot_replay` | `MCClaimsTwice.cfg`, `MCClaimsSelf.cfg`, `MCScryptStalled.cfg`, `MCBotReplay.cfg` | | findings, section 7 |

What they show:

* `superblocks`: `ApprovedClosed`, `BestIsHeaviest` and the refinement `TreeSpec`
  (which includes that verdicts are final) in every order of calls;
  `SkipListServes`: `getSuperblockAt` finds what a walk over the parents finds, on
  every fork, and the locator is the documented one.
* `claims`: `LifecycleAgrees`, `OneBattleAtATime` and `DecisionNeverFails` relate
  what three contracts store of one claim; `SolventIfDistinct` and
  `ChallengersRefunded` are about the money of lost claims; `SuperblocksSpec`
  says that the claims drive `DogeSuperblocks` as its own module allows.
  `BondsReleased`, `ChallengedNeedsConfirmations` and `RejectionNeedsFork` are about
  `confirmClaim` and `rejectClaim`, which need runs of semi-approved superblocks and
  two forks to matter.
* `claims_live`: `ClaimsDecided` and `FailedIsInvalidated`, although the submitter may
  challenge its own superblock, before, between and after others. Their exception
  (`LostToItself`) is a claim that was lost to its submitter alone, which stays
  undecided for ever: that is what `claims_self` shows. `BattleIsOurs`
  says that the battle a challenge begins is that of its sender, although the
  contract takes the challenger from a queue that others extend; `OutcomesShown`
  that what the status task derives from one reading of a claim follows the
  battles and is never taken back. (It reads the battles after the claim; what it
  shows of a battle beside the outcome may be of a later moment.)
* `battle`: `RightVerdict` (who loses, and why), `ChallengerCanMove`, `BattleEnds`;
  `QueriesAccepted`: a challenger that leaves its moves to the driver, and whose
  deposit covered all the queries when the battle began, is never refused one. A
  driver whose deposit runs out is part of the run, and is refused.
* `token`: `SupplyConserved`, `DogesBackTokens`, `PendingIsAwaited` and
  `UnlocksAreFunded` relate tokens, dogecoins and unlocks; `AvailableIsUnspent`
  says that what an operator has is held in distinct utxos that are unspent.
* `scrypt`: `HonestKeepsBond` is the bisection's promise to both sides. It must
  admit more than the comments would have it: an honest party that is late in any game
  of its own, one that a stranger began in its name included, may lose its bond in any
  claim that waits (the caller of `timeout` names the claim); but in no game that it
  plays in time, and in none of others. `NoImpasse` says that as long as a claim waits
  for a game that is on, someone can move or be convicted, and that the conviction is
  accepted by `ScryptClaims`, whatever other games decided before (a claim may also
  wait for a game that is over, section 7). `Solvent`: bonds are covered all the same.
* `bot`: `LeadIsTracked` (an auction the bot leads has a row, or is still to be
  handled, or its closing is on its way) wherever the process was killed;
  `RowIsJustified` (no auction is closed for others) until it was killed in the
  middle of a poll; `Serves`: as long as no call is refused, the bot handles
  the whole chain, and closes every auction it leads unless it is outbid.
* `deploy`: `StoredIsComplete`: the file is whole only after every contract it
  names knows the others, although the calls that tell them are not awaited.
  `StoredIsKept`: it is not replaced once no other deployment is under way.
  `ComesUp`: deployments and initializations that are not killed end with a
  system that works.

Each property has a mutant of the code (operators marked as such in the modules)
that breaks it under the run's own bounds, so no property holds for want of the
interesting case.

### Bounds, and why they are enough

* *Skip list.* `ANCESTOR_STEP` is 2, not 5, and there are 3 depths: with six
  superblocks two powers of the step are crossed. The contract uses the step
  only by its powers. Statuses other than New and Approved play no part in the
  skip list, so above four superblocks `Scope` drops them. Four superblocks make
  a genesis with forks of one and two above it, in every mix of statuses.
* *Claims.* One run in two scopes, told apart by what is deposited (`ScopedSpec`).
  In any role (`InAnyRole`): three superblocks give a genesis, a claim and its child;
  three accounts a submitter and two challengers, or one in several roles. Two
  challenges per claim make a queue; deposits, bonds and rewards are equal, and
  a battle costs half of one, so that shares do not round to nothing. There are up
  to four deposits, which are withdrawn as long as there is one superblock above the
  genesis. On forks (`InForks`): four superblocks of work 1 or 2 give a genesis and
  forks of two and one, so that a rejection needs what the code asks for; one account
  proposes, another challenges each superblock once, both with four deposits made
  before the first one, and battles cost nothing. The clock stops at 2, past every
  timeout of 0. Superblocks are alike, so `InOrder` fixes the order of their ids.
* *Liveness of claims and the task.* A horizon keeps proposals and challenges
  early enough for the clock, which stops; bonds are unequal there. One account
  proposes, the task signs for one challenger and there is another. The task
  runs once, at time 0, waits for a superblock by its name or for the next one,
  and `InOrder` fixes the order of superblocks that are alike. The others deposit
  once, before the first superblock. The last superblock is challenged once at most,
  and not by its submitter; the other ones by anyone.
* *Battle.* Three headers, of which any set can be answered: first, middle and
  last. Time is counted to the first moment at which a party is late. The driver
  queries up to 4 headers instead of 5, since the lists have 3 and 4; a list that
  is cut short is left out. The query of the hashes costs twice what that of a header
  does; the deposit is 6, exactly what all the driver's queries cost, or 0, and may be
  made either of them at any time, so that between them every sum from 0 to 6 occurs.
* *Token.* Two operators, two accounts, three transactions and two unlocks, with
  one utxo or two and with change, dust or nothing left over. Two operators only lock
  and unlock; one alone is also liquidated, deleted and added again (`Scope`).
  Fees and ratios are scaled to one digit, with values on both sides of each
  threshold.
* *Scrypt.* A computation of four steps instead of 2050: an interval is narrowed
  from either end more than once, and both last-step cases of `query` occur.
  One block is one unit of time, so messages may share a timestamp; a response may take
  one, and a challenge none. Ages stop where only their order matters. There are three
  scopes (`ClaimOfThird`, `ClaimsOfOthers`, `StrangeGame`). One claim, with all
  three accounts in any role but that of its submitter, and any of them honest. Two
  claims of two accounts, one of them honest, which take every role in both; each claim
  is challenged once, games begin in the middle, and of two that are on one goes
  further: what is asked there is which game decides which claim and when. One claim of
  those two accounts and a game that a stranger begins between them, before that of the
  claim (`MaxBegun`) and not narrowed. Four deposits are a bond of each in each
  claim.
* *Bot.* Six blocks, and ranges of at most 2 blocks instead of 17 (an interval of
  1 instead of 16), so that a range is cut by the interval, by the last block, and
  has one block. The starting block is given or not. One auction has rivals that bid
  less, as much and more, and the process is killed once at any await; or two
  auctions open in one block, for which the bot has tokens, with one rival bid and
  no kill, so that one error stands in the way of another auction (`MCBot`).
* *Deployment.* One run of a deployment of each kind (script, fixture, superblock
  chain, with and without the dummy checker), a second that deploys or
  initializes, and a third that initializes (`mayRun`): two deployments overlap,
  two initializations overlap, and any run is killed at any point.

Runs say `CHECK_DEADLOCK FALSE` because the systems stop: clocks, ether and
numbers of superblocks are bounded, a decided battle is over, and scripts end.

## 5. Fairness

* *Claims* (`Fairness`): the clock runs; a live session ends, which is
  `BattleEnds` of the battle, as long as scrypt games end; someone calls
  `checkClaimFinished` when it would succeed. Anyone may call it, and the party
  it pays has a reason to. Nothing is assumed of challengers.
* *Battle* (`Fairness`): the clock runs and someone calls `timeout`, which anyone
  may. No move of a party and no report of `ScryptClaims` is assumed, so
  `BattleEnds` has an exception: a battle may wait for `ScryptClaims` for good.
* *Scrypt* (`FairSpec`): the clock runs, someone calls `timeout` for the claim the
  game was begun for, and the claimant makes the moves it has. Nothing is assumed
  of the challenger.
* *Bot* (`Fairness`): the process goes on and is started again when it ended,
  as under a supervisor; blocks are mined, and what the bot sent is included.
  Nothing is assumed of rivals or of those who liquidate.
* *Deployment* (`Fairness`): a script that was begun goes on, and what was sent is
  included. Nobody has to begin a script; kills are free.
* *Tasks*: none. The challenge task and the driver may stop at any await, and the
  liveness of claims and battles does not depend on them.

All are weak: each of these calls, once possible, stays so until it or another
one that does its work is made.

## 6. Proofs

TLAPS checks these for every value of the constants under the assumptions named
in the modules: null values are outside their types, amounts, times, fees and
heights are natural numbers, the step of the skip list is above one, fees and
ratios are in the order that the comments of the contract give. Where sums are
taken, accounts, operators and superblocks are finitely many, as ids and
addresses are. Nothing bounds how many there are, or amounts, queues and time.

**`DogeSuperblocks_proofs`**: `Invariance`, `TypeCorrect`,
`ApprovedClosedHolds`, `BestIsHeaviestHolds`; `VerdictsAreFinalHolds` and
`BestOnlyImprovesHolds` (the best superblock is left only for strictly more work;
no runs of their own, since `TreeSpec` implies both); `Refinement`: the module
implements `SuperblockTree`; `SkipListServesHolds`.

The inductive invariant adds three facts to the types and the invariants.
`NullIsBlank`: the null id has no data, so a genesis has no parent and reads have
a value. `GenesisFirst`: nothing is registered before something is approved, so
the first superblock is the best. `Rooted`: the parent of a superblock is
registered and one lower, so a walk to the parents ends. The refinement proof has
one step per action; in `ConfirmPath`, a set of superblocks is accepted at once,
and the new head is one of them or the old.

`SkipListServes` is about the walk by powers of the step. The powers are a
recursive function (`getAncDepth`), so what the proof needs of them, that each is
a multiple of the one below, follows from its equation. The invariant (`SlotsServe`)
says for each superblock which ancestor each slot leads to: the highest below it
whose height is one above a multiple of the power. A new superblock takes over
the slots of its parent, or puts the parent into those whose power fits its
height, and so it keeps this; and a walk that takes the longest jump not too far
gets to any height.

**`SuperblockClaims_proofs`** has four parts.

* *Statuses and sessions*: `Invariance`, `LifecycleAgreesHolds`,
  `OneBattleAtATimeHolds`, `DecisionNeverFailsHolds`. None of the three is
  inductive alone: that a decision is accepted needs a flag of the claim to be
  right while a session lives (`OneBattleAtATime`), and that flag needs the status
  (`LifecycleAgrees`) to know that no claim is decided meanwhile. The invariant
  joins them per claim (`Agrees`) and per session (`Fits`), with the missing fact
  that a claim with a live session has lost none. `RejectionNeedsForkHolds` adds
  what `SkipListServes` says of the superblock at a height of the main chain: a
  semi-approved superblock is rejected only if another is there, with enough
  approved ones after it.
* *Refinement*: `SuperblocksRefined`, that every transaction of the claims is a
  step of `DogeSuperblocks` or none. `confirmClaim` is the step that matters: its
  loop over the descendants must be a path of parents, as `ConfirmPath` has it.
  The walk (`Descent`) is a recursive function over ids: the least sets closed
  under parents solve its equation, and since heights fall on the way (`Rooted`),
  a walk of semi-approved superblocks is a path from the descendant to the claim.
  So what the first module proves of the tree holds of the tree that the claims
  drive (instance `SBP`).
* *Money*: `InvHolds`, `TypeCorrect`, `BondsReleasedHolds`,
  `SolventIfDistinctHolds`, `ChallengersRefundedHolds`,
  `ChallengedNeedsConfirmationsHolds`. The invariant `Purse` says of each claim
  that only its submitter and its challengers have bonds in it, and that the queue
  is not served past its end (`Sound`). Each transaction moves a sum from free
  deposits to bonds of one claim or back. Only a lost claim pays out shares, in
  proportion to bonds and rounded down: they are at most the submitter's bond
  together if the queue has no account twice, and this is where
  `SolventIfDistinct` needs its hypothesis. A challenger that queued twice gets
  its bond back all the same. The two verdicts are one lemma (`Verdicts`), which
  the last two theorems read off.
* *The challenge task*: `TaskInvariance`, `BattleIsOursHolds`,
  `OutcomesShownHolds`. To the claims each step of the task is a transaction of
  theirs or none, so the invariant of the claims is kept; beside it, a claim that
  does not exist is blank (`Fresh`), and the task challenges only what it was told
  of and goes on with a battle of its own only (`TaskInv`).

**`DogeBattleManager_proofs`**: `TypeCorrect`, `RightVerdictHolds`;
`DriverFightsBattle`: `BattleTask` implements `DogeBattleManager`, fairness
included. `RightVerdict` needs that headers are counted once each (`Counted`) and
only if they are in the list (`OnlyListed`), so that as many answers as hashes are
all the headers; that a disputed hash belongs to a header that waits for it
(`InDispute`); and that a hash that failed is not forgotten (`FailedIsLost`).

`ChallengerCanMoveHolds` and `QueriesAcceptedHolds` say which calls are accepted.
They speak of the guards of the actions, which are operators with names
(`CanQueryBlockHeader` and so on) that the actions themselves have as conjuncts.
A challenger has a move because its queries are counted once each
(`QueriesCounted`) and lag behind the hashes as long as a header is missing; whose
turn it is follows from the state and two counters (`InTurn`, `InOrder`), and a
battle that nobody lost still has its session (`AliveIsOpen`). The driver's query
is accepted because, while the challenger leaves its moves to it, the state is
the one it expects, whatever came between its steps, and it has asked for exactly
the headers it has counted (`InStep`), and because what is left of its deposit covers
the queries that are left (`Covered`). Both suppose a deposit, since the contract
refuses a move without one: `ChallengerCanMove` at the moment of the move (`CanBond`),
`QueriesAccepted` only at the beginning, for all the queries, and that the account
does nothing else with it. `ChallengerCanMove` also supposes a list that repeats no
hash; section 7 says what a repeated one does. The driver stops at one by itself.

**`DogeToken_proofs`**: `TypeCorrect`, `AvailableIsUnspentHolds`,
`HeldFitsSupply`, `SupplyConservedHolds`, `DogesBackTokensHolds`,
`PendingIsAwaitedHolds`, `UnlocksAreFundedHolds`. That outputs are distinct needs
those of a new transaction to be new (`ListedAreProcessed`); that a burn does not
underflow needs that what is held fits the supply, bids of open auctions
included. The action properties are then arithmetic of fees, action by action;
each changes one operator, and the sums over all change by as much. What is
selected for an unlock is a run of free outputs whose value is the value asked
for, the change and the dust (`Selection`).

**`ScryptClaims_proofs`**: `Invariance`, `SolventHolds`, `HonestKeepsBondHolds`, for any
number of claims and games, begun by anyone and reported anywhere. The invariant
cannot say that a claim and its game go together, since games of others may decide the
claim and its own game may go on or be deleted without it. It says of each game
alone that it can go on (`GoodGame`), and of each claim that waits that its session was
played by its claimant if it is still on (`Waits`). Against an honest challenger the
interval begins with a right state and ends with a wrong one (`Brackets`), and each
message keeps this, so the last step of the interval is one that the submitter cannot
prove; against an honest submitter the hash is right and no step can be refuted. A
stranger's game may give an honest challenger a right output to dispute; then it does
not ask, and so can only be late. The last step is the one verdict whose claim the code
checks, so what is left for every other claim is a timeout, which convicts a party that
is late in the game that ends, whichever claim it is then reported to. Bonds stay
covered because `sessionDecided` moves them within the claim it is given.

`NoImpasseHolds`: the party that is due has a message that is accepted. The middle
of the interval lies within it until there is a single step left (`Shape`), so a
query or an answer fits; who is due has the right to speak (`Turns`); an honest
submitter never gave a hash that it could not stand by (`NeverWrong`). That the one
who waits can convict a party that is late needs a claim that waits to be undecided and
its game, while it is on, to be its claimant's (`Waits`), which no verdict of another
game on this claim, or of this game on another, may disturb.

**`AuctionBot_proofs`**: `TypeCorrect`, `LeadIsTrackedHolds`,
`RowIsJustifiedHolds`. The three reasons of
`LeadIsTracked` hand over to one another: while a range is handled, an opened
auction goes from the log to the pass (`TodoIsOpened`) and then to the rows
(`OpenedIsHandled`), and the database names the range as handled only after that.
An outbid auction is not led again, since all bids of the bot are the same
(`OutbidIsFinal`), and what was sent to close one succeeds or comes too late
(`CloseSucceeds`). The invariant holds these at each await, which is why the
process may be killed at any.

`RowIsJustified` is the converse: until the process ends, a row is there for a
reason. Its theorem has a hypothesis, `FundsSuffice`: the bot has the tokens for a
bid in every auction. Neither the contract nor the program sees to that, and
without it the property is false: of two bids that could both be paid when they
were sent, the second is refused, and its row stays (TLC shows this with two
operators and tokens for one). With it, a bid that is on its way is accepted or
was outbid before. The invariant (`RowInv`) says that an operator is liquidated once
(`OpenedOnce`), that no event still to be handled opens an auction that has a row
(`Fresh`), and of each row, and of the one about to be written, which reason it has
(`RowsBacked`): a bid that leads, a bid on its way, or an event that will drop it.

**`Deployment_proofs`**: `Invariance`, `StoredIsCompleteHolds`, `StoredIsKeptHolds`, for
any number of runs of any scripts. The script of a deployment is a list of
at most twelve calls (`DeployScripts`), all of one account, of which the one before
the last is waited for and no two tell a contract the same
(`LongestIsDeployment`); `initContracts`, test suites and chains call contracts
but never store (`OtherScripts`). From the first follows, wherever a deployment
is (`OnItsWay`), that none of its transactions will be refused (`Fresh`), that
what its contracts must be told was told, is sent or is in its script (`Coming`),
and that, since an account's transactions are included in order, when it
begins to write the file nothing that it sent is left (`Ordered`). So
`setSuperblockClaims`, which `deployMainSystem` does not wait for, has taken
effect by the time the file is there, and only because the token comes after it
and is waited for. That no other run spoils this needs that a run works on the
contracts of another only when that one is over (`Targeted`), which in turn needs
what the file says (`Stored`). The assumption on `Torn` says that it is no run.

**`SumLemmas`** has the sums that these rest on: over finite sets, when one value
changes, when two are added, over a set split in two or in groups. The folds of
the library are recursive, so each fact is shown by a smallest counterexample
(`SmallestSubset`, `LeastNatural`), for which no induction theorem with an
operator parameter is needed.

### Only model-checked

Liveness under fairness (`ClaimsDecided`, `FailedIsInvalidated`, `BattleEnds`, `Serves`,
`ComesUp`) is beyond the prover: its rules need `ENABLED`. Every invariant and every
action property of a run that passes is proved, some under a hypothesis that
the property or the theorem states.

## 7. Findings

Where a comment of the code and the code disagree, a run shows it:

* `claims_twice`: an account that challenges one superblock twice is paid a second
  share that is computed on the first, and the contract owes more than it holds.
* `claims_self`: a submitter that challenges its own superblock and loses leaves a claim
  on which `checkClaimFinished` divides by zero for ever (`SuperblockClaims.sol:574`,
  against the comment at 339): the superblock is never marked as invalid.
* `scrypt_stalled`: after two messages in one block it is nobody's turn, and a
  challenger that stops there cannot be timed out; the battle waits for ever.
* `bot_replay`: a bot that is killed after it sent its bid meets the liquidation
  again when it is started, bids again, is refused, ends, and does so at each
  start: the auction it won stays open. This is why `Serves` is stated of runs
  in which no call is refused.

Statements of comments that the models, which have the code as it is, do not
satisfy either:

* The report of unsafe collateral compares the ratio the wrong way round and
  refuses operators below the threshold (`DogeToken.sol:498`, against 99 and 332).
* The report of a missing unlock looks neither at its completion nor at its
  operator, so one that completed it in time can be liquidated for it
  (`DogeToken.sol:473`, against 466).
* The states of a challenger are said to be identical to those of the contract
  (`superblock-cli.ts:27`), but the enumeration has one more (64), so the contract's
  `SuperblockFailed` is shown as "Superblock verified".

Observations on the contracts that contradict no comment:

* `rejectClaim` of a superblock that nobody challenged pays its bond to no one.
* A claimant of a scrypt claim that loses to itself leaves its bond behind.
* A game that is ended through a contract of the caller's, or against another claim
  (`Verifier.sol:189`, 243), is deleted, and its own claim goes on waiting for a
  verification that is no longer on, against the comment at `ScryptClaims.sol:64`.
  A late party, or a claimant at the last step, can so avoid the verdict; the claim can
  then only be decided by another game (`TimeoutElsewhere`).
* Anyone may begin a game between two accounts (`Verifier.sol:46`, the TODO at
  `ScryptVerifier.sol:18`) and report its timeout to any claim that waits
  (`Verifier.sol:245`), so an honest party must answer games that are not of its
  claims as well (`HonestKeepsBond`).
* A list of hashes that repeats its last hash passes the check of the Merkle root
  and leaves its challenger without a move.
* Dust is charged to the operator's fee and to the user as well.
* An operator without dogecoins can be deleted while its auction holds a bid,
  whose tokens are then nobody's; its ether can be withdrawn during the auction.
* A relayed unlock transaction is compared neither with the operator of the unlock
  nor with its completion.
* The winner of an auction is paid by `transfer`: one that cannot receive ether
  leaves the auction open (`DogeToken.sol:636`).

And on the programs:

* A starting block of 0 is taken for none and becomes the latest block, which is
  then not read itself (`auction-bot/config.ts:81`, `main.ts:91`);
  `numberOfConfirmations` is read from the configuration and not used, so a bid in
  a block that is abandoned later is taken for final.
* After a second pass over a liquidation the bot may keep the row of an auction
  it was outbid in, and close it for the winner (`RowIsJustified`).
* The challenge task deposits once, before it challenges, and by default 1000
  (`superblock-cli.ts:191`), where a challenge bonds 840000 and each query of the driver
  378000 or 40000 more (`DogeErrorCodes.sol:47`, 50, 51). With too small a deposit the
  challenge is refused; with one that covers the challenge alone, so are the queries
  (`DogeBattleManager.sol:310`, 393), and the battle is lost by a timeout.
* A superblock proposed between the reading of its status and the subscription is
  missed, and the challenge task waits for ever (`superblock-cli.ts:263`); a
  response in the block of the query is missed as well, and the driver gives up
  (`battle.ts:120`). A rejected superblock is shown with a claim decided as valid.
* A deployment that is killed while it writes `deployment.json` leaves a file no
  script can read and no deployment replaces; an `initContracts` that is killed
  after `addOperator` cannot be repeated; two deployments that overlap replace one
  another's file.
* The script has the oracles of mainnet, but its `getSuperblockchainOptions` refuses
  mainnet, so every deployment it makes has oracle mocks. On the in-process
  network "hardhat" a file that exists is no obstacle and is replaced
  (`deployDogethereum.ts:48`); the model has the other networks.

## 8. Not modelled

* *Scrypt itself* (`ScryptFramework`, `ScryptRunner`): 1024 steps over words of 128
  bytes are beyond TLC; the game treats the result of a step as a value.
* *Parsing* (`DogeMessageLibrary`): bytes; some pure functions are planned.
* *The address 0 in scrypt games*: a game that a stranger begins with the challenger 0
  is one with an account that never moves; with the claimant 0 it is never live.
* *Deposits of the submitter in a battle*: a submitter that cannot bond does not move,
  which nothing in the model makes it do.
* *`relayTx` and `verifyTx`*: they read the tree and call DogeToken; planned.
* *Allowances*: `transfer` stands for `transferFrom`; nothing else uses them.
* *`ECRecovery`*, and the contracts made for tests.
* *Reorganisations of the chain*: blocks are final to the bot and the tasks.
* *`waitUtxo` and `accelerateTimeOnNewProposal`* move the clock of a development
  network. *`scryptBattle`* drives `ScryptClaims` as the loop of the challenge task
  drives a battle, and is planned with module 11. *`inspectStatus`*,
  *`assertTokenStatus`*, *`wait_token_balance`*, *`prepare_sender`* and *`signers`* read
  and print, or send one transaction.
* *The plugin that deploys proxies* creates an implementation, an admin and a proxy;
  in the model this is one transaction, and storage layouts are left out.
