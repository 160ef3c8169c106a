--------------------------- MODULE SuperblockClaims ---------------------------
(***************************************************************************)
(* contracts/SuperblockClaims.sol with DogeDepositsManager.sol: proposals, *)
(* challenges, the queue of battles of a claim, and what becomes of the    *)
(* deposits bonded for it.  Each action is one transaction: it makes every *)
(* call into DogeSuperblocks (instance SB) and DogeBattleManager that the  *)
(* code makes, or, where the code reverts, does not take place.            *)
(*                                                                         *)
(* The battle manager appears by what it does to claims: it opens a        *)
(* session when asked, bonds deposits of the two parties while the session *)
(* lives, and ends it by convicting either.  Module DogeBattleManager has  *)
(* it whole.                                                               *)
(***************************************************************************)
EXTENDS Integers, Sequences, FiniteSets, SequencesExt

CONSTANTS
  Superblocks, NoSuperblock, Works, AncestorStep, NumAncestorDepths,
  Accounts,                \* addresses that deposit, propose and challenge
  NoAccount,               \* the address 0
  minProposalDeposit, minChallengeDeposit,   \* DogeErrorCodes.sol
  battleReward,            \* bonded by a submitter and by each challenger
  superblockConfirmations, \* descendants a challenged superblock needs
  superblockTimeout,       \* time a claim stays open to challenges
  superblockDelay,         \* age of the blocks of a proposed superblock
  Timestamps,              \* timestamps of proposed superblocks
  Amounts,                 \* amounts deposited and withdrawn
  BattleCosts,             \* amounts bonded for steps of a battle
  MaxTime,                 \* bound on the clock
  MaxBalance,              \* bound on the ether of the contract
  MaxChallenges            \* bound on the challenges to one claim

ASSUME SuperblocksAssumption ==     \* those of DogeSuperblocks
  /\ NoSuperblock \notin Superblocks
  /\ Works \subseteq Nat
  /\ AncestorStep \in Nat /\ AncestorStep > 1
  /\ NumAncestorDepths \in Nat /\ NumAncestorDepths > 0
ASSUME NoAccountAssumption == NoAccount \notin Accounts
ASSUME FiniteAssumption == IsFiniteSet(Superblocks) /\ IsFiniteSet(Accounts)
ASSUME AmountsAssumption ==
  /\ {minProposalDeposit, minChallengeDeposit, battleReward} \subseteq Nat
  /\ Amounts \subseteq Nat /\ BattleCosts \subseteq Nat
ASSUME TimesAssumption ==
  /\ {superblockConfirmations, superblockTimeout, superblockDelay} \subseteq Nat
  /\ Timestamps \subseteq Nat

VARIABLES
  superblocks, indexSuperblock, indexNextSuperblock, bestSuperblock,
  bestSuperblockAccumulatedWork,       \* the state of DogeSuperblocks
  claims,                              \* superblock -> claim
  deposits,                            \* account -> free deposit
  sessions,                            \* live sessions of the battle manager
  balance,                             \* ether held by the contract
  now                                  \* block.timestamp

SB == INSTANCE DogeSuperblocks

superblockVars == <<superblocks, indexSuperblock, indexNextSuperblock,
                    bestSuperblock, bestSuperblockAccumulatedWork>>
vars == <<superblockVars, claims, deposits, sessions, balance, now>>

Ids == Superblocks \cup {NoSuperblock}

SuperblockClaim ==
  [submitter : Accounts \cup {NoAccount}, challengers : Seq(Accounts),
   bondedDeposits : [Accounts -> Nat], currentChallenger : Nat,
   challengeTimeout : Nat, verificationOngoing : BOOLEAN, decided : BOOLEAN,
   invalid : BOOLEAN]

NoBonds == [a \in Accounts |-> 0]

\* The claim of a superblock proposed by who, before any bond; also, with
\* NoAccount, what an id without claim reads as.
NewClaim(who, timeout) ==
  [submitter |-> who, challengers |-> <<>>, bondedDeposits |-> NoBonds,
   currentChallenger |-> 0, challengeTimeout |-> timeout,
   verificationOngoing |-> FALSE, decided |-> FALSE, invalid |-> FALSE]

claimExists(b) == claims[b].submitter # NoAccount

\* A session's id is a hash of the superblock and a count of sessions.  The
\* position of the challenger in the queue tells sessions of a claim apart.
Session(b, number, submitter, challenger) ==
  [superblockHash |-> b, number |-> number, submitter |-> submitter,
   challenger |-> challenger]

-----------------------------------------------------------------------------
Init ==
  /\ SB!Init
  /\ claims = [b \in Ids |-> NewClaim(NoAccount, 0)]
  /\ deposits = [a \in Accounts |-> 0]
  /\ sessions = {}
  /\ balance = 0
  /\ now = 0

\* The genesis superblock has no claim.
Initialize(b, work) ==
  /\ SB!Initialize(b, work)
  /\ UNCHANGED <<claims, deposits, sessions, balance, now>>

MakeDeposit(who, amount) ==
  /\ balance + amount <= MaxBalance
  /\ deposits' = [deposits EXCEPT ![who] = @ + amount]
  /\ balance' = balance + amount
  /\ deposits'[who] <= balance'
  /\ UNCHANGED <<superblockVars, claims, sessions, now>>

WithdrawDeposit(who, amount) ==
  /\ deposits[who] >= amount
  /\ balance >= amount
  /\ deposits' = [deposits EXCEPT ![who] = @ - amount]
  /\ balance' = balance - amount
  /\ UNCHANGED <<superblockVars, claims, sessions, now>>

\* bondDeposit: the claim with amount of who's deposit locked into it.
Bond(claim, who, amount) == [claim EXCEPT !.bondedDeposits[who] = @ + amount]

\* Mutant: the deposit is not looked at.
BondDepositUnchecked(who, amount) ==
  deposits' = [deposits EXCEPT ![who] = @ - amount]

BondDeposit(who, amount) ==
  /\ deposits[who] >= amount
  /\ deposits' = [deposits EXCEPT ![who] = @ - amount]

ProposeSuperblock(who, b, parent, work, timestamp) ==
  /\ deposits[who] >= minProposalDeposit
  /\ timestamp + superblockDelay <= now
  /\ SB!Propose(b, parent, work)
  /\ ~claimExists(b)
  /\ BondDeposit(who, battleReward)
  /\ claims' = [claims EXCEPT ![b] =
                  Bond(NewClaim(who, now + superblockTimeout), who, battleReward)]
  /\ UNCHANGED <<sessions, balance, now>>

\* Mutants: the battle is that of the first challenger; the flag that a session
\* is live is not set; the battles of a claim that lost one go on.
RunNextBattleSessionOfFirst(b, claim, remaining) ==
  /\ ~claim.decided /\ ~claim.invalid
  /\ ~claim.verificationOngoing
  /\ IF claim.currentChallenger < Len(claim.challengers)
     THEN LET n == claim.currentChallenger + 1
          IN  /\ claims' = [claims EXCEPT ![b] =
                             [claim EXCEPT !.verificationOngoing = TRUE,
                                           !.currentChallenger = n]]
              /\ sessions' = remaining \cup
                   {Session(b, n, claim.submitter, claim.challengers[1])}
     ELSE /\ claims' = [claims EXCEPT ![b] = claim]
          /\ sessions' = remaining

RunNextBattleSessionUnmarked(b, claim, remaining) ==
  /\ ~claim.decided /\ ~claim.invalid
  /\ ~claim.verificationOngoing
  /\ IF claim.currentChallenger < Len(claim.challengers)
     THEN LET n == claim.currentChallenger + 1
          IN  /\ claims' = [claims EXCEPT ![b] =
                             [claim EXCEPT !.currentChallenger = n]]
              /\ sessions' = remaining \cup
                   {Session(b, n, claim.submitter, claim.challengers[n])}
     ELSE /\ claims' = [claims EXCEPT ![b] = claim]
          /\ sessions' = remaining

RunNextBattleSessionOfInvalid(b, claim, remaining) ==
  /\ ~claim.decided
  /\ ~claim.verificationOngoing
  /\ IF claim.currentChallenger < Len(claim.challengers)
     THEN LET n == claim.currentChallenger + 1
          IN  /\ claims' = [claims EXCEPT ![b] =
                             [claim EXCEPT !.verificationOngoing = TRUE,
                                           !.currentChallenger = n]]
              /\ sessions' = remaining \cup
                   {Session(b, n, claim.submitter, claim.challengers[n])}
     ELSE /\ claims' = [claims EXCEPT ![b] = claim]
          /\ sessions' = remaining

\* runNextBattleSession on the claim of b as its caller has left it, with the
\* sessions that remain.
RunNextBattleSession(b, claim, remaining) ==
  /\ ~claim.decided /\ ~claim.invalid
  /\ ~claim.verificationOngoing
  /\ IF claim.currentChallenger < Len(claim.challengers)
     THEN LET n == claim.currentChallenger + 1
          IN  /\ claims' = [claims EXCEPT ![b] =
                             [claim EXCEPT !.verificationOngoing = TRUE,
                                           !.currentChallenger = n]]
              /\ sessions' = remaining \cup
                   {Session(b, n, claim.submitter, claim.challengers[n])}
     ELSE /\ claims' = [claims EXCEPT ![b] = claim]
          /\ sessions' = remaining

ChallengeSuperblock(who, b) ==
  LET claim == claims[b]
      challenged == [Bond(claim, who, battleReward) EXCEPT
                       !.challengeTimeout = now + superblockTimeout,
                       !.challengers = Append(@, who)]
  IN  /\ claimExists(b)
      /\ ~claim.decided
      /\ deposits[who] >= minChallengeDeposit
      /\ Len(claim.challengers) < MaxChallenges
      /\ SB!Challenge(b)
      /\ BondDeposit(who, battleReward)
      /\ IF claim.verificationOngoing
         THEN claims' = [claims EXCEPT ![b] = challenged] /\ UNCHANGED sessions
         ELSE RunNextBattleSession(b, challenged, sessions)
      /\ UNCHANGED <<balance, now>>

-----------------------------------------------------------------------------
(* Payments.                                                               *)

\* The challengers whose battle was begun, in turn, as often as they queued.
Ran(claim) == SubSeq(claim.challengers, 1, claim.currentChallenger)

\* The bonds that are left when the submitter's is taken for the rewards.
Remaining(claim) == [claim.bondedDeposits EXCEPT ![claim.submitter] = 0]

TotalDeposits(claim) ==
  LET ran == Ran(claim)
  IN  SumFunctionOnSet([i \in DOMAIN ran |-> Remaining(claim)[ran[i]]], DOMAIN ran)

\* The bonds, when each of queue was given its share of the rewards in turn: in
\* proportion to its bond, which has grown by then if it was in the queue before.
Rewarded(bonds, rewards, total, queue) ==
  LET after[n \in 0 .. Len(queue)] ==
        IF n = 0 THEN bonds
        ELSE [after[n - 1] EXCEPT ![queue[n]] = @ + (rewards * @) \div total]
  IN  after[Len(queue)]

\* doPayChallengers, first two loops.
Shared(claim) ==
  Rewarded(Remaining(claim), claim.bondedDeposits[claim.submitter],
           TotalDeposits(claim), Ran(claim))

\* The division by the challengers' total bonds reverts when they have none.
SharesDefined(claim) == Ran(claim) # <<>> => TotalDeposits(claim) > 0

\* Mutants: paid bonds are not reset; only challengers that ran are paid.
PayChallengersAgain(b, claim) ==
  /\ SharesDefined(claim)
  /\ LET shared == Shared(claim)
         paid == ToSet(claim.challengers)
     IN  /\ deposits' = [a \in Accounts |->
                           deposits[a] + (IF a \in paid THEN shared[a] ELSE 0)]
         /\ claims' = [claims EXCEPT ![b] =
                         [claim EXCEPT !.bondedDeposits = shared]]

PayChallengersThatRan(b, claim) ==
  /\ SharesDefined(claim)
  /\ LET shared == Shared(claim)
         paid == ToSet(Ran(claim))
     IN  /\ deposits' = [a \in Accounts |->
                           deposits[a] + (IF a \in paid THEN shared[a] ELSE 0)]
         /\ claims' = [claims EXCEPT ![b] =
                         [claim EXCEPT !.bondedDeposits =
                            [a \in Accounts |-> IF a \in paid THEN 0
                                                              ELSE shared[a]]]]

\* doPayChallengers: every challenger takes back its bond and its shares.
PayChallengers(b, claim) ==
  /\ SharesDefined(claim)
  /\ LET shared == Shared(claim)
         paid == ToSet(claim.challengers)
     IN  /\ deposits' = [a \in Accounts |->
                           deposits[a] + (IF a \in paid THEN shared[a] ELSE 0)]
         /\ claims' = [claims EXCEPT ![b] =
                         [claim EXCEPT !.bondedDeposits =
                            [a \in Accounts |-> IF a \in paid THEN 0
                                                              ELSE shared[a]]]]

\* doPaySubmitter and unbondDeposit: the submitter takes the bonds of all.
Parties(claim) == {claim.submitter} \cup ToSet(claim.challengers)
BondsOf(claim) == SumFunctionOnSet(claim.bondedDeposits, Parties(claim))

PaySubmitters(S) ==
  /\ \A b \in S : claims[b].decided
  /\ deposits' = [a \in Accounts |-> deposits[a] +
                    SumFunctionOnSet([b \in S |-> BondsOf(claims[b])],
                                     {b \in S : claims[b].submitter = a})]
  /\ claims' = [b \in Ids |-> IF b \in S
                  THEN [claims[b] EXCEPT !.bondedDeposits =
                         [a \in Accounts |-> IF a \in Parties(claims[b])
                                               THEN 0 ELSE @[a]]]
                  ELSE claims[b]]

-----------------------------------------------------------------------------
(* Decisions.                                                              *)

\* Mutant: the claim is not marked as decided.
FailClaimUndecided(b) ==
  /\ claimExists(b)
  /\ ~claims[b].verificationOngoing
  /\ claims[b].invalid
  /\ SB!Invalidate(b)
  /\ PayChallengers(b, claims[b])
  /\ UNCHANGED <<sessions, balance, now>>

\* checkClaimFinished, when the submitter lost a battle.
FailClaim(b) ==
  /\ claimExists(b)
  /\ ~claims[b].verificationOngoing
  /\ claims[b].invalid
  /\ SB!Invalidate(b)
  /\ PayChallengers(b, [claims[b] EXCEPT !.decided = TRUE])
  /\ UNCHANGED <<sessions, balance, now>>

\* Mutants: the status of the superblock is not looked at; the last battle of
\* the queue is waited for once more.
PassClaimAgain(b) ==
  LET claim == claims[b]
  IN  /\ claimExists(b)
      /\ ~claim.verificationOngoing
      /\ ~claim.invalid
      /\ now > claim.challengeTimeout
      /\ claim.currentChallenger >= Len(claim.challengers)
      /\ SB!SetStatus(b, "SemiApproved")
      /\ claims' = [claims EXCEPT ![b].decided = TRUE]
      /\ UNCHANGED <<deposits, sessions, balance, now>>

PassClaimOffByOne(b) ==
  LET claim == claims[b]
  IN  /\ claimExists(b)
      /\ ~claim.verificationOngoing
      /\ ~claim.invalid
      /\ now > claim.challengeTimeout
      /\ claim.currentChallenger > Len(claim.challengers)
      /\ SB!SemiApprove(b)
      /\ claims' = [claims EXCEPT ![b].decided = TRUE]
      /\ UNCHANGED <<deposits, sessions, balance, now>>

\* checkClaimFinished, when every battle was played and won and time is up:
\* an unchallenged superblock on an approved parent is confirmed, any other one
\* is semi-approved.
PassClaim(b) ==
  LET claim == claims[b]
      done == [claim EXCEPT !.decided = TRUE]
      bond == claim.bondedDeposits[claim.submitter]
  IN  /\ claimExists(b)
      /\ ~claim.verificationOngoing
      /\ ~claim.invalid
      /\ now > claim.challengeTimeout
      /\ claim.currentChallenger >= Len(claim.challengers)
      /\ IF claim.challengers = <<>> /\ SB!isApproved(SB!ParentOf(b))
         THEN /\ SB!Confirm(b)
              /\ claims' = [claims EXCEPT ![b] =
                              [done EXCEPT !.bondedDeposits[claim.submitter] = 0]]
              /\ deposits' = [deposits EXCEPT ![claim.submitter] = @ + bond]
         ELSE /\ SB!SemiApprove(b)
              /\ claims' = [claims EXCEPT ![b] = done]
              /\ UNCHANGED deposits
      /\ UNCHANGED <<sessions, balance, now>>

\* The superblocks from d down to b, b excluded; it holds NoSuperblock, which
\* has no claim, when b is not below d.
Descent(b, d) ==
  LET down[c \in Ids] == IF c = b THEN {}
                         ELSE IF c = NoSuperblock THEN {NoSuperblock}
                         ELSE {c} \cup down[SB!ParentOf(c)]
  IN  down[d]

\* Mutants: only the submitter of b is paid; challenged descendants are
\* confirmed with b.
ConfirmClaimPayingOne(b, d) ==
  LET descendants == Descent(b, d)
      confirmed == IF \A c \in descendants : claims[c].challengers = <<>>
                     THEN {b} \cup descendants ELSE {b}
  IN  /\ SB!StatusOf(b) = "SemiApproved"
      /\ \A c \in descendants :
           claimExists(c) /\ SB!StatusOf(c) = "SemiApproved"
      /\ Cardinality(descendants) >= superblockConfirmations
      /\ SB!isApproved(SB!ParentOf(b))
      /\ SB!ConfirmAll(confirmed)
      /\ PaySubmitters({b})
      /\ UNCHANGED <<sessions, balance, now>>

ConfirmClaimWithAll(b, d) ==
  LET confirmed == {b} \cup Descent(b, d)
  IN  /\ \A c \in confirmed :
           claimExists(c) /\ SB!StatusOf(c) = "SemiApproved"
      /\ Cardinality(Descent(b, d)) >= superblockConfirmations
      /\ SB!isApproved(SB!ParentOf(b))
      /\ SB!ConfirmAll(confirmed)
      /\ PaySubmitters(confirmed)
      /\ UNCHANGED <<sessions, balance, now>>

\* confirmClaim: b has enough semi-approved descendants up to d; they are
\* confirmed with it when none of them was challenged.
ConfirmClaim(b, d) ==
  LET descendants == Descent(b, d)
      confirmed == IF \A c \in descendants : claims[c].challengers = <<>>
                     THEN {b} \cup descendants ELSE {b}
  IN  /\ SB!StatusOf(b) = "SemiApproved"
      /\ \A c \in descendants :
           claimExists(c) /\ SB!StatusOf(c) = "SemiApproved"
      /\ Cardinality(descendants) >= superblockConfirmations
      /\ SB!isApproved(SB!ParentOf(b))
      /\ SB!ConfirmAll(confirmed)
      /\ PaySubmitters(confirmed)
      /\ UNCHANGED <<sessions, balance, now>>

\* Mutant: no superblocks of the rival fork are waited for.
RejectClaimUnconfirmed(b) ==
  /\ claimExists(b)
  /\ SB!getChainHeight >= SB!HeightOf(b)
  /\ SB!getSuperblockAt(SB!HeightOf(b)) # b
  /\ SB!StatusOf(b) = "SemiApproved"
  /\ claims[b].decided
  /\ SB!Invalidate(b)
  /\ PayChallengers(b, claims[b])
  /\ UNCHANGED <<sessions, balance, now>>

\* rejectClaim: a semi-approved superblock that another fork has left behind.
RejectClaim(b) ==
  /\ claimExists(b)
  /\ SB!getChainHeight >= SB!HeightOf(b) + superblockConfirmations
  /\ SB!getSuperblockAt(SB!HeightOf(b)) # b
  /\ SB!StatusOf(b) = "SemiApproved"
  /\ claims[b].decided
  /\ SB!Invalidate(b)
  /\ PayChallengers(b, claims[b])
  /\ UNCHANGED <<sessions, balance, now>>

\* sessionDecided, and the end of the session that called it.  The loser is
\* compared before the winner.
SessionDecided(s, winner, loser) ==
  LET b == s.superblockHash
      over == [claims[b] EXCEPT !.verificationOngoing = FALSE]
  IN  /\ claimExists(b)
      /\ claims[b].verificationOngoing
      /\ \/ /\ claims[b].submitter = loser
            /\ claims' = [claims EXCEPT ![b] = [over EXCEPT !.invalid = TRUE]]
            /\ sessions' = sessions \ {s}
         \/ /\ claims[b].submitter # loser
            /\ claims[b].submitter = winner
            /\ RunNextBattleSession(b, over, sessions \ {s})
      /\ UNCHANGED <<superblockVars, deposits, balance, now>>

ConvictChallenger(s) == SessionDecided(s, s.submitter, s.challenger)
ConvictSubmitter(s) == SessionDecided(s, s.challenger, s.submitter)

\* A step of a battle bonds the cost of answering it.
BondForBattle(s, who, amount) ==
  /\ who \in {s.submitter, s.challenger}
  /\ claimExists(s.superblockHash)
  /\ BondDeposit(who, amount)
  /\ claims' = [claims EXCEPT ![s.superblockHash] = Bond(@, who, amount)]
  /\ UNCHANGED <<superblockVars, sessions, balance, now>>

Tick ==
  /\ now < MaxTime
  /\ now' = now + 1
  /\ UNCHANGED <<superblockVars, claims, deposits, sessions, balance>>

Next ==
  \/ \E b \in Superblocks, w \in Works : Initialize(b, w)
  \/ \E a \in Accounts, n \in Amounts : MakeDeposit(a, n)
  \/ \E a \in Accounts, n \in Amounts : WithdrawDeposit(a, n)
  \/ \E a \in Accounts, b, p \in Superblocks, w \in Works, t \in Timestamps :
       ProposeSuperblock(a, b, p, w, t)
  \/ \E a \in Accounts, b \in Superblocks : ChallengeSuperblock(a, b)
  \/ \E b \in Superblocks : FailClaim(b)
  \/ \E b \in Superblocks : PassClaim(b)
  \/ \E b, d \in Superblocks : ConfirmClaim(b, d)
  \/ \E b \in Superblocks : RejectClaim(b)
  \/ \E s \in sessions : ConvictChallenger(s)
  \/ \E s \in sessions : ConvictSubmitter(s)
  \/ \E s \in sessions, a \in Accounts, n \in BattleCosts : BondForBattle(s, a, n)
  \/ Tick

Spec == Init /\ [][Next]_vars

\* The clock runs; a battle ends, if need be by a timeout that anyone may call
\* (BattleEnds in DogeBattleManager, when its scrypt games end); and someone
\* calls checkClaimFinished when it would succeed, the party that is paid by it
\* if nobody else.
Fairness ==
  /\ WF_vars(Tick)
  /\ WF_vars(\E s \in sessions : ConvictChallenger(s) \/ ConvictSubmitter(s))
  /\ \A b \in Superblocks : WF_vars(FailClaim(b)) /\ WF_vars(PassClaim(b))

-----------------------------------------------------------------------------
(* Properties                                                              *)

\* Every variable has its type; a live session belongs to two accounts.
TypeOK ==
  /\ SB!TypeOK
  /\ claims \in [Ids -> SuperblockClaim]
  /\ deposits \in [Accounts -> Nat]
  /\ \A s \in sessions :
       s \in [superblockHash : Superblocks, number : Nat \ {0},
              submitter : Accounts, challenger : Accounts]
  /\ IsFiniteSet(sessions)
  /\ balance \in Nat
  /\ now \in Nat

\* The flags of a claim and the status of its superblock, kept in two
\* contracts, agree after every transaction: a superblock is open to challenges
\* exactly until its claim is decided; only a superblock in battle can have
\* lost one or be fighting one; and a challenged superblock leaves that status
\* only with every battle played and none lost, or as invalid.
LifecycleAgrees ==
  \A b \in Superblocks :
    LET claim == claims[b]
        status == SB!StatusOf(b)
    IN  /\ status = "Uninitialized" => ~claimExists(b)
        /\ claimExists(b) =>
             /\ status \in {"New", "InBattle"} <=> ~claim.decided
             /\ status = "New" => claim.challengers = <<>>
             /\ status = "InBattle" => claim.challengers # <<>>
             /\ claim.invalid => status \in {"InBattle", "Invalid"}
             /\ claim.verificationOngoing => status = "InBattle"
             /\ ~claim.verificationOngoing /\ ~claim.invalid =>
                  claim.currentChallenger = Len(claim.challengers)

\* A claim has one live session while its verification is ongoing, with the
\* challenger whose turn it is, and none otherwise.
OneBattleAtATime ==
  /\ \A s \in sessions :
       LET claim == claims[s.superblockHash]
       IN  /\ claim.verificationOngoing
           /\ s.number = claim.currentChallenger
           /\ s.number \in DOMAIN claim.challengers
           /\ s.challenger = claim.challengers[s.number]
           /\ s.submitter = claim.submitter
  /\ \A b \in Superblocks : claims[b].verificationOngoing =>
       \E s \in sessions : s.superblockHash = b

\* "It should not fail when called from sessionDecided" (SuperblockClaims.sol:
\* 548): whoever a live session convicts, the claim can take the result and go
\* on to the next battle.  A session whose result reverts could never end.
DecisionNeverFails ==
  \A s \in sessions :
    LET claim == claims[s.superblockHash]
    IN  /\ claimExists(s.superblockHash)
        /\ claim.verificationOngoing
        /\ ~claim.decided
        /\ ~claim.invalid
        /\ claim.submitter = s.submitter

\* A challenged superblock is approved only when it has a run of
\* superblockConfirmations semi-approved superblocks above it; neither the
\* confirmation of its parent nor a second call of checkClaimFinished does it.
ChallengedNeedsConfirmations ==
  [][\A b \in Superblocks :
       /\ SB!StatusOf(b) # "Approved" /\ SB!StatusOf(b)' = "Approved"
       /\ claims[b].challengers # <<>>
       => \E d \in Superblocks :
            /\ Cardinality(Descent(b, d)) >= superblockConfirmations
            /\ \A c \in Descent(b, d) \cup {b} : SB!StatusOf(c) = "SemiApproved"
    ]_vars

\* A semi-approved superblock is rejected only when the main chain, walked by
\* parents, runs through another superblock at its height and through
\* superblockConfirmations more; so neither the skip list nor a best superblock
\* on a fork of its own can cost the submitter of a main-chain superblock its bond.
RejectionNeedsFork ==
  [][\A b \in Superblocks :
       SB!StatusOf(b) = "SemiApproved" /\ SB!StatusOf(b)' = "Invalid" =>
         LET rival == SB!AncestorAt(bestSuperblock, SB!HeightOf(b))
         IN  /\ rival # b
             /\ SB!HeightOf(rival) = SB!HeightOf(b)
             /\ SB!isApproved(rival)
             /\ \E c \in Superblocks :
                  /\ SB!isApproved(c)
                  /\ SB!AncestorAt(c, SB!HeightOf(rival)) = rival
                  /\ SB!HeightOf(c) >= SB!HeightOf(b) + superblockConfirmations
    ]_vars

\* Once a superblock has its verdict no deposit stays bonded for its claim:
\* there is no other way to unbond one.
BondsReleased ==
  \A b \in Superblocks :
    SB!StatusOf(b) \in {"Approved", "Invalid"} =>
      \A a \in Accounts : claims[b].bondedDeposits[a] = 0

\* No account is twice in the queue of the claim.
DistinctChallengers(claim) ==
  Cardinality(ToSet(claim.challengers)) = Len(claim.challengers)

Owed == SumFunctionOnSet(deposits, Accounts)
Bonded ==
  SumFunctionOnSet(
    [b \in Superblocks |-> SumFunctionOnSet(claims[b].bondedDeposits, Accounts)],
    Superblocks)

\* "Pay challengers that ran their battles with submitter deposits"
\* (SuperblockClaims.sol:558): the contract holds the ether that it owes to its
\* depositors, free or bonded, so no payment was made out of nothing.
Solvent == Owed + Bonded <= balance

\* It does as long as no account challenges one superblock twice.  (Rounding
\* and the bond of an unchallenged superblock that is rejected stay behind in
\* the contract, so the two sides need not be equal.)
SolventIfDistinct ==
  (\A b \in Superblocks : DistinctChallengers(claims[b])) => Solvent

\* "Challengers that did not run will be returned their deposits"
\* (SuperblockClaims.sol:559), and those that ran lose nothing: when a superblock
\* becomes invalid each of its challengers gets at least its own bond back,
\* wherever it queued and however often.
ChallengersRefunded ==
  [][\A b \in Superblocks :
       SB!StatusOf(b) # "Invalid" /\ SB!StatusOf(b)' = "Invalid" =>
         \A a \in ToSet(claims[b].challengers) \ {claims[b].submitter} :
           deposits'[a] >= deposits[a] + claims[b].bondedDeposits[a]]_vars

\* The superblocks seen by the claims are those of the contract's own
\* specification: each transaction is one of its steps or none.
SuperblocksSpec == SB!Spec

\* The claim was lost, and every battle begun for it was one of its submitter
\* with itself: the rewards are to be divided by the bonds of the challengers
\* that ran, and there are none.
LostToItself(claim) == claim.invalid /\ ToSet(Ran(claim)) = {claim.submitter}

\* Every claim is decided in the end, but for one its submitter lost to itself
\* alone: no order of challenges, battles and timeouts leaves it waiting for ever
\* with the deposits bonded for it, though its submitter challenges it too,
\* before, between and after the others.
ClaimsDecided ==
  \A b \in Superblocks :
    claimExists(b) ~> claims[b].decided \/ LostToItself(claims[b])

\* A claim that is lost is marked as invalid in the end, whichever battle of its
\* queue lost it, if any challenger that ran was somebody else than the submitter.
FailedIsInvalidated ==
  \A b \in Superblocks :
    claims[b].invalid /\ ~LostToItself(claims[b])
      ~> SB!StatusOf(b) = "Invalid"

\* "If verification failed, it will mark the superblock as invalid."
\* (SuperblockClaims.sol:339, of checkClaimFinished): whoever challenged.
AnyFailedIsInvalidated ==
  \A b \in Superblocks :
    claims[b].invalid ~> SB!StatusOf(b) = "Invalid"
=============================================================================
