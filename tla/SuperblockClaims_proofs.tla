------------------------ MODULE SuperblockClaims_proofs ------------------------
(***************************************************************************)
(* Proofs about SuperblockClaims, for any accounts, deposits, timeouts and *)
(* number of challenges: the claims, the statuses of their superblocks and *)
(* the live sessions of the battle manager agree, so that the result of a  *)
(* battle can always be taken; and every transaction is one of             *)
(* DogeSuperblocks.  How much is bonded matters to none of this.  Then the *)
(* money: no deposit stays bonded after a verdict, the challengers of an   *)
(* invalid superblock lose nothing, and the contract holds what it owes.   *)
(* Last the challenge task of ChallengeTask: it goes on with its own battle*)
(* and no other, and what the status task shows of a challenger is what    *)
(* becomes of its battle, for the task keeps the invariant of the claims.  *)
(***************************************************************************)
EXTENDS ChallengeTask, SequenceTheorems, FunctionTheorems, SumLemmas

USE NoAccountAssumption

\* A claim, whatever is bonded for it and until when it can be challenged.
IsClaim(r) ==
  r \in [submitter : Accounts \cup {NoAccount}, challengers : Seq(Accounts),
         bondedDeposits : {r.bondedDeposits}, currentChallenger : Nat,
         challengeTimeout : {r.challengeTimeout}, verificationOngoing : BOOLEAN,
         decided : BOOLEAN, invalid : BOOLEAN]

\* The data of a superblock, of which only the status is looked at.
IsSuperblock(r) ==
  r \in [status : SB!Status, parentId : {r.parentId},
         accumulatedWork : {r.accumulatedWork}, index : {r.index},
         height : {r.height}, ancestors : {r.ancestors}]

SuperblocksTyped ==
  /\ superblocks = [b \in Ids |-> superblocks[b]]
  /\ \A b \in Ids : IsSuperblock(superblocks[b])

ClaimsTyped ==
  /\ claims = [b \in Ids |-> claims[b]]
  /\ \A b \in Ids : IsClaim(claims[b])

SessionsTyped ==
  sessions \subseteq [superblockHash : Superblocks, number : Nat,
                      submitter : Accounts, challenger : Accounts]

\* The conjunct of LifecycleAgrees for one claim.
Agrees(claim, status) ==
  /\ status = "Uninitialized" => claim.submitter = NoAccount
  /\ claim.submitter # NoAccount =>
       /\ status \in {"New", "InBattle"} <=> ~claim.decided
       /\ status = "New" => claim.challengers = <<>>
       /\ status = "InBattle" => claim.challengers # <<>>
       /\ claim.invalid => status \in {"InBattle", "Invalid"}
       /\ claim.verificationOngoing => status = "InBattle"
       /\ ~claim.verificationOngoing /\ ~claim.invalid =>
            claim.currentChallenger = Len(claim.challengers)

\* The conjunct of OneBattleAtATime for one session, and that the submitter has
\* lost no battle: DecisionNeverFails is not inductive without the other two.
Fits(s, claim) ==
  /\ claim.verificationOngoing
  /\ ~claim.invalid
  /\ s.number = claim.currentChallenger
  /\ s.number \in 1 .. Len(claim.challengers)
  /\ s.challenger = claim.challengers[s.number]
  /\ s.submitter = claim.submitter

\* The inductive invariant.
IInv ==
  /\ SuperblocksTyped
  /\ ClaimsTyped
  /\ SessionsTyped
  /\ \A b \in Superblocks : Agrees(claims[b], SB!StatusOf(b))
  /\ \A s \in sessions : Fits(s, claims[s.superblockHash])
  /\ \A b \in Superblocks : claims[b].verificationOngoing =>
       \E s \in sessions : s.superblockHash = b

-----------------------------------------------------------------------------
(* What the calls into DogeSuperblocks do to statuses.                     *)

\* Only the status of a superblock changes.
LEMMA StatusUpdate ==
  ASSUME NEW r, IsSuperblock(r), NEW status \in SB!Status
  PROVE  /\ IsSuperblock([r EXCEPT !.status = status])
         /\ [r EXCEPT !.status = status].status = status
BY DEF IsSuperblock

\* SetStatus changes the status of one superblock.
LEMMA SetStatusStep ==
  ASSUME SuperblocksTyped, NEW b \in Superblocks, NEW status \in SB!Status,
         SB!SetStatus(b, status)
  PROVE  /\ SuperblocksTyped'
         /\ \A c \in Superblocks :
              SB!StatusOf(c)' = IF c = b THEN status ELSE SB!StatusOf(c)
<1> DEFINE r == [superblocks[b] EXCEPT !.status = status]
<1>1. superblocks' = [superblocks EXCEPT ![b] = r]
  BY DEF SB!SetStatus
<1>2. IsSuperblock(r) /\ r.status = status
  BY StatusUpdate DEF SuperblocksTyped, Ids
<1> HIDE DEF r
<1>3. \A c \in Ids : superblocks'[c] = IF c = b THEN r ELSE superblocks[c]
  BY <1>1 DEF SuperblocksTyped, Ids
<1>4. superblocks' = [c \in Ids |-> superblocks'[c]]
  BY <1>1 DEF SuperblocksTyped, Ids
<1>5. \A c \in Ids : IsSuperblock(superblocks'[c])
  BY <1>2, <1>3 DEF SuperblocksTyped
<1>6. SuperblocksTyped'
  BY <1>4, <1>5 DEF SuperblocksTyped, IsSuperblock
<1> QED
  BY <1>2, <1>3, <1>6 DEF SB!StatusOf, Ids

\* Register gives an unregistered superblock its status.
LEMMA RegisterStep ==
  ASSUME SuperblocksTyped, NEW b \in Superblocks, NEW info, IsSuperblock(info),
         SB!Register(b, info)
  PROVE  /\ SuperblocksTyped'
         /\ SB!StatusOf(b) = "Uninitialized"
         /\ \A c \in Superblocks :
              SB!StatusOf(c)' = IF c = b THEN info.status ELSE SB!StatusOf(c)
<1>1. superblocks' = [superblocks EXCEPT ![b] = info]
  BY DEF SB!Register
<1>2. \A c \in Ids : superblocks'[c] = IF c = b THEN info ELSE superblocks[c]
  BY <1>1 DEF SuperblocksTyped, Ids
<1>3. superblocks' = [c \in Ids |-> superblocks'[c]]
  BY <1>1 DEF SuperblocksTyped, Ids
<1>4. \A c \in Ids : IsSuperblock(superblocks'[c])
  BY <1>2 DEF SuperblocksTyped
<1>5. SuperblocksTyped'
  BY <1>3, <1>4 DEF SuperblocksTyped, IsSuperblock
<1> QED
  BY <1>2, <1>5 DEF SB!StatusOf, SB!Register, Ids

\* ConfirmAll approves the superblocks it is given.
LEMMA ConfirmAllStep ==
  ASSUME SuperblocksTyped, NEW S, SB!ConfirmAll(S)
  PROVE  /\ SuperblocksTyped'
         /\ \A c \in Superblocks :
              SB!StatusOf(c)' = IF c \in S THEN "Approved" ELSE SB!StatusOf(c)
<1> DEFINE r(c) == [superblocks[c] EXCEPT !.status = "Approved"]
<1>1. superblocks' = [c \in Ids |-> IF c \in S THEN r(c) ELSE superblocks[c]]
  BY DEF SB!ConfirmAll, SB!Ids, Ids
<1>2. \A c \in Ids : IsSuperblock(r(c)) /\ r(c).status = "Approved"
  BY StatusUpdate DEF SuperblocksTyped, SB!Status
<1> HIDE DEF r
<1>3. \A c \in Ids : superblocks'[c] = IF c \in S THEN r(c) ELSE superblocks[c]
  BY <1>1
<1>4. superblocks' = [c \in Ids |-> superblocks'[c]]
  BY <1>1
<1>5. \A c \in Ids : IsSuperblock(superblocks'[c])
  BY <1>2, <1>3 DEF SuperblocksTyped
<1>6. SuperblocksTyped'
  BY <1>4, <1>5 DEF SuperblocksTyped, IsSuperblock
<1> QED
  BY <1>2, <1>3, <1>6 DEF SB!StatusOf, Ids

-----------------------------------------------------------------------------
(* What the transactions do to a claim.                                    *)

\* Bonds are of no consequence to the rest of a claim.
LEMMA BondsUpdate ==
  ASSUME NEW r, IsClaim(r), NEW x
  PROVE  LET q == [r EXCEPT !.bondedDeposits = x]
         IN  /\ IsClaim(q)
             /\ q.submitter = r.submitter
             /\ q.challengers = r.challengers
             /\ q.currentChallenger = r.currentChallenger
             /\ q.verificationOngoing = r.verificationOngoing
             /\ q.decided = r.decided
             /\ q.invalid = r.invalid
BY DEF IsClaim

\* A claim and one with the same flags and queue agree with the same statuses
\* and fit the same sessions.
SameBattles(q, r) ==
  /\ IsClaim(q)
  /\ q.submitter = r.submitter
  /\ q.challengers = r.challengers
  /\ q.currentChallenger = r.currentChallenger
  /\ q.verificationOngoing = r.verificationOngoing
  /\ q.decided = r.decided
  /\ q.invalid = r.invalid

\* Bonding a deposit changes bonds only.
LEMMA BondUpdate ==
  ASSUME NEW r, IsClaim(r), NEW who, NEW amount
  PROVE  SameBattles(Bond(r, who, amount), r)
<1>1. Bond(r, who, amount) =
        [r EXCEPT !.bondedDeposits = [r.bondedDeposits EXCEPT ![who] = @ + amount]]
  BY DEF Bond, IsClaim
<1> QED
  BY <1>1, BondsUpdate DEF SameBattles

\* A decision sets one flag.
LEMMA DecidedUpdate ==
  ASSUME NEW r, IsClaim(r)
  PROVE  LET q == [r EXCEPT !.decided = TRUE]
         IN  /\ IsClaim(q)
             /\ q.submitter = r.submitter
             /\ q.challengers = r.challengers
             /\ q.currentChallenger = r.currentChallenger
             /\ q.verificationOngoing = r.verificationOngoing
             /\ q.decided
             /\ q.invalid = r.invalid
BY DEF IsClaim

\* The end of a battle clears one flag and may set another.
LEMMA OverUpdate ==
  ASSUME NEW r, IsClaim(r)
  PROVE  LET q == [r EXCEPT !.verificationOngoing = FALSE]
             p == [q EXCEPT !.invalid = TRUE]
         IN  /\ IsClaim(q)
             /\ q.submitter = r.submitter
             /\ q.challengers = r.challengers
             /\ q.currentChallenger = r.currentChallenger
             /\ ~q.verificationOngoing
             /\ q.decided = r.decided
             /\ q.invalid = r.invalid
             /\ IsClaim(p)
             /\ p.submitter = r.submitter
             /\ p.challengers = r.challengers
             /\ p.currentChallenger = r.currentChallenger
             /\ ~p.verificationOngoing
             /\ p.decided = r.decided
             /\ p.invalid
BY DEF IsClaim

\* The next battle of the queue.
LEMMA NextBattleUpdate ==
  ASSUME NEW r, IsClaim(r), NEW n \in Nat
  PROVE  LET q == [r EXCEPT !.verificationOngoing = TRUE, !.currentChallenger = n]
         IN  /\ IsClaim(q)
             /\ q.submitter = r.submitter
             /\ q.challengers = r.challengers
             /\ q.currentChallenger = n
             /\ q.verificationOngoing
             /\ q.decided = r.decided
             /\ q.invalid = r.invalid
BY DEF IsClaim

\* One more challenger in the queue.
Challenged(r, who, timeout) ==
  [r EXCEPT !.challengeTimeout = timeout, !.challengers = Append(@, who)]

\* It leaves the other fields that the invariant is about.
LEMMA ChallengedUpdate ==
  ASSUME NEW r, IsClaim(r), NEW who \in Accounts, NEW timeout
  PROVE  LET q == Challenged(r, who, timeout)
         IN  /\ IsClaim(q)
             /\ q.submitter = r.submitter
             /\ q.challengers = Append(r.challengers, who)
             /\ q.currentChallenger = r.currentChallenger
             /\ q.verificationOngoing = r.verificationOngoing
             /\ q.decided = r.decided
             /\ q.invalid = r.invalid
<1>1. r.challengers \in Seq(Accounts)
  BY DEF IsClaim
<1>2. Append(r.challengers, who) \in Seq(Accounts)
  BY <1>1
<1> DEFINE queue == Append(r.challengers, who)
<1> HIDE DEF queue
<1>3. LET q == [r EXCEPT !.challengeTimeout = timeout, !.challengers = queue]
      IN  /\ IsClaim(q)
          /\ q.submitter = r.submitter
          /\ q.challengers = queue
          /\ q.currentChallenger = r.currentChallenger
          /\ q.verificationOngoing = r.verificationOngoing
          /\ q.decided = r.decided
          /\ q.invalid = r.invalid
  <2>1. queue \in Seq(Accounts)
    BY <1>2 DEF queue
  <2> QED
    BY <2>1 DEF IsClaim
<1> QED
  BY <1>3 DEF queue, Challenged

\* A proposal's claim.
LEMMA NewClaimType ==
  ASSUME NEW who \in Accounts \cup {NoAccount}, NEW timeout
  PROVE  IsClaim(NewClaim(who, timeout))
BY DEF IsClaim, NewClaim

-----------------------------------------------------------------------------
(* A transaction about one superblock.                                     *)

\* The invariant is kept by a step that gives superblock b a status and a claim
\* that agree, and leaves b's sessions in line with them, when nothing else
\* changes.
LEMMA OneClaimStep ==
  ASSUME IInv, NEW b \in Superblocks, NEW claim, IsClaim(claim),
         claims' = [claims EXCEPT ![b] = claim],
         SuperblocksTyped',
         \A c \in Superblocks : c # b => SB!StatusOf(c)' = SB!StatusOf(c),
         Agrees(claim, SB!StatusOf(b)'),
         SessionsTyped',
         \A s \in sessions' : s.superblockHash # b => s \in sessions,
         \A s \in sessions : s.superblockHash # b => s \in sessions',
         \A s \in sessions' : s.superblockHash = b => Fits(s, claim),
         claim.verificationOngoing => \E s \in sessions' : s.superblockHash = b
  PROVE  IInv'
<1>1. b \in Ids
  BY DEF Ids
<1>2. \A c \in Ids : claims'[c] = IF c = b THEN claim ELSE claims[c]
  BY <1>1 DEF IInv, ClaimsTyped
<1>3. claims' = [c \in Ids |-> claims'[c]]
  BY DEF IInv, ClaimsTyped
<1>4. ClaimsTyped'
  <2>1. \A c \in Ids : IsClaim(claims'[c])
    BY <1>2 DEF IInv, ClaimsTyped
  <2> QED
    BY <2>1, <1>3 DEF ClaimsTyped, IsClaim
<1>5. \A c \in Superblocks : Agrees(claims[c], SB!StatusOf(c))'
  <2> SUFFICES ASSUME NEW c \in Superblocks
               PROVE  Agrees(claims'[c], SB!StatusOf(c)')
    BY DEF Agrees
  <2>1. CASE c = b
    BY <2>1, <1>1, <1>2
  <2>2. CASE c # b
    BY <2>2, <1>2 DEF IInv, Ids
  <2> QED
    BY <2>1, <2>2
<1>6. \A s \in sessions' : Fits(s, claims'[s.superblockHash])
  <2> SUFFICES ASSUME NEW s \in sessions'
               PROVE  Fits(s, claims'[s.superblockHash])
    OBVIOUS
  <2>1. CASE s.superblockHash = b
    BY <2>1, <1>1, <1>2
  <2>2. CASE s.superblockHash # b
    <3>1. s \in sessions
      BY <2>2
    <3>2. s.superblockHash \in Ids
      BY <3>1 DEF IInv, SessionsTyped, Ids
    <3> QED
      BY <2>2, <3>1, <3>2, <1>2 DEF IInv
  <2> QED
    BY <2>1, <2>2
<1>7. \A c \in Superblocks : claims'[c].verificationOngoing =>
        \E s \in sessions' : s.superblockHash = c
  <2> SUFFICES ASSUME NEW c \in Superblocks, claims'[c].verificationOngoing
               PROVE  \E s \in sessions' : s.superblockHash = c
    OBVIOUS
  <2>1. CASE c = b
    BY <2>1, <1>1, <1>2
  <2>2. CASE c # b
    <3>1. claims[c].verificationOngoing
      BY <2>2, <1>2 DEF Ids
    <3>2. PICK s \in sessions : s.superblockHash = c
      BY <3>1 DEF IInv
    <3> QED
      BY <2>2, <3>2
  <2> QED
    BY <2>1, <2>2
<1>8. (\A s \in sessions : Fits(s, claims[s.superblockHash]))'
  BY <1>6 DEF Fits
<1> QED
  BY <1>4, <1>5, <1>7, <1>8 DEF IInv

-----------------------------------------------------------------------------
(* The actions.                                                            *)

\* Nothing about claims changes.
LEMMA StutterStep ==
  ASSUME IInv, UNCHANGED <<superblocks, claims, sessions>>
  PROVE  IInv'
<1>1. SuperblocksTyped' /\ ClaimsTyped' /\ SessionsTyped'
  BY DEF IInv, SuperblocksTyped, ClaimsTyped, SessionsTyped, IsSuperblock, IsClaim
<1>2. \A b \in Superblocks : Agrees(claims[b], SB!StatusOf(b))'
  BY DEF IInv, Agrees, SB!StatusOf
<1>3. (\A s \in sessions : Fits(s, claims[s.superblockHash]))'
  BY DEF IInv, Fits
<1> QED
  BY <1>1, <1>2, <1>3 DEF IInv

\* The facts about one superblock's claim that every action starts from.
LEMMA ClaimFacts ==
  ASSUME IInv, NEW b \in Superblocks
  PROVE  /\ b \in Ids
         /\ IsClaim(claims[b])
         /\ Agrees(claims[b], SB!StatusOf(b))
         /\ SuperblocksTyped
         /\ SessionsTyped
BY DEF IInv, ClaimsTyped, Ids

\* No session is live for a claim whose verification is not ongoing.
LEMMA NoLiveSession ==
  ASSUME IInv, NEW b \in Superblocks, ~claims[b].verificationOngoing
  PROVE  \A s \in sessions : s.superblockHash # b
BY DEF IInv, Fits

\* initialize: the genesis superblock has no claim.
LEMMA InitializeStep ==
  ASSUME IInv, NEW b \in Superblocks, NEW work, Initialize(b, work)
  PROVE  IInv'
<1> DEFINE info == [status |-> "Approved", parentId |-> NoSuperblock,
                    accumulatedWork |-> work, index |-> indexNextSuperblock,
                    height |-> 1, ancestors |-> [i \in SB!Depths |-> 0]]
<1>1. SB!Register(b, info)
  BY DEF Initialize, SB!Initialize
<1>2. IsSuperblock(info) /\ info.status = "Approved"
  BY DEF IsSuperblock, SB!Status
<1> HIDE DEF info
<1>3. SuperblocksTyped' /\ SB!StatusOf(b) = "Uninitialized"
  BY <1>1, <1>2, ClaimFacts, RegisterStep
<1>4. \A c \in Superblocks : c # b => SB!StatusOf(c)' = SB!StatusOf(c)
  BY <1>1, <1>2, ClaimFacts, RegisterStep
<1>5. claims' = claims /\ sessions' = sessions
  BY DEF Initialize
<1>6. claims[b].submitter = NoAccount
  BY <1>3, ClaimFacts DEF Agrees
<1>7. SB!StatusOf(b)' = "Approved"
  BY <1>1, <1>2, ClaimFacts, RegisterStep
<1>8. Agrees(claims[b], SB!StatusOf(b)')
  BY <1>6, <1>7 DEF Agrees
<1>9. claims' = [claims EXCEPT ![b] = claims[b]]
  BY <1>5 DEF IInv, ClaimsTyped
<1>10. SessionsTyped'
  BY <1>5 DEF IInv, SessionsTyped
<1>11. \A s \in sessions' : s.superblockHash = b => Fits(s, claims[b])
  BY <1>5 DEF IInv
<1>12. claims[b].verificationOngoing => \E s \in sessions' : s.superblockHash = b
  BY <1>5 DEF IInv
<1> QED
  BY <1>3, <1>4, <1>5, <1>8, <1>9, <1>10, <1>11, <1>12, ClaimFacts, OneClaimStep

\* A proposal: the superblock was unregistered and had no claim.
LEMMA ProposeSuperblockStep ==
  ASSUME IInv, NEW who \in Accounts, NEW b \in Superblocks,
         NEW parent \in Superblocks, NEW work, NEW timestamp,
         ProposeSuperblock(who, b, parent, work, timestamp)
  PROVE  IInv'
<1> DEFINE anc == SB!updateAncestors(superblocks[parent].ancestors,
                                     superblocks[parent].index,
                                     SB!HeightOf(parent))
<1> DEFINE info == [status |-> "New", parentId |-> parent,
                    accumulatedWork |-> work, index |-> indexNextSuperblock,
                    height |-> SB!HeightOf(parent) + 1, ancestors |-> anc]
<1> DEFINE claim == NewClaim(who, now + superblockTimeout)
<1> DEFINE bonded == Bond(claim, who, battleReward)
<1>1. SB!Register(b, info)
  BY DEF ProposeSuperblock, SB!Propose
<1>2. IsSuperblock(info) /\ info.status = "New"
  BY DEF IsSuperblock, SB!Status
<1> HIDE DEF info
<1>3. SuperblocksTyped' /\ SB!StatusOf(b)' = "New"
  BY <1>1, <1>2, ClaimFacts, RegisterStep
<1>4. \A c \in Superblocks : c # b => SB!StatusOf(c)' = SB!StatusOf(c)
  BY <1>1, <1>2, ClaimFacts, RegisterStep
<1>5. claims[b].submitter = NoAccount /\ sessions' = sessions
  BY DEF ProposeSuperblock, claimExists
<1>6. IsClaim(claim)
  BY NewClaimType
<1>7. SameBattles(bonded, claim)
  BY <1>6, BondUpdate
<1>8. /\ claim.submitter = who /\ claim.challengers = <<>>
      /\ claim.currentChallenger = 0 /\ ~claim.verificationOngoing
      /\ ~claim.decided /\ ~claim.invalid
  BY DEF NewClaim
<1>9. claims' = [claims EXCEPT ![b] = bonded]
  BY DEF ProposeSuperblock
<1> HIDE DEF claim, bonded
<1>10. IsClaim(bonded) /\ Agrees(bonded, SB!StatusOf(b)')
  BY <1>3, <1>7, <1>8 DEF Agrees, SameBattles
<1>11. \A s \in sessions : s.superblockHash # b
  <2> SUFFICES ASSUME NEW s \in sessions, s.superblockHash = b PROVE FALSE
    OBVIOUS
  <2>1. Fits(s, claims[b]) /\ s.submitter \in Accounts
    BY DEF IInv, SessionsTyped
  <2> QED
    BY <2>1, <1>5 DEF Fits
<1>12. SessionsTyped'
  BY <1>5 DEF IInv, SessionsTyped
<1>13. ~bonded.verificationOngoing
  BY <1>7, <1>8 DEF SameBattles
<1> QED
  BY <1>3, <1>4, <1>5, <1>9, <1>10, <1>11, <1>12, <1>13, OneClaimStep

\* The next battle of a superblock in battle that has no session: it is opened
\* if the queue has one more challenger, else all were played.
LEMMA RunNextStep ==
  ASSUME IInv, NEW b \in Superblocks, NEW claim, IsClaim(claim), NEW remaining,
         RunNextBattleSession(b, claim, remaining),
         SuperblocksTyped',
         \A c \in Superblocks : c # b => SB!StatusOf(c)' = SB!StatusOf(c),
         SB!StatusOf(b)' = "InBattle",
         claim.submitter \in Accounts, claim.challengers # <<>>,
         claim.currentChallenger <= Len(claim.challengers),
         remaining \subseteq sessions,
         \A s \in remaining : s.superblockHash # b,
         \A s \in sessions : s.superblockHash # b => s \in remaining
  PROVE  IInv'
<1>1. ~claim.decided /\ ~claim.invalid /\ ~claim.verificationOngoing
  BY DEF RunNextBattleSession
<1>2. /\ claim.currentChallenger \in Nat
      /\ claim.challengers \in Seq(Accounts)
  BY DEF IsClaim
<1>3. CASE claim.currentChallenger < Len(claim.challengers)
  <2> DEFINE n == claim.currentChallenger + 1
  <2> DEFINE q == [claim EXCEPT !.verificationOngoing = TRUE,
                                !.currentChallenger = n]
  <2> DEFINE s0 == Session(b, n, claim.submitter, claim.challengers[n])
  <2>1. claims' = [claims EXCEPT ![b] = q] /\ sessions' = remaining \cup {s0}
    BY <1>3 DEF RunNextBattleSession
  <2>2. n \in Nat /\ n \in 1 .. Len(claim.challengers)
    BY <1>2, <1>3
  <2>3. claim.challengers[n] \in Accounts
    BY <1>2, <2>2, ElementOfSeq
  <2>4. /\ IsClaim(q) /\ q.submitter = claim.submitter
        /\ q.challengers = claim.challengers /\ q.currentChallenger = n
        /\ q.verificationOngoing /\ q.decided = claim.decided
        /\ q.invalid = claim.invalid
    BY <2>2, NextBattleUpdate
  <2>5. /\ s0.superblockHash = b /\ s0.number = n
        /\ s0.submitter = claim.submitter
        /\ s0.challenger = claim.challengers[n]
    BY DEF Session
  <2>6. s0 \in [superblockHash : Superblocks, number : Nat,
                submitter : Accounts, challenger : Accounts]
    BY <2>2, <2>3 DEF Session
  <2> HIDE DEF n, q, s0
  <2>7. SessionsTyped'
    BY <2>1, <2>6 DEF IInv, SessionsTyped
  <2>8. Agrees(q, SB!StatusOf(b)')
    BY <1>1, <2>4 DEF Agrees
  <2>9. Fits(s0, q)
    BY <1>1, <2>2, <2>4, <2>5 DEF Fits
  <2>10. \A s \in sessions' : s.superblockHash = b => Fits(s, q)
    BY <2>1, <2>9
  <2>11. \A s \in sessions' : s.superblockHash # b => s \in sessions
    BY <2>1, <2>5
  <2>12. \A s \in sessions : s.superblockHash # b => s \in sessions'
    BY <2>1
  <2>13. \E s \in sessions' : s.superblockHash = b
    BY <2>1, <2>5
  <2> QED
    BY <2>1, <2>4, <2>7, <2>8, <2>10, <2>11, <2>12, <2>13, OneClaimStep
<1>4. CASE ~(claim.currentChallenger < Len(claim.challengers))
  <2>1. claims' = [claims EXCEPT ![b] = claim] /\ sessions' = remaining
    BY <1>4 DEF RunNextBattleSession
  <2>2. claim.currentChallenger = Len(claim.challengers)
    BY <1>2, <1>4, LenProperties
  <2>3. Agrees(claim, SB!StatusOf(b)')
    BY <1>1, <2>2 DEF Agrees
  <2>4. SessionsTyped'
    BY <2>1 DEF IInv, SessionsTyped
  <2> QED
    BY <1>1, <2>1, <2>3, <2>4, OneClaimStep
<1> QED
  BY <1>3, <1>4

\* A challenge: it queues while a battle is live, else it opens one.
LEMMA ChallengeSuperblockStep ==
  ASSUME IInv, NEW who \in Accounts, NEW b \in Superblocks,
         ChallengeSuperblock(who, b)
  PROVE  IInv'
<1> DEFINE bonded == Bond(claims[b], who, battleReward)
<1> DEFINE timeout == now + superblockTimeout
<1> DEFINE q == Challenged(bonded, who, timeout)
<1>1. /\ claims[b].submitter # NoAccount /\ ~claims[b].decided
      /\ SB!SetStatus(b, "InBattle")
      /\ SB!StatusOf(b) \in {"New", "InBattle"}
  BY DEF ChallengeSuperblock, claimExists, SB!Challenge
<1>2. IF claims[b].verificationOngoing
      THEN claims' = [claims EXCEPT ![b] = q] /\ sessions' = sessions
      ELSE RunNextBattleSession(b, q, sessions)
  BY DEF ChallengeSuperblock, Challenged
<1>3. SameBattles(bonded, claims[b])
  BY ClaimFacts, BondUpdate
<1> HIDE DEF bonded, timeout
<1>4. /\ IsClaim(q) /\ q.submitter = bonded.submitter
      /\ q.challengers = Append(bonded.challengers, who)
      /\ q.currentChallenger = bonded.currentChallenger
      /\ q.verificationOngoing = bonded.verificationOngoing
      /\ q.decided = bonded.decided /\ q.invalid = bonded.invalid
  <2>1. IsClaim(bonded)
    BY <1>3 DEF SameBattles
  <2> QED
    BY <2>1, ChallengedUpdate
<1> HIDE DEF q
<1> DEFINE old == claims[b].challengers
<1>5. /\ old \in Seq(Accounts) /\ claims[b].currentChallenger \in Nat
      /\ claims[b].submitter \in Accounts
  BY <1>1, ClaimFacts DEF IsClaim
<1>6. /\ q.challengers = Append(old, who) /\ q.submitter = claims[b].submitter
      /\ q.currentChallenger = claims[b].currentChallenger
      /\ q.verificationOngoing = claims[b].verificationOngoing
      /\ ~q.decided /\ q.invalid = claims[b].invalid
  BY <1>1, <1>3, <1>4 DEF SameBattles
<1>7. /\ Len(q.challengers) = Len(old) + 1 /\ q.challengers # <<>>
      /\ \A i \in 1 .. Len(old) : q.challengers[i] = old[i]
      /\ Len(old) \in Nat
  BY <1>5, <1>6, AppendProperties, LenProperties
<1>8. /\ SuperblocksTyped' /\ SB!StatusOf(b)' = "InBattle"
      /\ \A c \in Superblocks : c # b => SB!StatusOf(c)' = SB!StatusOf(c)
  <2>1. "InBattle" \in SB!Status
    BY DEF SB!Status
  <2> QED
    BY <1>1, <2>1, ClaimFacts, SetStatusStep
<1>9. CASE claims[b].verificationOngoing
  <2>1. claims' = [claims EXCEPT ![b] = q] /\ sessions' = sessions
    BY <1>2, <1>9
  <2>2. Agrees(q, SB!StatusOf(b)')
    BY <1>6, <1>7, <1>8, <1>9, ClaimFacts DEF Agrees
  <2>3. \A s \in sessions : s.superblockHash = b => Fits(s, q)
    <3> SUFFICES ASSUME NEW s \in sessions, s.superblockHash = b
                 PROVE  Fits(s, q)
      OBVIOUS
    <3>1. Fits(s, claims[b])
      BY DEF IInv
    <3> QED
      BY <3>1, <1>6, <1>7 DEF Fits
  <2>4. \E s \in sessions : s.superblockHash = b
    BY <1>9 DEF IInv
  <2>5. SessionsTyped'
    BY <2>1 DEF IInv, SessionsTyped
  <2> QED
    BY <1>4, <1>8, <2>1, <2>2, <2>3, <2>4, <2>5, OneClaimStep
<1>10. CASE ~claims[b].verificationOngoing
  <2>1. RunNextBattleSession(b, q, sessions)
    BY <1>2, <1>10
  <2>2. ~q.invalid
    BY <2>1 DEF RunNextBattleSession
  <2>3. claims[b].currentChallenger = Len(old)
    BY <1>1, <1>6, <1>10, <2>2, ClaimFacts DEF Agrees
  <2>4. q.currentChallenger <= Len(q.challengers)
    BY <2>3, <1>6, <1>7
  <2>5. \A s \in sessions : s.superblockHash # b
    BY <1>10, NoLiveSession
  <2> HIDE DEF old
  <2> QED
    BY <1>4, <1>5, <1>6, <1>7, <1>8, <2>1, <2>4, <2>5, RunNextStep
<1> QED
  BY <1>9, <1>10

\* A decision on a claim without a live session.
LEMMA SettledStep ==
  ASSUME IInv, NEW b \in Superblocks, ~claims[b].verificationOngoing,
         NEW q, IsClaim(q), claims' = [claims EXCEPT ![b] = q],
         sessions' = sessions, SuperblocksTyped',
         \A c \in Superblocks : c # b => SB!StatusOf(c)' = SB!StatusOf(c),
         SB!StatusOf(b)' \in {"SemiApproved", "Approved", "Invalid"},
         q.decided, ~q.verificationOngoing,
         q.invalid => SB!StatusOf(b)' = "Invalid",
         ~q.invalid => q.currentChallenger = Len(q.challengers)
  PROVE  IInv'
<1>1. Agrees(q, SB!StatusOf(b)')
  BY DEF Agrees
<1>2. SessionsTyped'
  BY DEF IInv, SessionsTyped
<1>3. \A s \in sessions : s.superblockHash # b
  BY NoLiveSession
<1> QED
  BY <1>1, <1>2, <1>3, OneClaimStep

\* checkClaimFinished, for a claim that lost a battle.
LEMMA FailClaimStep ==
  ASSUME IInv, NEW b \in Superblocks, FailClaim(b)
  PROVE  IInv'
<1> DEFINE done == [claims[b] EXCEPT !.decided = TRUE]
<1>1. /\ ~claims[b].verificationOngoing /\ claims[b].invalid
      /\ SB!SetStatus(b, "Invalid") /\ sessions' = sessions
      /\ PayChallengers(b, done)
  BY DEF FailClaim, SB!Invalidate
<1>2. PICK x : claims' = [claims EXCEPT ![b] = [done EXCEPT !.bondedDeposits = x]]
  BY <1>1 DEF PayChallengers
<1> DEFINE q == [done EXCEPT !.bondedDeposits = x]
<1>3. IsClaim(done) /\ done.decided /\ done.invalid /\ ~done.verificationOngoing
  BY <1>1, ClaimFacts, DecidedUpdate
<1> HIDE DEF done
<1>4. IsClaim(q) /\ q.decided /\ q.invalid /\ ~q.verificationOngoing
  BY <1>3, BondsUpdate
<1>5. /\ SuperblocksTyped' /\ SB!StatusOf(b)' = "Invalid"
      /\ \A c \in Superblocks : c # b => SB!StatusOf(c)' = SB!StatusOf(c)
  <2>1. "Invalid" \in SB!Status
    BY DEF SB!Status
  <2> QED
    BY <1>1, <2>1, ClaimFacts, SetStatusStep
<1> QED
  BY <1>1, <1>2, <1>4, <1>5, SettledStep

\* A rejection; the superblock was decided as semi-approved before.
LEMMA RejectClaimStep ==
  ASSUME IInv, NEW b \in Superblocks, RejectClaim(b)
  PROVE  IInv'
<1>1. /\ SB!StatusOf(b) = "SemiApproved" /\ claims[b].decided
      /\ claims[b].submitter # NoAccount
      /\ SB!SetStatus(b, "Invalid") /\ sessions' = sessions
      /\ PayChallengers(b, claims[b])
  BY DEF RejectClaim, SB!Invalidate, claimExists
<1>2. PICK x :
        claims' = [claims EXCEPT ![b] = [claims[b] EXCEPT !.bondedDeposits = x]]
  BY <1>1 DEF PayChallengers
<1> DEFINE q == [claims[b] EXCEPT !.bondedDeposits = x]
<1>3. /\ IsClaim(q) /\ q.decided = claims[b].decided
      /\ q.invalid = claims[b].invalid
      /\ q.verificationOngoing = claims[b].verificationOngoing
      /\ q.currentChallenger = claims[b].currentChallenger
      /\ q.challengers = claims[b].challengers
  BY ClaimFacts, BondsUpdate
<1>4. /\ ~claims[b].verificationOngoing
      /\ claims[b].currentChallenger = Len(claims[b].challengers)
  BY <1>1, ClaimFacts DEF Agrees, IsClaim
<1>5. /\ SuperblocksTyped' /\ SB!StatusOf(b)' = "Invalid"
      /\ \A c \in Superblocks : c # b => SB!StatusOf(c)' = SB!StatusOf(c)
  <2>1. "Invalid" \in SB!Status
    BY DEF SB!Status
  <2> QED
    BY <1>1, <2>1, ClaimFacts, SetStatusStep
<1> HIDE DEF q
<1> QED
  BY <1>1, <1>2, <1>3, <1>4, <1>5, SettledStep DEF q

\* A claim that passed: confirmed, or semi-approved.
LEMMA PassClaimStep ==
  ASSUME IInv, NEW b \in Superblocks, PassClaim(b)
  PROVE  IInv'
<1> DEFINE done == [claims[b] EXCEPT !.decided = TRUE]
<1>1. /\ claims[b].submitter # NoAccount
      /\ ~claims[b].verificationOngoing /\ ~claims[b].invalid
      /\ sessions' = sessions
  BY DEF PassClaim, claimExists
<1>2. claims[b].currentChallenger = Len(claims[b].challengers)
  BY <1>1, ClaimFacts DEF Agrees
<1>3. /\ IsClaim(done) /\ done.decided /\ ~done.invalid
      /\ ~done.verificationOngoing
      /\ done.currentChallenger = Len(done.challengers)
  BY <1>1, <1>2, ClaimFacts, DecidedUpdate
<1>4. CASE claims[b].challengers = <<>> /\ SB!isApproved(SB!ParentOf(b))
  <2> DEFINE x == [done.bondedDeposits EXCEPT ![claims[b].submitter] = 0]
  <2> DEFINE q == [done EXCEPT !.bondedDeposits = x]
  <2>1. /\ SB!ConfirmAll({b})
        /\ claims' = [claims EXCEPT ![b] =
             [done EXCEPT !.bondedDeposits[claims[b].submitter] = 0]]
    BY <1>4 DEF PassClaim, SB!Confirm
  <2>2. [done EXCEPT !.bondedDeposits[claims[b].submitter] = 0] = q
    BY <1>3 DEF IsClaim
  <2> HIDE DEF done, x
  <2>3. /\ IsClaim(q) /\ q.decided /\ ~q.invalid /\ ~q.verificationOngoing
        /\ q.currentChallenger = Len(q.challengers)
    BY <1>3, BondsUpdate
  <2>4. /\ SuperblocksTyped' /\ SB!StatusOf(b)' = "Approved"
        /\ \A c \in Superblocks : c # b => SB!StatusOf(c)' = SB!StatusOf(c)
    BY <2>1, ClaimFacts, ConfirmAllStep
  <2> HIDE DEF q
  <2> QED
    BY <1>1, <2>1, <2>2, <2>3, <2>4, SettledStep
<1>5. CASE ~(claims[b].challengers = <<>> /\ SB!isApproved(SB!ParentOf(b)))
  <2>1. SB!SetStatus(b, "SemiApproved") /\ claims' = [claims EXCEPT ![b] = done]
    BY <1>5 DEF PassClaim, SB!SemiApprove
  <2>2. /\ SuperblocksTyped' /\ SB!StatusOf(b)' = "SemiApproved"
        /\ \A c \in Superblocks : c # b => SB!StatusOf(c)' = SB!StatusOf(c)
    <3>1. "SemiApproved" \in SB!Status
      BY DEF SB!Status
    <3> QED
      BY <2>1, <3>1, ClaimFacts, SetStatusStep
  <2> HIDE DEF done
  <2> QED
    BY <1>1, <1>3, <2>1, <2>2, SettledStep
<1> QED
  BY <1>4, <1>5

\* The end of a battle: it was the only session of its claim, so none is left
\* when the submitter lost it, and the next may be opened when it won.
LEMMA SessionDecidedStep ==
  ASSUME IInv, NEW s \in sessions, NEW winner, NEW loser,
         SessionDecided(s, winner, loser)
  PROVE  IInv'
<1> DEFINE b == s.superblockHash
<1> DEFINE over == [claims[b] EXCEPT !.verificationOngoing = FALSE]
<1> DEFINE lost == [over EXCEPT !.invalid = TRUE]
<1>1. /\ b \in Superblocks /\ s.submitter \in Accounts
      /\ Fits(s, claims[b])
  BY DEF IInv, SessionsTyped
<1>2. \A r \in sessions : r.superblockHash = b => r = s
  <2> SUFFICES ASSUME NEW r \in sessions, r.superblockHash = b
               PROVE  r = s
    OBVIOUS
  <2>1. Fits(r, claims[b])
    BY DEF IInv
  <2>2. /\ r.number = s.number /\ r.submitter = s.submitter
        /\ r.challenger = s.challenger
    BY <1>1, <2>1 DEF Fits
  <2> QED
    BY <2>2 DEF IInv, SessionsTyped
<1>3. /\ superblocks' = superblocks
      /\ \/ /\ claims' = [claims EXCEPT ![b] = lost]
            /\ sessions' = sessions \ {s}
         \/ RunNextBattleSession(b, over, sessions \ {s})
  BY DEF SessionDecided, superblockVars
<1> HIDE DEF b
<1>4. SuperblocksTyped' /\ \A c \in Superblocks : SB!StatusOf(c)' = SB!StatusOf(c)
  BY <1>3 DEF IInv, SuperblocksTyped, IsSuperblock, SB!StatusOf
<1>5. /\ claims[b].submitter \in Accounts /\ claims[b].submitter # NoAccount
      /\ claims[b].verificationOngoing
      /\ SB!StatusOf(b) = "InBattle" /\ ~claims[b].decided
      /\ claims[b].challengers # <<>>
      /\ claims[b].currentChallenger <= Len(claims[b].challengers)
  <2>1. claims[b].submitter \in Accounts /\ claims[b].verificationOngoing
    BY <1>1 DEF Fits
  <2>2. Len(claims[b].challengers) \in Nat
    BY <1>1, ClaimFacts, LenProperties DEF IsClaim
  <2>3. claims[b].currentChallenger <= Len(claims[b].challengers)
    BY <1>1, <2>2 DEF Fits
  <2> QED
    BY <1>1, <2>1, <2>3, ClaimFacts DEF Agrees
<1>6. /\ IsClaim(over) /\ over.submitter = claims[b].submitter
      /\ over.challengers = claims[b].challengers
      /\ over.currentChallenger = claims[b].currentChallenger
      /\ IsClaim(lost) /\ lost.submitter = claims[b].submitter
      /\ lost.challengers = claims[b].challengers
      /\ ~lost.verificationOngoing /\ ~lost.decided /\ lost.invalid
  BY <1>1, <1>5, ClaimFacts, OverUpdate
<1> HIDE DEF over, lost
<1>7. CASE claims' = [claims EXCEPT ![b] = lost] /\ sessions' = sessions \ {s}
  <2>1. Agrees(lost, SB!StatusOf(b)')
    BY <1>1, <1>4, <1>5, <1>6 DEF Agrees
  <2>2. SessionsTyped'
    BY <1>7 DEF IInv, SessionsTyped
  <2>3. \A r \in sessions' : r.superblockHash # b
    BY <1>2, <1>7
  <2>4. \A r \in sessions : r.superblockHash # b => r \in sessions'
    BY <1>7 DEF b
  <2>5. \A r \in sessions' : r.superblockHash # b => r \in sessions
    BY <1>7
  <2> QED
    BY <1>1, <1>4, <1>6, <1>7, <2>1, <2>2, <2>3, <2>4, <2>5, OneClaimStep
<1>8. CASE RunNextBattleSession(b, over, sessions \ {s})
  <2> DEFINE remaining == sessions \ {s}
  <2>1. /\ remaining \subseteq sessions
        /\ \A r \in remaining : r.superblockHash # b
        /\ \A r \in sessions : r.superblockHash # b => r \in remaining
    BY <1>2 DEF b
  <2>2. RunNextBattleSession(b, over, remaining)
    BY <1>8
  <2> HIDE DEF remaining
  <2> QED
    BY <1>1, <1>4, <1>5, <1>6, <2>1, <2>2, RunNextStep
<1> QED
  BY <1>3, <1>7, <1>8

\* A step that moves bonds only, and approves semi-approved superblocks.
LEMMA BondsStep ==
  ASSUME IInv, claims' = [b \in Ids |-> claims'[b]],
         \A b \in Ids : SameBattles(claims'[b], claims[b]),
         sessions' = sessions, SuperblocksTyped',
         \A b \in Superblocks :
           \/ SB!StatusOf(b)' = SB!StatusOf(b)
           \/ SB!StatusOf(b) = "SemiApproved" /\ SB!StatusOf(b)' = "Approved"
  PROVE  IInv'
<1>1. ClaimsTyped'
  BY DEF ClaimsTyped, SameBattles, IsClaim
<1>2. SessionsTyped'
  BY DEF IInv, SessionsTyped
<1>3. \A b \in Superblocks : Agrees(claims[b], SB!StatusOf(b))'
  <2> SUFFICES ASSUME NEW b \in Superblocks
               PROVE  Agrees(claims'[b], SB!StatusOf(b)')
    BY DEF Agrees
  <2>1. SameBattles(claims'[b], claims[b]) /\ Agrees(claims[b], SB!StatusOf(b))
    BY ClaimFacts
  <2> QED
    BY <2>1 DEF Agrees, SameBattles
<1>4. \A s \in sessions' : Fits(s, claims'[s.superblockHash])
  <2> SUFFICES ASSUME NEW s \in sessions
               PROVE  Fits(s, claims'[s.superblockHash])
    OBVIOUS
  <2>1. s.superblockHash \in Ids /\ Fits(s, claims[s.superblockHash])
    BY DEF IInv, SessionsTyped, Ids
  <2> QED
    BY <2>1 DEF Fits, SameBattles
<1>5. \A b \in Superblocks : claims'[b].verificationOngoing =>
        \E s \in sessions' : s.superblockHash = b
  BY DEF IInv, SameBattles, Ids
<1>6. (\A s \in sessions : Fits(s, claims[s.superblockHash]))'
  BY <1>4 DEF Fits
<1> QED
  BY <1>1, <1>2, <1>3, <1>5, <1>6 DEF IInv

\* A claim is the same as itself.
LEMMA SameBattlesRefl ==
  ASSUME NEW r, IsClaim(r)
  PROVE  SameBattles(r, r)
BY DEF SameBattles

\* A confirmation: every confirmed superblock was semi-approved, whatever the
\* run of descendants is.
LEMMA ConfirmClaimStep ==
  ASSUME IInv, NEW b \in Superblocks, NEW d \in Superblocks, ConfirmClaim(b, d)
  PROVE  IInv'
<1> DEFINE down == Descent(b, d)
<1> DEFINE S == IF \A c \in down : claims[c].challengers = <<>>
                  THEN {b} \cup down ELSE {b}
<1>1. /\ SB!StatusOf(b) = "SemiApproved"
      /\ \A c \in down : SB!StatusOf(c) = "SemiApproved"
      /\ SB!ConfirmAll(S) /\ PaySubmitters(S) /\ sessions' = sessions
  BY DEF ConfirmClaim
<1>2. \A c \in S : SB!StatusOf(c) = "SemiApproved"
  BY <1>1
<1> HIDE DEF down, S
<1>3. /\ SuperblocksTyped'
      /\ \A c \in Superblocks :
           SB!StatusOf(c)' = IF c \in S THEN "Approved" ELSE SB!StatusOf(c)
  BY <1>1, ConfirmAllStep DEF IInv
<1> DEFINE x(c) == [a \in Accounts |-> IF a \in Parties(claims[c]) THEN 0
                                        ELSE claims[c].bondedDeposits[a]]
<1> DEFINE q(c) == [claims[c] EXCEPT !.bondedDeposits = x(c)]
<1>4. claims' = [c \in Ids |-> IF c \in S THEN q(c) ELSE claims[c]]
  BY <1>1 DEF PaySubmitters
<1> HIDE DEF x
<1>5. \A c \in Ids : SameBattles(q(c), claims[c])
  BY BondsUpdate DEF IInv, ClaimsTyped, SameBattles
<1> HIDE DEF q
<1>6. \A c \in Ids : SameBattles(claims'[c], claims[c])
  <2> SUFFICES ASSUME NEW c \in Ids PROVE SameBattles(claims'[c], claims[c])
    OBVIOUS
  <2>1. claims'[c] = IF c \in S THEN q(c) ELSE claims[c]
    BY <1>4
  <2>2. SameBattles(claims[c], claims[c])
    BY SameBattlesRefl DEF IInv, ClaimsTyped
  <2> QED
    BY <1>5, <2>1, <2>2
<1>7. claims' = [c \in Ids |-> claims'[c]]
  BY <1>4
<1> QED
  BY <1>1, <1>2, <1>3, <1>6, <1>7, BondsStep

\* A battle bonds a deposit for a step.
LEMMA BondForBattleStep ==
  ASSUME IInv, NEW s \in sessions, NEW who \in Accounts, NEW amount,
         BondForBattle(s, who, amount)
  PROVE  IInv'
<1> DEFINE b == s.superblockHash
<1> DEFINE q == Bond(claims[b], who, amount)
<1>1. /\ claims' = [claims EXCEPT ![b] = q]
      /\ sessions' = sessions /\ superblocks' = superblocks
  BY DEF BondForBattle, superblockVars
<1>2. b \in Ids
  BY DEF IInv, SessionsTyped, Ids
<1>3. SameBattles(q, claims[b])
  BY <1>2, BondUpdate DEF IInv, ClaimsTyped
<1> HIDE DEF b, q
<1>4. \A c \in Ids : claims'[c] = IF c = b THEN q ELSE claims[c]
  BY <1>1, <1>2 DEF IInv, ClaimsTyped
<1>5. \A c \in Ids : SameBattles(claims'[c], claims[c])
  <2> SUFFICES ASSUME NEW c \in Ids PROVE SameBattles(claims'[c], claims[c])
    OBVIOUS
  <2>1. SameBattles(claims[c], claims[c])
    BY SameBattlesRefl DEF IInv, ClaimsTyped
  <2> QED
    BY <1>3, <1>4, <2>1
<1>6. claims' = [c \in Ids |-> claims'[c]]
  BY <1>1, <1>2 DEF IInv, ClaimsTyped
<1>7. SuperblocksTyped' /\ \A c \in Superblocks : SB!StatusOf(c)' = SB!StatusOf(c)
  BY <1>1 DEF IInv, SuperblocksTyped, IsSuperblock, SB!StatusOf
<1> QED
  BY <1>1, <1>5, <1>6, <1>7, BondsStep

-----------------------------------------------------------------------------
(* Type, lifecycle and battles.                                            *)

\* Nothing is registered, claimed or fought at the start.
LEMMA InitHolds == Init => IInv
<1> SUFFICES ASSUME Init PROVE IInv
  OBVIOUS
<1>1. /\ superblocks = [b \in Ids |-> SB!Blank]
      /\ claims = [b \in Ids |-> NewClaim(NoAccount, 0)]
      /\ sessions = {}
  BY DEF Init, SB!Init, SB!Ids, Ids
<1>2. IsSuperblock(SB!Blank) /\ SB!Blank.status = "Uninitialized"
  BY DEF IsSuperblock, SB!Blank, SB!Status
<1>3. IsClaim(NewClaim(NoAccount, 0))
  BY NewClaimType
<1>4. /\ NewClaim(NoAccount, 0).submitter = NoAccount
      /\ ~NewClaim(NoAccount, 0).verificationOngoing
  BY DEF NewClaim
<1>5. SuperblocksTyped /\ ClaimsTyped /\ SessionsTyped
  BY <1>1, <1>2, <1>3 DEF SuperblocksTyped, ClaimsTyped, SessionsTyped
<1>6. \A b \in Superblocks : Agrees(claims[b], SB!StatusOf(b))
  BY <1>1, <1>4 DEF Agrees, Ids
<1>7. \A b \in Superblocks : ~claims[b].verificationOngoing
  BY <1>1, <1>4 DEF Ids
<1> QED
  BY <1>1, <1>5, <1>6, <1>7 DEF IInv

\* Every transaction preserves the invariant.
LEMMA Step == IInv /\ [Next]_vars => IInv'
<1> SUFFICES ASSUME IInv, [Next]_vars PROVE IInv'
  OBVIOUS
<1>1. CASE UNCHANGED vars
  BY <1>1, StutterStep DEF vars, superblockVars
<1>2. ASSUME NEW b \in Superblocks, NEW w \in Works, Initialize(b, w)
      PROVE  IInv'
  BY <1>2, InitializeStep
<1>3. ASSUME NEW a \in Accounts, NEW n \in Amounts,
             MakeDeposit(a, n) \/ WithdrawDeposit(a, n)
      PROVE  IInv'
  BY <1>3, StutterStep DEF MakeDeposit, WithdrawDeposit, superblockVars
<1>4. ASSUME NEW a \in Accounts, NEW b \in Superblocks, NEW p \in Superblocks,
             NEW w \in Works, NEW t \in Timestamps, ProposeSuperblock(a, b, p, w, t)
      PROVE  IInv'
  BY <1>4, ProposeSuperblockStep
<1>5. ASSUME NEW a \in Accounts, NEW b \in Superblocks, ChallengeSuperblock(a, b)
      PROVE  IInv'
  BY <1>5, ChallengeSuperblockStep
<1>6. ASSUME NEW b \in Superblocks, FailClaim(b) \/ PassClaim(b) \/ RejectClaim(b)
      PROVE  IInv'
  BY <1>6, FailClaimStep, PassClaimStep, RejectClaimStep
<1>7. ASSUME NEW b \in Superblocks, NEW d \in Superblocks, ConfirmClaim(b, d)
      PROVE  IInv'
  BY <1>7, ConfirmClaimStep
<1>8. ASSUME NEW s \in sessions, ConvictChallenger(s) \/ ConvictSubmitter(s)
      PROVE  IInv'
  BY <1>8, SessionDecidedStep DEF ConvictChallenger, ConvictSubmitter
<1>9. ASSUME NEW s \in sessions, NEW a \in Accounts, NEW n \in BattleCosts,
             BondForBattle(s, a, n)
      PROVE  IInv'
  BY <1>9, BondForBattleStep
<1>10. CASE Tick
  BY <1>10, StutterStep DEF Tick, superblockVars
<1> QED
  BY <1>1, <1>2, <1>3, <1>4, <1>5, <1>6, <1>7, <1>8, <1>9, <1>10 DEF Next

\* The inductive invariant holds of every reachable state.
THEOREM Invariance == Spec => []IInv
<1> QED
  BY InitHolds, Step, PTL DEF Spec

\* The flags of a claim and the status of its superblock in the other contract
\* agree after every transaction.
THEOREM LifecycleAgreesHolds == Spec => []LifecycleAgrees
<1>1. IInv => LifecycleAgrees
  BY DEF IInv, Agrees, LifecycleAgrees, claimExists
<1> QED
  BY <1>1, Invariance, PTL

\* A claim has one live session while its verification is ongoing, with the
\* challenger whose turn it is, and none otherwise.
THEOREM OneBattleAtATimeHolds == Spec => []OneBattleAtATime
<1>1. IInv => OneBattleAtATime
  <2> SUFFICES ASSUME IInv PROVE OneBattleAtATime
    OBVIOUS
  <2>1. ASSUME NEW s \in sessions
        PROVE  s.number \in DOMAIN claims[s.superblockHash].challengers
    <3> DEFINE claim == claims[s.superblockHash]
    <3>1. IsClaim(claim) /\ Fits(s, claim)
      BY DEF IInv, SessionsTyped, ClaimsTyped, Ids
    <3>2. DOMAIN claim.challengers = 1 .. Len(claim.challengers)
      BY <3>1, LenProperties DEF IsClaim
    <3> QED
      BY <3>1, <3>2 DEF Fits
  <2> QED
    BY <2>1 DEF IInv, Fits, OneBattleAtATime
<1> QED
  BY <1>1, Invariance, PTL

\* Whoever a live session convicts, the claim can take the result: the call of
\* sessionDecided by the battle manager never fails.
THEOREM DecisionNeverFailsHolds == Spec => []DecisionNeverFails
<1>1. IInv => DecisionNeverFails
  <2> SUFFICES ASSUME IInv, NEW s \in sessions
               PROVE  LET claim == claims[s.superblockHash]
                      IN  /\ claimExists(s.superblockHash)
                          /\ claim.verificationOngoing
                          /\ ~claim.decided
                          /\ ~claim.invalid
                          /\ claim.submitter = s.submitter
    BY DEF DecisionNeverFails
  <2>1. /\ s.superblockHash \in Superblocks /\ s.submitter \in Accounts
        /\ Fits(s, claims[s.superblockHash])
    BY DEF IInv, SessionsTyped
  <2>2. Agrees(claims[s.superblockHash], SB!StatusOf(s.superblockHash))
    BY <2>1 DEF IInv
  <2> QED
    BY <2>1, <2>2 DEF Fits, Agrees, claimExists
<1> QED
  BY <1>1, Invariance, PTL
-----------------------------------------------------------------------------
(* The refinement of DogeSuperblocks.  What is proved of that contract in  *)
(* its own module is used here through an instance.                        *)

SBP == INSTANCE DogeSuperblocks_proofs

\* The instance of the proofs is about the same contract.
LEMMA SameTree ==
  /\ SBP!Init <=> SB!Init
  /\ [SBP!Next]_SBP!vars <=> [SB!Next]_SB!vars
<1>1. SBP!Init <=> SB!Init
  BY DEF SBP!Init, SB!Init, SBP!Ids, SB!Ids, SBP!Blank, SB!Blank,
         SBP!Depths, SB!Depths
<1>2. [SBP!Next]_SBP!vars <=> [SB!Next]_SB!vars
  BY DEF SBP!Next, SB!Next, SBP!vars, SB!vars, SBP!Ids, SB!Ids,
         SBP!Depths, SB!Depths, SBP!Initialize, SB!Initialize,
         SBP!Propose, SB!Propose, SBP!ConfirmPath, SB!ConfirmPath,
         SBP!Challenge, SB!Challenge, SBP!SemiApprove, SB!SemiApprove,
         SBP!Invalidate, SB!Invalidate, SBP!SetStatus, SB!SetStatus,
         SBP!StatusOf, SB!StatusOf, SBP!ParentOf, SB!ParentOf,
         SBP!WorkOf, SB!WorkOf, SBP!HeightOf, SB!HeightOf,
         SBP!Register, SB!Register, SBP!ConfirmAll, SB!ConfirmAll,
         SBP!IsPath, SB!IsPath, SBP!bestVars, SB!bestVars,
         SBP!indexVars, SB!indexVars, SBP!updateAncestors, SB!updateAncestors,
         SBP!getAncDepth, SB!getAncDepth
<1> QED
  BY <1>1, <1>2

\* The instance of the proofs reads the tree as the contract does.
LEMMA SameReads ==
  /\ \A b : SBP!HeightOf(b) = SB!HeightOf(b)
  /\ \A b : SBP!isApproved(b) <=> SB!isApproved(b)
  /\ SBP!getChainHeight = SB!getChainHeight
  /\ \A b, h : SBP!AncestorAt(b, h) = SB!AncestorAt(b, h)
  /\ \A h : SBP!getSuperblockAt(h) = SB!getSuperblockAt(h)
BY DEF SBP!HeightOf, SB!HeightOf, SBP!isApproved, SB!isApproved,
       SBP!StatusOf, SB!StatusOf, SBP!getChainHeight, SB!getChainHeight,
       SBP!AncestorAt, SB!AncestorAt, SBP!ParentOf, SB!ParentOf, SBP!Ids, SB!Ids,
       SBP!getSuperblockAt, SB!getSuperblockAt, SBP!getAncDepth, SB!getAncDepth,
       SBP!getSuperblockAncestor, SB!getSuperblockAncestor, SBP!Depths, SB!Depths

\* The tree, as the refinement needs it.
TreeTyped ==
  /\ \A c \in Ids : SB!ParentOf(c) \in Ids /\ SB!HeightOf(c) \in Nat
  /\ SB!StatusOf(NoSuperblock) = "Uninitialized"
  /\ \A c \in SB!Registered : SB!HeightOf(SB!ParentOf(c)) < SB!HeightOf(c)

\* It follows from the inductive invariant of the tree.
LEMMA TreeFacts == ASSUME SBP!IInv PROVE TreeTyped
<1>1. SBP!TypeOK /\ SBP!NullIsBlank /\ SBP!Rooted
  BY DEF SBP!IInv
<1>2. \A c \in Ids : SB!ParentOf(c) \in Ids /\ SB!HeightOf(c) \in Nat
  BY <1>1 DEF SBP!TypeOK, SBP!SuperblockInfo, SBP!Ids, Ids, SB!ParentOf, SB!HeightOf
<1>3. SB!StatusOf(NoSuperblock) = "Uninitialized"
  BY <1>1 DEF SBP!NullIsBlank, SBP!Blank, SB!StatusOf
<1>4. ASSUME NEW c \in SB!Registered
      PROVE  SB!HeightOf(SB!ParentOf(c)) < SB!HeightOf(c)
  <2>1. c \in SBP!Registered /\ c \in Ids
    BY DEF SB!Registered, SBP!Registered, SB!StatusOf, SBP!StatusOf, Ids
  <2>2. SB!HeightOf(c) = SB!HeightOf(SB!ParentOf(c)) + 1
    BY <1>1, <2>1 DEF SBP!Rooted, SBP!HeightOf, SBP!ParentOf, SB!HeightOf, SB!ParentOf
  <2> QED
    BY <1>2, <2>1, <2>2
<1> QED
  BY <1>2, <1>3, <1>4 DEF TreeTyped

-----------------------------------------------------------------------------
(* Descent: what its recursive function is, and that it is there.          *)

IsDown(down, b) ==
  down = [c \in Ids |-> IF c = b THEN {}
                        ELSE IF c = NoSuperblock THEN {NoSuperblock}
                        ELSE {c} \cup down[SB!ParentOf(c)]]

\* A set that holds the parents of its superblocks, b's excepted.
Closed(T, b) ==
  \A x \in T : x # b /\ x # NoSuperblock => SB!ParentOf(x) \in T

\* The recursive function of Descent is defined, although nothing keeps its
\* equation from running around a circle: the least closed sets solve it.
LEMMA DownExists ==
  ASSUME TreeTyped, NEW b \in Ids
  PROVE  \E down : IsDown(down, b)
<1> DEFINE least(c) == {x \in Ids : \A T \in SUBSET Ids :
                                      c \in T /\ Closed(T, b) => x \in T}
<1> DEFINE down == [c \in Ids |-> least(c) \ {b}]
<1>1. ASSUME NEW c \in Ids
      PROVE  c \in least(c)
  OBVIOUS
<1>2. ASSUME NEW c \in Ids
      PROVE  Closed(least(c), b)
  <2> SUFFICES ASSUME NEW x \in least(c), x # b, x # NoSuperblock,
                      NEW T \in SUBSET Ids, c \in T, Closed(T, b)
               PROVE  SB!ParentOf(x) \in T
    BY DEF Closed, TreeTyped
  <2> QED
    BY DEF Closed
<1>3. ASSUME NEW c \in Ids, NEW T \in SUBSET Ids, c \in T, Closed(T, b)
      PROVE  least(c) \subseteq T
  BY <1>3
<1>4. ASSUME NEW c \in Ids
      PROVE  least(c) = IF c = b \/ c = NoSuperblock THEN {c}
                        ELSE {c} \cup least(SB!ParentOf(c))
  <2>1. CASE c = b \/ c = NoSuperblock
    <3>1. Closed({c}, b)
      BY <2>1 DEF Closed
    <3>2. least(c) \subseteq {c}
      <4> HIDE DEF least
      <4> QED BY <3>1, <1>3
    <3> QED
      BY <2>1, <3>2, <1>1
  <2>2. CASE ~(c = b \/ c = NoSuperblock)
    <3> DEFINE p == SB!ParentOf(c)
    <3>1. p \in Ids
      BY DEF TreeTyped
    <3>2. p \in least(c)
      BY <1>1, <1>2, <2>2 DEF Closed
    <3>3. least(p) \subseteq least(c) /\ least(c) \subseteq Ids /\ least(p) \subseteq Ids
      <4>1. least(c) \subseteq Ids /\ least(p) \subseteq Ids
        OBVIOUS
      <4> HIDE DEF least
      <4> QED BY <1>2, <1>3, <3>1, <3>2, <4>1
    <3>4. Closed({c} \cup least(p), b)
      <4>1. Closed(least(p), b) /\ p \in least(p)
        BY <3>1, <1>1, <1>2
      <4> HIDE DEF least
      <4> QED BY <4>1 DEF Closed
    <3>5. least(c) \subseteq {c} \cup least(p)
      <4> HIDE DEF least
      <4> QED BY <1>3, <3>3, <3>4
    <3>6. c \in least(c)
      BY <1>1
    <3> HIDE DEF least
    <3> QED
      BY <2>2, <3>3, <3>5, <3>6
  <2> QED
    BY <2>1, <2>2
<1> HIDE DEF least
<1>5. ASSUME NEW c \in Ids
      PROVE  down[c] = IF c = b THEN {}
                       ELSE IF c = NoSuperblock THEN {NoSuperblock}
                       ELSE {c} \cup down[SB!ParentOf(c)]
  <2>1. SB!ParentOf(c) \in Ids
    BY DEF TreeTyped
  <2>2. down[c] = least(c) \ {b} /\ down[SB!ParentOf(c)] = least(SB!ParentOf(c)) \ {b}
    BY <2>1
  <2> HIDE DEF down
  <2> QED
    BY <1>4, <2>2
<1>6. IsDown(down, b)
  <2>1. down = [c \in Ids |-> down[c]]
    OBVIOUS
  <2> HIDE DEF down
  <2> QED
    BY <1>5, <2>1 DEF IsDown
<1> QED
  BY <1>6

\* So Descent takes its values.
LEMMA DescentIsDown ==
  ASSUME TreeTyped, NEW b \in Ids
  PROVE  \E down : IsDown(down, b) /\ \A d : Descent(b, d) = down[d]
<1> DEFINE down == CHOOSE f : IsDown(f, b)
<1>1. IsDown(down, b)
  BY DownExists
<1>2. \A d : Descent(b, d) = down[d]
  BY DEF Descent, IsDown
<1> QED
  BY <1>1, <1>2

\* From d down to b, when all on the way are semi-approved: each is the parent
\* of another or d itself, none is higher than d, and the way ends above b.
LEMMA DescentIsPath ==
  ASSUME TreeTyped, NEW b \in Ids, NEW d \in Ids,
         \A c \in Descent(b, d) : SB!StatusOf(c) = "SemiApproved"
  PROVE  /\ Descent(b, d) \subseteq Superblocks
         /\ d = b => Descent(b, d) = {}
         /\ d # b => /\ d \in Descent(b, d)
                     /\ \E y \in Descent(b, d) : SB!ParentOf(y) = b
                     /\ SB!HeightOf(b) < SB!HeightOf(d)
         /\ \A x \in Descent(b, d) :
              /\ SB!HeightOf(x) <= SB!HeightOf(d)
              /\ x # d => \E y \in Descent(b, d) : SB!ParentOf(y) = x
<1>1. PICK down : IsDown(down, b) /\ \A c : Descent(b, c) = down[c]
  BY DescentIsDown
<1> DEFINE Path(c) ==
      /\ down[c] \subseteq Superblocks
      /\ c = b => down[c] = {}
      /\ c # b => /\ c \in down[c]
                  /\ \E y \in down[c] : SB!ParentOf(y) = b
                  /\ SB!HeightOf(b) < SB!HeightOf(c)
      /\ \A x \in down[c] :
           /\ SB!HeightOf(x) <= SB!HeightOf(c)
           /\ x # c => \E y \in down[c] : SB!ParentOf(y) = x
<1> DEFINE Bad == {c \in Ids : /\ \A x \in down[c] : SB!StatusOf(x) = "SemiApproved"
                             /\ ~Path(c)}
<1>2. Bad = {}
  <2> SUFFICES ASSUME Bad # {} PROVE FALSE
    OBVIOUS
  <2> HIDE DEF Path
  <2> DEFINE heights == {SB!HeightOf(c) : c \in Bad}
  <2>1. heights \in SUBSET Nat /\ heights # {}
    BY DEF TreeTyped
  <2>2. PICK h \in heights : \A k \in heights : h <= k
    <3> HIDE DEF heights
    <3> QED BY <2>1, LeastNatural
  <2>3. PICK c \in Bad : h = SB!HeightOf(c)
    BY <2>2
  <2>4. /\ c \in Ids /\ ~Path(c)
        /\ \A x \in down[c] : SB!StatusOf(x) = "SemiApproved"
    BY <2>3
  <2>5. c # b
    BY <1>1, <2>4 DEF IsDown, Path
  <2>6. c # NoSuperblock
    BY <1>1, <2>4, <2>5 DEF IsDown, TreeTyped
  <2> DEFINE p == SB!ParentOf(c)
  <2>7. down[c] = {c} \cup down[p]
    BY <1>1, <2>4, <2>5, <2>6 DEF IsDown
  <2>8. c \in SB!Registered /\ p \in Ids /\ SB!HeightOf(p) < SB!HeightOf(c)
    BY <2>4, <2>6, <2>7 DEF TreeTyped, SB!Registered, Ids
  <2>9. SB!HeightOf(p) \in Nat /\ SB!HeightOf(c) \in Nat /\ SB!HeightOf(b) \in Nat
    BY <2>4, <2>8 DEF TreeTyped
  <2>10. Path(p)
    <3>1. p \notin Bad
      <4> SUFFICES ASSUME p \in Bad PROVE FALSE
        OBVIOUS
      <4>1. h <= SB!HeightOf(p)
        BY <2>2
      <4> QED
        BY <2>3, <2>8, <2>9, <4>1
    <3> QED
      BY <2>4, <2>7, <2>8, <3>1
  <2>11. /\ down[c] \subseteq Superblocks
         /\ \A x \in down[p] : SB!HeightOf(x) \in Nat
    BY <2>4, <2>6, <2>7, <2>10 DEF Path, TreeTyped, Ids
  <2>12. /\ c \in down[c]
         /\ \E y \in down[c] : SB!ParentOf(y) = b
         /\ SB!HeightOf(b) < SB!HeightOf(c)
    BY <2>7, <2>8, <2>9, <2>10 DEF Path
  <2>13. ASSUME NEW x \in down[c]
         PROVE  /\ SB!HeightOf(x) <= SB!HeightOf(c)
                /\ x # c => \E y \in down[c] : SB!ParentOf(y) = x
    BY <2>7, <2>8, <2>9, <2>10, <2>11 DEF Path
  <2>14. Path(c)
    BY <2>5, <2>11, <2>12, <2>13 DEF Path
  <2> QED
    BY <2>4, <2>14
<1>3. d \notin Bad /\ \A x \in down[d] : SB!StatusOf(x) = "SemiApproved"
  BY <1>1, <1>2
<1>4. Path(d)
  BY <1>3
<1> QED
  BY <1>1, <1>4

-----------------------------------------------------------------------------
(* Every transaction is one of the tree, or leaves it alone.               *)

\* A superblock confirmed alone is a path.
LEMMA ConfirmOne ==
  ASSUME TreeTyped, NEW b \in Superblocks, SB!ConfirmAll({b})
  PROVE  SB!ConfirmPath
<1>1. SB!HeightOf(b) <= SB!HeightOf(b)
  BY DEF TreeTyped, Ids
<1>2. SB!IsPath({b})
  BY <1>1 DEF SB!IsPath
<1> QED
  BY <1>2 DEF SB!ConfirmPath

\* confirmClaim confirms the superblock, alone or with its descendants to d.
LEMMA ConfirmClaimRefines ==
  ASSUME TreeTyped, NEW b \in Superblocks, NEW d \in Superblocks,
         ConfirmClaim(b, d)
  PROVE  SB!ConfirmPath
<1> DEFINE down == Descent(b, d)
<1> DEFINE S == {b} \cup down
<1>1. /\ SB!StatusOf(b) = "SemiApproved"
      /\ \A c \in down : SB!StatusOf(c) = "SemiApproved"
      /\ SB!ConfirmAll({b}) \/ SB!ConfirmAll(S)
  BY DEF ConfirmClaim
<1>2. CASE SB!ConfirmAll({b})
  BY <1>2, ConfirmOne
<1>3. CASE SB!ConfirmAll(S)
  <2>1. b \in Ids /\ d \in Ids
    BY DEF Ids
  <2>2. /\ down \subseteq Superblocks
        /\ d = b => down = {}
        /\ d # b => /\ d \in down
                    /\ \E y \in down : SB!ParentOf(y) = b
                    /\ SB!HeightOf(b) < SB!HeightOf(d)
        /\ \A x \in down :
             /\ SB!HeightOf(x) <= SB!HeightOf(d)
             /\ x # d => \E y \in down : SB!ParentOf(y) = x
    BY <1>1, <2>1, DescentIsPath
  <2> HIDE DEF down
  <2>3. SB!HeightOf(b) \in Nat /\ SB!HeightOf(d) \in Nat
    BY <2>1 DEF TreeTyped
  <2>4. d \in S /\ S \in SUBSET Superblocks
    BY <2>2
  <2>5. \A x \in S : /\ SB!HeightOf(x) <= SB!HeightOf(d)
                     /\ x # d => \E y \in S : SB!ParentOf(y) = x
    BY <2>2, <2>3
  <2>6. SB!IsPath(S)
    BY <2>4, <2>5 DEF SB!IsPath
  <2> QED
    BY <1>3, <2>4, <2>6 DEF SB!ConfirmPath
<1> QED
  BY <1>1, <1>2, <1>3

\* Every transaction.
LEMMA TreeStep ==
  ASSUME TreeTyped, [Next]_vars
  PROVE  [SB!Next]_SB!vars
<1>1. CASE UNCHANGED superblockVars
  BY <1>1 DEF superblockVars, SB!vars
<1>2. ASSUME NEW b \in Superblocks, NEW w \in Works, Initialize(b, w)
      PROVE  SB!Next
  BY <1>2 DEF Initialize, SB!Next
<1>3. ASSUME NEW a \in Accounts, NEW b \in Superblocks, NEW p \in Superblocks,
             NEW w \in Works, NEW t \in Timestamps, ProposeSuperblock(a, b, p, w, t)
      PROVE  SB!Next
  BY <1>3 DEF ProposeSuperblock, SB!Next
<1>4. ASSUME NEW a \in Accounts, NEW b \in Superblocks, ChallengeSuperblock(a, b)
      PROVE  SB!Next
  BY <1>4 DEF ChallengeSuperblock, SB!Next
<1>5. ASSUME NEW b \in Superblocks, FailClaim(b) \/ RejectClaim(b)
      PROVE  SB!Next
  BY <1>5 DEF FailClaim, RejectClaim, SB!Next
<1>6. ASSUME NEW b \in Superblocks, PassClaim(b)
      PROVE  SB!Next
  <2>1. SB!ConfirmAll({b}) \/ SB!SemiApprove(b)
    BY <1>6 DEF PassClaim, SB!Confirm
  <2> QED
    BY <2>1, ConfirmOne DEF SB!Next
<1>7. ASSUME NEW b \in Superblocks, NEW d \in Superblocks, ConfirmClaim(b, d)
      PROVE  SB!Next
  BY <1>7, ConfirmClaimRefines DEF SB!Next
<1>8. ASSUME NEW s \in sessions, ConvictChallenger(s) \/ ConvictSubmitter(s)
      PROVE  UNCHANGED superblockVars
  BY <1>8 DEF ConvictChallenger, ConvictSubmitter, SessionDecided
<1>9. ASSUME NEW a \in Accounts, NEW n,
              MakeDeposit(a, n) \/ WithdrawDeposit(a, n)
       PROVE  UNCHANGED superblockVars
  BY <1>9 DEF MakeDeposit, WithdrawDeposit
<1>10. ASSUME NEW s \in sessions, NEW a \in Accounts, NEW n, BondForBattle(s, a, n)
       PROVE  UNCHANGED superblockVars
  BY <1>10 DEF BondForBattle
<1>11. Tick \/ UNCHANGED vars => UNCHANGED superblockVars
  BY DEF Tick, vars
<1>12. SB!Next \/ UNCHANGED superblockVars
  BY <1>2, <1>3, <1>4, <1>5, <1>6, <1>7, <1>8, <1>9, <1>10, <1>11 DEF Next
<1> QED
  BY <1>1, <1>12

\* The invariant of the tree, from the proofs about it.
LEMMA TreeInvariant ==
  /\ Init => SBP!SkipInv
  /\ SBP!SkipInv /\ [Next]_vars => SBP!SkipInv' /\ [SB!Next]_SB!vars
<1>1. ASSUME Init
      PROVE  SBP!SkipInv
  <2>1. SBP!Init
    BY <1>1, SameTree DEF Init
  <2> QED
    BY <2>1, SBP!SkipInit, SuperblocksAssumption
<1>2. ASSUME SBP!SkipInv, [Next]_vars
      PROVE  SBP!SkipInv' /\ [SB!Next]_SB!vars
  <2>1. [SB!Next]_SB!vars
    BY <1>2, TreeFacts, TreeStep DEF SBP!SkipInv
  <2>2. [SBP!Next]_SBP!vars
    BY <2>1, SameTree
  <2>3. SBP!SkipInv'
    BY <1>2, <2>2, SBP!SkipStep, SuperblocksAssumption
  <2> QED
    BY <2>1, <2>3
<1> QED
  BY <1>1, <1>2

\* The superblocks seen by the claims are those of the contract's own
\* specification.
THEOREM SuperblocksRefined == Spec => SuperblocksSpec
<1>1. Init => SB!Init
  BY DEF Init
<1> QED
  BY <1>1, TreeInvariant, PTL DEF Spec, SuperblocksSpec, SB!Spec

-----------------------------------------------------------------------------
(* What doPayChallengers adds to the bonds.                                *)

\* Multiplication and division, as the shares use them.
LEMMA Product == ASSUME NEW m \in Nat, NEW n \in Nat PROVE m * n \in Nat
OBVIOUS

\* A quotient is the share that is rounded down.
LEMMA Quotient ==
  ASSUME NEW m \in Nat, NEW n \in Nat, n > 0
  PROVE  m \div n \in Nat /\ (m \div n) * n <= m
OBVIOUS

\* Sums of shares are shares of sums.
LEMMA ShareSum ==
  ASSUME NEW x \in Int, NEW d \in Int, NEW t \in Int, NEW r \in Int,
         NEW p \in Int, NEW b \in Int, x * t <= r * p, d * t <= r * b
  PROVE  (x + d) * t <= r * (p + b)
<1>1. (x + d) * t = x * t + d * t /\ r * (p + b) = r * p + r * b
  OBVIOUS
<1>2. x * t \in Int /\ d * t \in Int /\ r * p \in Int /\ r * b \in Int
  OBVIOUS
<1> QED
  BY <1>1, <1>2

\* Who gets at most all shares gets at most the rewards.
LEMMA ShareBound ==
  ASSUME NEW x \in Int, NEW r \in Int, NEW t \in Nat, t > 0, x * t <= r * t
  PROVE  x <= r
<1> SUFFICES ASSUME x > r PROVE FALSE
  OBVIOUS
<1>1. PICK k \in Nat : x = r + 1 + k
  <2>1. x - r - 1 \in Nat /\ x = r + 1 + (x - r - 1)
    OBVIOUS
  <2> QED
    BY <2>1
<1>2. x * t = r * t + t + k * t
  BY <1>1
<1>3. k * t \in Nat /\ r * t \in Int
  BY Product
<1> QED
  BY <1>2, <1>3

\* The recursive function of Rewarded over n challengers of the queue.
IsAfter(after, bonds, rewards, total, queue, N) ==
  after = [n \in 0 .. N |->
             IF n = 0 THEN bonds
             ELSE [after[n - 1] EXCEPT ![queue[n]] = @ + (rewards * @) \div total]]

\* It is defined, one challenger after the other.
LEMMA AfterExists ==
  ASSUME NEW bonds, NEW rewards, NEW total, NEW queue, NEW N \in Nat
  PROVE  \E after : IsAfter(after, bonds, rewards, total, queue, N)
<1> DEFINE S == {n \in Nat : \E after : IsAfter(after, bonds, rewards, total, queue, n)}
<1>1. 0 \in S
  <2> DEFINE f == [n \in 0 .. 0 |-> bonds]
  <2>1. IsAfter(f, bonds, rewards, total, queue, 0)
    BY DEF IsAfter
  <2> QED
    BY <2>1
<1>2. ASSUME NEW n \in 0 .. N, n \in S, n < N
      PROVE  n + 1 \in S
  <2>1. PICK g : IsAfter(g, bonds, rewards, total, queue, n)
    BY <1>2
  <2> DEFINE next == [g[n] EXCEPT ![queue[n + 1]] = @ + (rewards * @) \div total]
  <2> DEFINE f == [m \in 0 .. n + 1 |-> IF m = n + 1 THEN next ELSE g[m]]
  <2>2. \A m \in 0 .. n : f[m] = g[m]
    OBVIOUS
  <2>3. \A m \in 0 .. n : g[m] =
             IF m = 0 THEN bonds
             ELSE [g[m - 1] EXCEPT ![queue[m]] = @ + (rewards * @) \div total]
    BY <2>1 DEF IsAfter
  <2>4. f[n + 1] = [f[n] EXCEPT ![queue[n + 1]] = @ + (rewards * @) \div total]
    <3>1. n \in Nat /\ n \in 0 .. n /\ n + 1 \in 0 .. n + 1
      OBVIOUS
    <3>2. f[n] = g[n]
      BY <2>2, <3>1
    <3>3. f[n + 1] = next
      <4> HIDE DEF next
      <4> QED
        BY <3>1
    <3> HIDE DEF f
    <3> QED
      BY <3>2, <3>3
  <2>5. \A m \in 0 .. n + 1 : f[m] =
             IF m = 0 THEN bonds
             ELSE [f[m - 1] EXCEPT ![queue[m]] = @ + (rewards * @) \div total]
    <3> HIDE DEF next
    <3> SUFFICES ASSUME NEW m \in 0 .. n + 1
                 PROVE  f[m] =
             IF m = 0 THEN bonds
             ELSE [f[m - 1] EXCEPT ![queue[m]] = @ + (rewards * @) \div total]
      OBVIOUS
    <3>1. CASE m = n + 1
      <4>1. m # 0 /\ m - 1 = n
        BY <3>1
      <4> HIDE DEF f
      <4> QED
        BY <3>1, <4>1, <2>4
    <3>2. CASE m # n + 1
      <4>1. m \in 0 .. n /\ (m # 0 => m - 1 \in 0 .. n)
        BY <3>2
      <4> HIDE DEF f
      <4> QED
        BY <4>1, <2>2, <2>3
    <3> QED
      BY <3>1, <3>2
  <2>6. f = [m \in 0 .. n + 1 |-> f[m]]
    OBVIOUS
  <2> HIDE DEF f
  <2>7. IsAfter(f, bonds, rewards, total, queue, n + 1)
    BY <2>5, <2>6 DEF IsAfter
  <2> QED
    BY <2>7
<1> HIDE DEF S
<1>3. N \in S
  BY <1>1, <1>2, CountUp
<1> QED
  BY <1>3 DEF S

\* Rewarded ends with what that function gives.
LEMMA RewardedAfter ==
  ASSUME NEW bonds, NEW rewards, NEW total, NEW queue, Len(queue) \in Nat
  PROVE  \E after : /\ IsAfter(after, bonds, rewards, total, queue, Len(queue))
                    /\ Rewarded(bonds, rewards, total, queue) = after[Len(queue)]
<1> DEFINE f == CHOOSE after : IsAfter(after, bonds, rewards, total, queue, Len(queue))
<1>1. IsAfter(f, bonds, rewards, total, queue, Len(queue))
  BY AfterExists
<1>2. Rewarded(bonds, rewards, total, queue) = f[Len(queue)]
  BY DEF Rewarded, IsAfter
<1> QED
  BY <1>1, <1>2

\* The bonds when the challenger c was given its share.
WithShare(bonds, c, rewards, total) ==
  [bonds EXCEPT ![c] = @ + (rewards * @) \div total]

\* One share: the bonds stay bonds, none shrinks, and their sum grows by it.
LEMMA OneShare ==
  ASSUME NEW x, x \in [Accounts -> Nat], NEW c, c \in Accounts,
         NEW rewards \in Nat, NEW total \in Nat, total > 0,
         NEW y, y = WithShare(x, c, rewards, total)
  PROVE  /\ y \in [Accounts -> Nat]
         /\ \A a \in Accounts : x[a] <= y[a]
         /\ \E d \in Nat :
              /\ SumFunctionOnSet(y, Accounts) = SumFunctionOnSet(x, Accounts) + d
              /\ d * total <= rewards * x[c]
<1> DEFINE d == (rewards * x[c]) \div total
<1>1. x[c] \in Nat
  OBVIOUS
<1>2. rewards * x[c] \in Nat
  BY <1>1, Product
<1>3. d \in Nat /\ d * total <= rewards * x[c]
  BY <1>2, Quotient
<1>4. y = [x EXCEPT ![c] = x[c] + d]
  BY DEF WithShare
<1> HIDE DEF d
<1>5. /\ y \in [Accounts -> Nat]
      /\ \A a \in Accounts : x[a] <= y[a]
      /\ \A a \in Accounts \ {c} : y[a] = x[a]
      /\ y[c] = x[c] + d
  BY <1>1, <1>3, <1>4
<1>6. SumFunctionOnSet(y, Accounts) = SumFunctionOnSet(x, Accounts) + (y[c] - x[c])
  <2>1. \A a \in Accounts : x[a] \in Int /\ y[a] \in Int
    BY <1>5
  <2>2. IsFiniteSet(Accounts)
    BY FiniteAssumption
  <2>3. \A a \in Accounts \ {c} : y[a] = x[a]
    BY <1>5
  <2> QED
    BY <2>1, <2>2, <2>3, SumUpdate
<1>7. y[c] - x[c] = d
  BY <1>1, <1>3, <1>5
<1> QED
  BY <1>3, <1>5, <1>6, <1>7

\* The function, one challenger after the other.
LEMMA AfterSteps ==
  ASSUME NEW bonds \in [Accounts -> Nat], NEW rewards \in Nat,
         NEW total \in Nat, NEW queue \in Seq(Accounts), NEW N \in Nat,
         NEW after, IsAfter(after, bonds, rewards, total, queue, N)
  PROVE  /\ after[0] = bonds
         /\ \A n \in 0 .. N : n < N =>
              after[n + 1] = WithShare(after[n], queue[n + 1], rewards, total)
<1>1. \A n \in 0 .. N : after[n] =
             IF n = 0 THEN bonds
             ELSE [after[n - 1] EXCEPT ![queue[n]] = @ + (rewards * @) \div total]
  BY DEF IsAfter
<1>2. 0 \in 0 .. N
  OBVIOUS
<1>3. ASSUME NEW n \in 0 .. N, n < N
      PROVE  after[n + 1] = WithShare(after[n], queue[n + 1], rewards, total)
  <2>1. n + 1 \in 0 .. N /\ n + 1 # 0 /\ (n + 1) - 1 = n
    BY <1>3
  <2> QED
    BY <1>1, <2>1 DEF WithShare
<1> QED
  BY <1>1, <1>2, <1>3

\* The accounts at the first n places of the queue.
First(queue, n) == {queue[i] : i \in 1 .. n}

\* The bonds x are what the first n of the queue have made of others.
GrownBy(x, bonds, queue, n) ==
  /\ x \in [Accounts -> Nat]
  /\ \A a \in Accounts : x[a] >= bonds[a]
  /\ \A a \in Accounts \ First(queue, n) : x[a] = bonds[a]

\* Whoever queues, every bond stays or grows, and only those in the queue grow.
LEMMA AfterGrows ==
  ASSUME NEW bonds \in [Accounts -> Nat], NEW rewards \in Nat,
         NEW total \in Nat, NEW queue \in Seq(Accounts),
         NEW N \in Nat, N = Len(queue), N > 0 => total > 0, NEW after,
         IsAfter(after, bonds, rewards, total, queue, N)
  PROVE  \A n \in 0 .. N : GrownBy(after[n], bonds, queue, n)
<1>1. /\ after[0] = bonds
      /\ \A n \in 0 .. N : n < N =>
           after[n + 1] = WithShare(after[n], queue[n + 1], rewards, total)
  BY AfterSteps, SMTT(30)
<1> DEFINE Grows(n) ==
      /\ after[n] \in [Accounts -> Nat]
      /\ \A a \in Accounts : after[n][a] >= bonds[a]
      /\ \A a \in Accounts \ First(queue, n) : after[n][a] = bonds[a]
<1> DEFINE S == {n \in 0 .. N : Grows(n)}
<1>2. 0 \in S
  <2>1. \A a \in Accounts : bonds[a] \in Nat /\ bonds[a] >= bonds[a]
    OBVIOUS
  <2>2. Grows(0)
    BY <1>1, <2>1
  <2>3. 0 \in 0 .. N
    OBVIOUS
  <2> HIDE DEF Grows
  <2> QED
    BY <2>2, <2>3
<1>3. ASSUME NEW n \in 0 .. N, n \in S, n < N
      PROVE  n + 1 \in S
  <2>1. PICK c : c = queue[n + 1]
    OBVIOUS
  <2>2. Grows(n) /\ n \in Nat /\ n + 1 \in 1 .. N /\ (n + 1) - 1 = n
    BY <1>3
  <2>3. c \in Accounts /\ total > 0
    BY <2>1, <2>2, ElementOfSeq
  <2>4. after[n + 1] = WithShare(after[n], c, rewards, total)
    BY <1>1, <1>3, <2>1
  <2>5. /\ First(queue, n) \subseteq First(queue, n + 1)
        /\ c \in First(queue, n + 1)
    BY <2>1, <2>2 DEF First
  <2>6. /\ after[n + 1] \in [Accounts -> Nat]
        /\ \A a \in Accounts : after[n + 1][a] >= after[n][a]
        /\ \A a \in Accounts : a # c => after[n + 1][a] = after[n][a]
    <3>1. PICK x : x = after[n] /\ x \in [Accounts -> Nat]
      BY <2>2
    <3>2. PICK y : y = WithShare(x, c, rewards, total)
      OBVIOUS
    <3>3. x \in [Accounts -> Nat] /\ c \in Accounts /\ total > 0
      BY <2>3, <3>1
    <3>4. \A a \in Accounts \ {c} : y[a] = x[a]
      BY <3>3, <3>2 DEF WithShare
    <3>5. y \in [Accounts -> Nat]
      BY <3>2, <3>3, OneShare, ZenonT(30)
    <3>6. \A a \in Accounts : x[a] <= y[a]
      BY <3>2, <3>3, OneShare, ZenonT(30)
    <3>7. after[n + 1] = y
      BY <2>4, <3>1, <3>2
    <3> QED
      BY <3>1, <3>4, <3>5, <3>6, <3>7
  <2>7. \A a \in Accounts : after[n + 1][a] >= bonds[a]
    BY <2>2, <2>6, SMTT(30)
  <2>8. \A a \in Accounts \ First(queue, n + 1) : after[n + 1][a] = bonds[a]
    BY <2>2, <2>5, <2>6
  <2>9. Grows(n + 1)
    BY <2>6, <2>7, <2>8
  <2>10. n + 1 \in 0 .. N
    BY <2>2
  <2> HIDE DEF Grows
  <2> QED
    BY <2>9, <2>10
<1> HIDE DEF S, Grows
<1>4. \A n \in 0 .. N : n \in S
  BY <1>2, <1>3, CountUp
<1> QED
  BY <1>4 DEF S, Grows, GrownBy

\* The bonds x are what the queue has made of others.
Grown(x, bonds, queue) == GrownBy(x, bonds, queue, Len(queue))

\* So it is at the end of the queue.
LEMMA AfterAll ==
  ASSUME NEW bonds \in [Accounts -> Nat], NEW rewards \in Nat,
         NEW total \in Nat, NEW queue \in Seq(Accounts),
         NEW N \in Nat, N = Len(queue), N > 0 => total > 0, NEW after,
         IsAfter(after, bonds, rewards, total, queue, N)
  PROVE  Grown(after[N], bonds, queue)
<1>1. N \in 0 .. N
  OBVIOUS
<1>2. \A n \in 0 .. N : GrownBy(after[n], bonds, queue, n)
  BY AfterGrows
<1>3. GrownBy(after[N], bonds, queue, N)
  BY <1>1, <1>2
<1> QED
  BY <1>3 DEF Grown, GrownBy

\* No place of the queue holds the same account as another.
AllDifferent(queue) ==
  \A i, j \in 1 .. Len(queue) : queue[i] = queue[j] => i = j

\* The challengers' bonds at the first n places.
Places(bonds, queue) == [i \in 1 .. Len(queue) |-> bonds[queue[i]]]

\* Their sum; all of them is TotalDeposits.
PlacesSum(bonds, queue, n) == SumFunctionOnSet(Places(bonds, queue), 1 .. n)

\* A sum over the first places grows by the next one.
LEMMA SumNext ==
  ASSUME NEW n \in Nat, NEW f, \A i \in 1 .. n + 1 : f[i] \in Nat
  PROVE  SumFunctionOnSet(f, 1 .. n + 1) = SumFunctionOnSet(f, 1 .. n) + f[n + 1]
<1>1. PICK T, m : T = 1 .. n /\ m = n + 1
  OBVIOUS
<1>2. 1 .. n + 1 = T \cup {m} /\ m \notin T
  BY <1>1
<1>3. IsFiniteSet(T)
  BY <1>1, FS_Interval
<1>4. \A i \in T \cup {m} : f[i] \in Int
  BY <1>2
<1>5. SumFunctionOnSet(f, T \cup {m}) = SumFunctionOnSet(f, T) + f[m]
  BY <1>2, <1>3, <1>4, SumAdd
<1> QED
  BY <1>1, <1>2, <1>5

\* When no account queues twice, the shares are parts of the rewards.
LEMMA SharesBounded ==
  ASSUME NEW bonds \in [Accounts -> Nat], NEW rewards \in Nat,
         NEW queue \in Seq(Accounts), AllDifferent(queue), NEW total \in Nat,
         total = PlacesSum(bonds, queue, Len(queue)),
         Len(queue) > 0 => total > 0
  PROVE  SumFunctionOnSet(Rewarded(bonds, rewards, total, queue), Accounts)
           <= SumFunctionOnSet(bonds, Accounts) + rewards
<1> USE FiniteAssumption
<1>1. PICK N \in Nat : N = Len(queue)
  OBVIOUS
<1>2. PICK after : /\ IsAfter(after, bonds, rewards, total, queue, N)
                   /\ Rewarded(bonds, rewards, total, queue) = after[N]
  BY <1>1, RewardedAfter
<1>3. /\ after[0] = bonds
      /\ \A n \in 0 .. N : n < N =>
           after[n + 1] = WithShare(after[n], queue[n + 1], rewards, total)
  BY <1>2, AfterSteps
<1>4. \A n \in 0 .. N :
           /\ after[n] \in [Accounts -> Nat]
           /\ \A a \in Accounts \ First(queue, n) : after[n][a] = bonds[a]
  <2>1. \A n \in 0 .. N : GrownBy(after[n], bonds, queue, n)
    BY <1>1, <1>2, AfterGrows
  <2> QED
    BY <2>1 DEF GrownBy
<1> DEFINE f == Places(bonds, queue)
<1> DEFINE P(n) == SumFunctionOnSet(f, 1 .. n)
<1> DEFINE X(n) == SumFunctionOnSet(after[n], Accounts)
<1> DEFINE B == SumFunctionOnSet(bonds, Accounts)
<1>5. \A n \in 0 .. N : X(n) \in Nat
  <2> SUFFICES ASSUME NEW n \in 0 .. N PROVE X(n) \in Nat
    OBVIOUS
  <2>1. \A a \in Accounts : after[n][a] \in Nat
    BY <1>4
  <2> QED
    BY <2>1, SumNat
<1>6. B \in Nat
  <2>1. \A a \in Accounts : bonds[a] \in Nat
    OBVIOUS
  <2> QED
    BY <2>1, SumNat
<1>7. \A i \in 1 .. N : queue[i] \in Accounts /\ f[i] = bonds[queue[i]] /\ f[i] \in Nat
  BY <1>1, ElementOfSeq DEF Places
<1> HIDE DEF f
<1>8. \A n \in 0 .. N : P(n) \in Nat
  <2> SUFFICES ASSUME NEW n \in 0 .. N PROVE P(n) \in Nat
    OBVIOUS
  <2>1. n \in Nat /\ \A i \in 1 .. n : f[i] \in Nat
    BY <1>7
  <2>2. IsFiniteSet(1 .. n)
    BY <2>1, FS_Interval
  <2> QED
    BY <2>1, <2>2, SumNat
<1> DEFINE Within(n) == (X(n) - B) * total <= rewards * P(n)
<1> DEFINE S == {n \in 0 .. N : Within(n)}
<1>9. 0 \in S
  <2>1. X(0) - B = 0
    BY <1>6, <1>3
  <2>2. 0 * total = 0 /\ rewards * P(0) \in Nat /\ 0 \in 0 .. N
    BY <1>8, Product
  <2> HIDE DEF X, P, B
  <2> QED
    BY <2>1, <2>2
<1>10. ASSUME NEW n \in 0 .. N, n \in S, n < N
       PROVE  n + 1 \in S
  <2>1. PICK c : c = queue[n + 1]
    OBVIOUS
  <2>2. Within(n) /\ n \in Nat /\ n + 1 \in 1 .. N /\ n + 1 \in 0 .. N
    BY <1>10
  <2>3. c \in Accounts /\ total > 0 /\ bonds[c] \in Nat
    BY <1>1, <1>7, <2>1, <2>2
  <2>4. after[n + 1] = WithShare(after[n], c, rewards, total)
    BY <1>3, <1>10, <2>1
  <2>5. c \notin First(queue, n)
    <3> SUFFICES ASSUME NEW i \in 1 .. n, queue[i] = c PROVE FALSE
      BY DEF First
    <3>1. i \in 1 .. Len(queue) /\ n + 1 \in 1 .. Len(queue) /\ i # n + 1
      BY <1>1, <2>2
    <3> QED
      BY <2>1, <3>1 DEF AllDifferent
  <2>6. f[n + 1] = bonds[c]
    BY <1>7, <2>1, <2>2
  <2>7. PICK x : x = after[n] /\ x \in [Accounts -> Nat]
    BY <1>4, <2>2
  <2>8. x[c] = bonds[c]
    BY <1>4, <2>3, <2>5, <2>7
  <2>9. PICK y : y = WithShare(x, c, rewards, total)
    OBVIOUS
  <2>10. PICK d \in Nat :
           /\ SumFunctionOnSet(y, Accounts) = SumFunctionOnSet(x, Accounts) + d
           /\ d * total <= rewards * x[c]
    BY <2>3, <2>7, <2>9, OneShare
  <2>11. X(n + 1) = X(n) + d
    BY <2>4, <2>7, <2>9, <2>10
  <2>12. P(n + 1) = P(n) + bonds[c]
    <3>1. \A i \in 1 .. n + 1 : f[i] \in Nat
      BY <1>7, <2>2
    <3>2. P(n + 1) = P(n) + f[n + 1]
      BY <2>2, <3>1, SumNext
    <3> QED
      BY <2>6, <3>2
  <2>13. X(n) \in Nat /\ P(n) \in Nat
    BY <1>5, <1>8
  <2> HIDE DEF X, P, B
  <2>14. d * total <= rewards * bonds[c]
    BY <2>8, <2>10
  <2>15. ((X(n) - B) + d) * total <= rewards * (P(n) + bonds[c])
    <3>1. PICK x1 \in Int : x1 = X(n) - B
      BY <1>6, <2>13
    <3>2. PICK p \in Int : p = P(n)
      BY <2>13
    <3>3. PICK k \in Int : k = bonds[c]
      BY <2>3
    <3>4. x1 * total <= rewards * p /\ d * total <= rewards * k
      BY <2>2, <2>14, <3>1, <3>2, <3>3
    <3>5. d \in Int /\ total \in Int /\ rewards \in Int
      OBVIOUS
    <3>6. (x1 + d) * total <= rewards * (p + k)
      BY <3>4, <3>5, ShareSum
    <3> QED
      BY <3>1, <3>2, <3>3, <3>6
  <2>16. X(n + 1) - B = (X(n) - B) + d
    BY <1>6, <2>11, <2>13
  <2>17. Within(n + 1)
    BY <2>12, <2>15, <2>16
  <2> HIDE DEF Within
  <2> QED
    BY <2>2, <2>17
<1>11. N \in S
  <2> HIDE DEF S
  <2>1. \A n \in 0 .. N : n \in S
    BY <1>9, <1>10, CountUp
  <2> QED
    BY <2>1
<1>12. P(N) = total
  BY <1>1 DEF f, PlacesSum
<1>13. X(N) \in Nat /\ X(N) = SumFunctionOnSet(Rewarded(bonds, rewards, total, queue), Accounts)
  BY <1>2, <1>5
<1> HIDE DEF X, P, B
<1>14. (X(N) - B) * total <= rewards * total
  BY <1>11, <1>12
<1>15. X(N) <= B + rewards
  <2>1. CASE total > 0
    <3>1. X(N) - B \in Int
      BY <1>6, <1>13
    <3>2. X(N) - B <= rewards
      BY <1>14, <2>1, <3>1, ShareBound
    <3> QED
      BY <1>6, <1>13, <3>2
  <2>2. CASE N = 0
    <3>1. X(0) = B
      BY <1>3 DEF X, B
    <3> QED
      BY <1>6, <2>2, <3>1
  <2> QED
    BY <1>1, <2>1, <2>2
<1> QED
  BY <1>13, <1>15 DEF B

\* DistinctChallengers says that places and accounts correspond.
LEMMA DistinctMeans ==
  ASSUME NEW s \in Seq(Accounts)
  PROVE  Cardinality(ToSet(s)) = Len(s) <=> AllDifferent(s)
<1>1. PICK m \in Nat : m = Len(s)
  OBVIOUS
<1>2. DOMAIN s = 1 .. m /\ s \in [1 .. m -> Accounts]
  BY <1>1, LenProperties
<1> DEFINE T == ToSet(s)
<1>3. T = {s[i] : i \in 1 .. m}
  BY <1>2 DEF ToSet
<1>4. s \in [1 .. m -> T]
  BY <1>2, <1>3
<1>5. s \in Surjection(1 .. m, T)
  <2>1. \A t \in T : \E i \in 1 .. m : s[i] = t
    BY <1>3
  <2> HIDE DEF T
  <2> QED
    BY <1>4, <2>1, Fun_IsSurj
<1>6. IsFiniteSet(1 .. m) /\ Cardinality(1 .. m) = m
  BY FS_Interval
<1> HIDE DEF T
<1>7. Cardinality(T) = m <=> s \in Injection(1 .. m, T)
  BY <1>5, <1>6, FS_Surjection
<1>8. s \in Injection(1 .. m, T) <=> AllDifferent(s)
  BY <1>1, <1>2, <1>4 DEF Injection, IsInjective, AllDifferent
<1> QED
  BY <1>1, <1>7, <1>8 DEF T

\* A queue that is distinct was so before the last one came.
LEMMA DistinctBefore ==
  ASSUME NEW s \in Seq(Accounts), NEW who \in Accounts,
         AllDifferent(Append(s, who))
  PROVE  AllDifferent(s)
<1> SUFFICES ASSUME NEW i \in 1 .. Len(s), NEW j \in 1 .. Len(s), s[i] = s[j]
             PROVE  i = j
  BY DEF AllDifferent
<1>1. PICK m \in Nat : m = Len(s)
  OBVIOUS
<1>2. /\ Append(s, who)[i] = s[i] /\ Append(s, who)[j] = s[j]
      /\ Len(Append(s, who)) = m + 1
  BY <1>1, AppendProperties
<1>3. i \in 1 .. m + 1 /\ j \in 1 .. m + 1
  BY <1>1
<1> QED
  BY <1>2, <1>3 DEF AllDifferent

\* The queue up to a place.
LEMMA SubQueue ==
  ASSUME NEW s \in Seq(Accounts), NEW k \in Nat, k <= Len(s)
  PROVE  /\ SubSeq(s, 1, k) \in Seq(Accounts)
         /\ Len(SubSeq(s, 1, k)) = k
         /\ DOMAIN SubSeq(s, 1, k) = 1 .. k
         /\ \A i \in 1 .. k : SubSeq(s, 1, k)[i] = s[i] /\ i \in 1 .. Len(s)
<1>1. PICK m \in Nat : m = Len(s)
  OBVIOUS
<1>2. \A i \in 1 .. k : s[i] \in Accounts /\ i \in 1 .. Len(s)
  BY <1>1, ElementOfSeq
<1>3. 1 \in Int /\ k \in Int /\ k - 1 + 1 = k
  OBVIOUS
<1>4. /\ SubSeq(s, 1, k) \in Seq(Accounts)
      /\ Len(SubSeq(s, 1, k)) = IF 1 <= k THEN k - 1 + 1 ELSE 0
      /\ \A i \in 1 .. k - 1 + 1 : SubSeq(s, 1, k)[i] = s[1 + i - 1]
  BY <1>2, <1>3, SubSeqProperties
<1>5. Len(SubSeq(s, 1, k)) = k
  BY <1>4
<1>6. \A i \in 1 .. k : SubSeq(s, 1, k)[i] = s[i]
  BY <1>4
<1>7. DOMAIN SubSeq(s, 1, k) = 1 .. k
  BY <1>4, <1>5, LenProperties
<1> QED
  BY <1>2, <1>4, <1>5, <1>6, <1>7

-----------------------------------------------------------------------------
(* What a claim holds and pays.                                            *)

\* What else the sums need of a claim: only its parties have bonds in it.
Sound(r) ==
  /\ r.bondedDeposits \in [Accounts -> Nat]
  /\ r.challengeTimeout \in Nat
  /\ r.currentChallenger <= Len(r.challengers)
  /\ \A a \in Accounts : a \notin Parties(r) => r.bondedDeposits[a] = 0
  /\ r.submitter = NoAccount => r.challengers = <<>>

\* All that is bonded for a claim.
Held(r) == SumFunctionOnSet(r.bondedDeposits, Accounts)

\* It is a number.
LEMMA HeldType ==
  ASSUME NEW r, r.bondedDeposits \in [Accounts -> Nat]
  PROVE  Held(r) \in Nat
<1>1. \A a \in Accounts : r.bondedDeposits[a] \in Nat
  OBVIOUS
<1>2. IsFiniteSet(Accounts)
  BY FiniteAssumption
<1> QED
  BY <1>1, <1>2, SumNat DEF Held

\* What is held without the bond of the submitter.
LEMMA TakenOut ==
  ASSUME NEW r, r.bondedDeposits \in [Accounts -> Nat], r.submitter \in Accounts
  PROVE  Held(r) = SumFunctionOnSet(Remaining(r), Accounts)
                     + r.bondedDeposits[r.submitter]
<1>1. PICK bonds : bonds = r.bondedDeposits /\ bonds \in [Accounts -> Nat]
  OBVIOUS
<1>2. PICK sub : sub = r.submitter /\ sub \in Accounts
  OBVIOUS
<1>3. PICK rem : rem = Remaining(r)
  OBVIOUS
<1>4. rem = [bonds EXCEPT ![sub] = 0]
  BY <1>1, <1>2, <1>3 DEF Remaining
<1>5. \A a \in Accounts : rem[a] \in Int /\ bonds[a] \in Int
  BY <1>1, <1>4
<1>6. IsFiniteSet(Accounts)
  BY FiniteAssumption
<1>7. \A a \in Accounts \ {sub} : bonds[a] = rem[a]
  BY <1>1, <1>4
<1>8. SumFunctionOnSet(bonds, Accounts) =
        SumFunctionOnSet(rem, Accounts) + (bonds[sub] - rem[sub])
  <2>1. sub \in Accounts
    BY <1>2
  <2> QED
    BY <2>1, <1>5, <1>6, <1>7, SumUpdate
<1>9. bonds[sub] - rem[sub] = bonds[sub]
  BY <1>1, <1>2, <1>4
<1> QED
  BY <1>1, <1>2, <1>3, <1>8, <1>9 DEF Held

\* The shares that doPayChallengers computes: bonds that do not shrink, all of
\* them of challengers; and unless an account queued twice, no more than was
\* bonded for the claim.
LEMMA Payment ==
  ASSUME NEW r, IsClaim(r), Sound(r), r.submitter \in Accounts, SharesDefined(r)
  PROVE  /\ Shared(r) \in [Accounts -> Nat]
         /\ \A a \in Accounts \ {r.submitter} : r.bondedDeposits[a] <= Shared(r)[a]
         /\ \A a \in Accounts \ ToSet(r.challengers) : Shared(r)[a] = 0
         /\ DistinctChallengers(r) =>
              SumFunctionOnSet(Shared(r), Accounts) <= Held(r)
<1>1. PICK bonds : bonds = r.bondedDeposits /\ bonds \in [Accounts -> Nat]
  BY DEF Sound
<1>2. PICK sub : sub = r.submitter /\ sub \in Accounts
  OBVIOUS
<1>3. PICK k \in Nat : k = r.currentChallenger
  BY DEF IsClaim
<1>4. PICK queue \in Seq(Accounts) : queue = r.challengers
  BY DEF IsClaim
<1>5. k <= Len(queue)
  BY <1>3, <1>4 DEF Sound
<1>6. PICK ran \in Seq(Accounts) :
        /\ ran = Ran(r) /\ Len(ran) = k /\ DOMAIN ran = 1 .. k
        /\ \A i \in 1 .. k : ran[i] = queue[i] /\ i \in 1 .. Len(queue)
  <2>1. Ran(r) = SubSeq(queue, 1, k)
    BY <1>3, <1>4 DEF Ran
  <2>2. /\ SubSeq(queue, 1, k) \in Seq(Accounts)
        /\ Len(SubSeq(queue, 1, k)) = k
        /\ DOMAIN SubSeq(queue, 1, k) = 1 .. k
        /\ \A i \in 1 .. k : SubSeq(queue, 1, k)[i] = queue[i] /\ i \in 1 .. Len(queue)
    BY <1>5, SubQueue
  <2> QED
    BY <2>1, <2>2
<1>7. PICK rem \in [Accounts -> Nat] :
        /\ rem = Remaining(r)
        /\ rem[sub] = 0
        /\ \A a \in Accounts \ {sub} : rem[a] = bonds[a]
  <2>1. Remaining(r) = [bonds EXCEPT ![sub] = 0]
    BY <1>1, <1>2 DEF Remaining
  <2> QED
    BY <1>1, <1>2, <2>1
<1>8. PICK rewards \in Nat : rewards = bonds[sub]
  BY <1>1, <1>2
<1>9. TotalDeposits(r) = PlacesSum(rem, ran, Len(ran))
  BY <1>6, <1>7 DEF TotalDeposits, PlacesSum, Places
<1>10. PICK total \in Nat : total = PlacesSum(rem, ran, Len(ran))
  <2>1. \A i \in 1 .. k : Places(rem, ran)[i] \in Nat
    BY <1>6, <1>7, ElementOfSeq DEF Places
  <2>2. IsFiniteSet(1 .. k)
    BY FS_Interval
  <2>3. PlacesSum(rem, ran, Len(ran)) \in Nat
    BY <1>6, <2>1, <2>2, SumNat DEF PlacesSum
  <2> QED
    BY <2>3
<1>11. k > 0 => total > 0
  <2>1. k > 0 => ran # <<>>
    BY <1>6, EmptySeq
  <2> QED
    BY <1>6, <1>9, <1>10, <2>1 DEF SharesDefined
<1>12. Shared(r) = Rewarded(rem, rewards, total, ran)
  BY <1>1, <1>2, <1>6, <1>7, <1>8, <1>9, <1>10 DEF Shared
<1>13. PICK after : /\ IsAfter(after, rem, rewards, total, ran, k)
                    /\ Shared(r) = after[k]
  BY <1>6, <1>12, RewardedAfter
<1>14. /\ after[k] \in [Accounts -> Nat]
       /\ \A a \in Accounts : after[k][a] >= rem[a]
       /\ \A a \in Accounts \ First(ran, k) : after[k][a] = rem[a]
  <2>1. k = Len(ran)
    BY <1>6
  <2>2. IsAfter(after, rem, rewards, total, ran, k)
    BY <1>13
  <2>3. Grown(after[k], rem, ran)
    BY <1>11, <2>1, <2>2, AfterAll
  <2> QED
    BY <2>1, <2>3 DEF Grown, GrownBy
<1>15. \A a \in Accounts \ {sub} : bonds[a] <= Shared(r)[a]
  BY <1>7, <1>13, <1>14
<1>16. ToSet(r.challengers) = {queue[i] : i \in 1 .. Len(queue)}
  BY <1>4, LenProperties DEF ToSet
<1>17. First(ran, k) \subseteq ToSet(r.challengers)
  BY <1>6, <1>16 DEF First
<1>18. \A a \in Accounts \ ToSet(r.challengers) : rem[a] = 0
  BY <1>1, <1>2, <1>7 DEF Sound, Parties
<1>19. \A a \in Accounts \ ToSet(r.challengers) : Shared(r)[a] = 0
  BY <1>13, <1>14, <1>17, <1>18
<1>20. ASSUME DistinctChallengers(r)
       PROVE  SumFunctionOnSet(Shared(r), Accounts) <= Held(r)
  <2>1. AllDifferent(queue)
    BY <1>4, <1>20, DistinctMeans DEF DistinctChallengers
  <2>2. AllDifferent(ran)
    <3> SUFFICES ASSUME NEW i \in 1 .. Len(ran), NEW j \in 1 .. Len(ran),
                        ran[i] = ran[j]
                 PROVE  i = j
      BY DEF AllDifferent
    <3>1. /\ i \in 1 .. Len(queue) /\ j \in 1 .. Len(queue)
          /\ queue[i] = queue[j]
      BY <1>6
    <3> QED
      BY <2>1, <3>1 DEF AllDifferent
  <2>3. SumFunctionOnSet(Shared(r), Accounts) <= SumFunctionOnSet(rem, Accounts) + rewards
    BY <1>6, <1>10, <1>11, <1>12, <2>2, SharesBounded
  <2>4. Held(r) = SumFunctionOnSet(rem, Accounts) + rewards
    <3>1. /\ r.bondedDeposits \in [Accounts -> Nat] /\ r.submitter \in Accounts
          /\ rewards = r.bondedDeposits[r.submitter]
      BY <1>1, <1>2, <1>8
    <3>2. Held(r) = SumFunctionOnSet(Remaining(r), Accounts)
                      + r.bondedDeposits[r.submitter]
      BY <3>1, TakenOut
    <3> QED
      BY <1>7, <3>1, <3>2
  <2> QED
    BY <2>3, <2>4
<1> QED
  BY <1>1, <1>2, <1>13, <1>14, <1>15, <1>19, <1>20

-----------------------------------------------------------------------------
(* The invariant of the money.                                             *)

\* The invariant of the money: what the sums are over, and the two properties.
\* BondsReleased needs to know whose bonds there can be.
Purse ==
  /\ deposits \in [Accounts -> Nat]
  /\ balance \in Nat
  /\ now \in Nat
  /\ IsFiniteSet(sessions)
  /\ \A b \in Ids : Sound(claims[b])
  /\ BondsReleased
  /\ SolventIfDistinct

\* What is owed and what is bonded are numbers.
LEMMA SumsAreNumbers ==
  ASSUME Purse
  PROVE  Owed \in Nat /\ Bonded \in Nat
<1>1. IsFiniteSet(Accounts) /\ IsFiniteSet(Superblocks)
  BY FiniteAssumption
<1>2. Owed \in Nat
  <2>1. \A a \in Accounts : deposits[a] \in Nat
    BY DEF Purse
  <2> QED
    BY <1>1, <2>1, SumNat DEF Owed
<1>3. Bonded \in Nat
  <2> DEFINE f == [b \in Superblocks |-> SumFunctionOnSet(claims[b].bondedDeposits, Accounts)]
  <2>1. \A b \in Superblocks : f[b] \in Nat
    <3> SUFFICES ASSUME NEW b \in Superblocks PROVE f[b] \in Nat
      OBVIOUS
    <3>1. Sound(claims[b])
      BY DEF Purse, Ids
    <3>2. claims[b].bondedDeposits \in [Accounts -> Nat]
      BY <3>1 DEF Sound
    <3> QED
      BY <3>2, HeldType DEF Held
  <2> HIDE DEF f
  <2>2. SumFunctionOnSet(f, Superblocks) \in Nat
    BY <1>1, <2>1, SumNat
  <2> QED
    BY <2>2 DEF Bonded, f
<1> QED
  BY <1>2, <1>3

\* One claim is replaced.
LEMMA BondedUpdate ==
  ASSUME IInv, Purse, NEW b \in Superblocks, NEW q, Sound(q),
         claims' = [claims EXCEPT ![b] = q]
  PROVE  /\ \A c \in Ids : claims'[c] = IF c = b THEN q ELSE claims[c]
         /\ Bonded' = Bonded + (Held(q) - Held(claims[b]))
<1>1. \A c \in Ids : claims'[c] = IF c = b THEN q ELSE claims[c]
  BY DEF IInv, ClaimsTyped, Ids
<1> DEFINE f == [c \in Superblocks |-> SumFunctionOnSet(claims[c].bondedDeposits, Accounts)]
<1> DEFINE g == [c \in Superblocks |-> SumFunctionOnSet(claims'[c].bondedDeposits, Accounts)]
<1>2. \A c \in Superblocks : f[c] = Held(claims[c]) /\ g[c] = Held(claims'[c])
  BY DEF Held
<1>3. Bonded = SumFunctionOnSet(f, Superblocks) /\ Bonded' = SumFunctionOnSet(g, Superblocks)
  BY DEF Bonded
<1> HIDE DEF f, g
<1>4. \A c \in Superblocks : Sound(claims[c]) /\ Sound(claims'[c])
  BY <1>1 DEF Purse, Ids
<1>5. \A c \in Superblocks : f[c] \in Int /\ g[c] \in Int
  <2> SUFFICES ASSUME NEW c \in Superblocks PROVE f[c] \in Int /\ g[c] \in Int
    OBVIOUS
  <2>1. /\ claims[c].bondedDeposits \in [Accounts -> Nat]
        /\ claims'[c].bondedDeposits \in [Accounts -> Nat]
    BY <1>4 DEF Sound
  <2>2. Held(claims[c]) \in Nat /\ Held(claims'[c]) \in Nat
    BY <2>1, HeldType
  <2> QED
    BY <1>2, <2>2
<1>6. \A c \in Superblocks \ {b} : g[c] = f[c]
  BY <1>1, <1>2 DEF Ids
<1>7. IsFiniteSet(Superblocks)
  BY FiniteAssumption
<1>8. SumFunctionOnSet(g, Superblocks) = SumFunctionOnSet(f, Superblocks) + (g[b] - f[b])
  BY <1>5, <1>6, <1>7, SumUpdate
<1>9. g[b] = Held(q) /\ f[b] = Held(claims[b])
  BY <1>1, <1>2 DEF Ids
<1> QED
  BY <1>1, <1>3, <1>8, <1>9

\* A step that replaces the claim of one superblock keeps the invariant when
\* what it adds to the deposits it takes from the bonds, and a verdict leaves
\* no bond.
LEMMA PurseStep ==
  ASSUME IInv, Purse, NEW b \in Superblocks, NEW q, Sound(q),
         claims' = [claims EXCEPT ![b] = q],
         deposits' \in [Accounts -> Nat], balance' = balance, now' = now,
         IsFiniteSet(sessions'),
         \A c \in Superblocks : c # b => SB!StatusOf(c)' = SB!StatusOf(c),
         SB!StatusOf(b)' \in {"Approved", "Invalid"} =>
           \A a \in Accounts : q.bondedDeposits[a] = 0,
         DistinctChallengers(q) => DistinctChallengers(claims[b]),
         DistinctChallengers(q) =>
           SumFunctionOnSet(deposits', Accounts) + Held(q) <= Owed + Held(claims[b])
  PROVE  Purse'
<1>1. \A c \in Ids : claims'[c] = IF c = b THEN q ELSE claims[c]
  BY BondedUpdate
<1>2. Bonded' = Bonded + (Held(q) - Held(claims[b]))
  BY BondedUpdate
<1>3. \A c \in Ids : Sound(claims'[c])
  BY <1>1 DEF Purse
<1>4. BondsReleased'
  <2> SUFFICES ASSUME NEW c \in Superblocks,
                      SB!StatusOf(c)' \in {"Approved", "Invalid"}, NEW a \in Accounts
               PROVE  claims'[c].bondedDeposits[a] = 0
    BY DEF BondsReleased
  <2>1. CASE c = b
    BY <1>1, <2>1 DEF Ids
  <2>2. CASE c # b
    BY <1>1, <2>2 DEF Ids, Purse, BondsReleased
  <2> QED
    BY <2>1, <2>2
<1>5. ASSUME \A c \in Superblocks : DistinctChallengers(claims'[c])
      PROVE  Solvent'
  <2>1. DistinctChallengers(q)
    BY <1>1, <1>5 DEF Ids
  <2>2. \A c \in Superblocks : DistinctChallengers(claims[c])
    BY <1>1, <1>5, <2>1 DEF Ids
  <2>3. Owed + Bonded <= balance
    BY <2>2 DEF Purse, SolventIfDistinct, Solvent
  <2>4. Owed \in Nat /\ Bonded \in Nat /\ balance \in Nat
    BY SumsAreNumbers DEF Purse
  <2>5. Held(q) \in Nat /\ Held(claims[b]) \in Nat
    <3>1. q.bondedDeposits \in [Accounts -> Nat]
      BY DEF Sound
    <3>2. claims[b].bondedDeposits \in [Accounts -> Nat]
      BY DEF Purse, Sound, Ids
    <3> QED
      BY <3>1, <3>2, HeldType
  <2>6. Owed' = SumFunctionOnSet(deposits', Accounts)
    BY DEF Owed
  <2>7. Owed' \in Nat
    <3>1. IsFiniteSet(Accounts) /\ \A a \in Accounts : deposits'[a] \in Nat
      BY FiniteAssumption
    <3> QED
      BY <2>6, <3>1, SumNat
  <2>8. Owed' + Held(q) <= Owed + Held(claims[b])
    BY <2>1, <2>6
  <2> QED
    BY <1>2, <2>3, <2>4, <2>5, <2>7, <2>8 DEF Solvent
<1>6. SolventIfDistinct'
  BY <1>5 DEF SolventIfDistinct, DistinctChallengers
<1>7. (\A c \in Ids : Sound(claims[c]))'
  BY <1>3 DEF Sound, Parties
<1> QED
  BY <1>4, <1>6, <1>7 DEF Purse

-----------------------------------------------------------------------------
(* What is moved between deposits and bonds.                               *)

\* A deposit is paid in, or taken out to be bonded or withdrawn.
LEMMA DepositUpdate ==
  ASSUME deposits \in [Accounts -> Nat], NEW who \in Accounts, NEW x \in Nat,
         deposits' = [deposits EXCEPT ![who] = x]
  PROVE  /\ deposits' \in [Accounts -> Nat]
         /\ SumFunctionOnSet(deposits', Accounts) = Owed + (x - deposits[who])
<1>1. deposits' \in [Accounts -> Nat] /\ deposits'[who] = x
  OBVIOUS
<1>2. PICK f : f = deposits
  OBVIOUS
<1>3. PICK g : g = deposits'
  OBVIOUS
<1>4. \A a \in Accounts : f[a] \in Int /\ g[a] \in Int
  BY <1>1, <1>2, <1>3
<1>5. \A a \in Accounts \ {who} : g[a] = f[a]
  BY <1>2, <1>3
<1>6. IsFiniteSet(Accounts)
  BY FiniteAssumption
<1>7. SumFunctionOnSet(g, Accounts) = SumFunctionOnSet(f, Accounts) + (g[who] - f[who])
  BY <1>4, <1>5, <1>6, SumUpdate
<1> QED
  BY <1>1, <1>2, <1>3, <1>7 DEF Owed

\* bondDeposit moves a deposit out of the free ones.
LEMMA Bonding ==
  ASSUME Purse, NEW who \in Accounts, NEW amount \in Nat, BondDeposit(who, amount)
  PROVE  /\ deposits' \in [Accounts -> Nat]
         /\ SumFunctionOnSet(deposits', Accounts) = Owed - amount
<1>1. deposits \in [Accounts -> Nat] /\ deposits[who] \in Nat
  BY DEF Purse
<1>2. PICK x \in Nat : x = deposits[who] - amount
  BY <1>1 DEF BondDeposit
<1>3. deposits' = [deposits EXCEPT ![who] = x]
  BY <1>1, <1>2 DEF BondDeposit
<1>4. /\ deposits' \in [Accounts -> Nat]
      /\ SumFunctionOnSet(deposits', Accounts) = Owed + (x - deposits[who])
  BY <1>1, <1>3, DepositUpdate
<1>5. Owed \in Nat
  BY SumsAreNumbers
<1> QED
  BY <1>1, <1>2, <1>4, <1>5

\* A change of bonds leaves the other fields that the sums look at.
LEMMA BondsFields ==
  ASSUME NEW r, IsClaim(r), NEW x
  PROVE  LET q == [r EXCEPT !.bondedDeposits = x]
         IN  q.bondedDeposits = x /\ q.challengeTimeout = r.challengeTimeout
BY DEF IsClaim

\* What is bonded is held.
LEMMA BondHeld ==
  ASSUME NEW r, IsClaim(r), r.bondedDeposits \in [Accounts -> Nat],
         NEW who \in Accounts, NEW amount \in Nat
  PROVE  LET q == Bond(r, who, amount)
         IN  /\ q.bondedDeposits \in [Accounts -> Nat]
             /\ \A a \in Accounts : a # who => q.bondedDeposits[a] = r.bondedDeposits[a]
             /\ q.challengeTimeout = r.challengeTimeout
             /\ Held(q) = Held(r) + amount
<1>1. PICK bonds : bonds = r.bondedDeposits /\ bonds \in [Accounts -> Nat]
  OBVIOUS
<1>2. PICK k \in Nat : k = bonds[who]
  BY <1>1
<1>3. PICK x : x = [bonds EXCEPT ![who] = k + amount]
  OBVIOUS
<1>4. Bond(r, who, amount) = [r EXCEPT !.bondedDeposits = x]
  BY <1>1, <1>2, <1>3 DEF Bond, IsClaim
<1>5. PICK q : q = Bond(r, who, amount)
  OBVIOUS
<1>6. q.bondedDeposits = x /\ q.challengeTimeout = r.challengeTimeout
  BY <1>4, <1>5, BondsFields
<1>7. /\ x \in [Accounts -> Nat] /\ x[who] = k + amount
      /\ \A a \in Accounts : a # who => x[a] = bonds[a]
  BY <1>1, <1>2, <1>3
<1>8. \A a \in Accounts : bonds[a] \in Int /\ x[a] \in Int
  BY <1>1, <1>7
<1>9. \A a \in Accounts \ {who} : x[a] = bonds[a]
  BY <1>7
<1>10. IsFiniteSet(Accounts)
  BY FiniteAssumption
<1>11. SumFunctionOnSet(x, Accounts) = SumFunctionOnSet(bonds, Accounts) + (x[who] - bonds[who])
  BY <1>8, <1>9, <1>10, SumUpdate
<1>12. x[who] - bonds[who] = amount
  BY <1>2, <1>7
<1>13. Held(q) = Held(r) + amount
  BY <1>1, <1>6, <1>11, <1>12 DEF Held
<1> QED
  BY <1>1, <1>5, <1>6, <1>7, <1>13

\* Claims with the same bonds and queue.
LEMMA SameSound ==
  ASSUME NEW r, Sound(r), NEW q, q.bondedDeposits = r.bondedDeposits,
         q.challengeTimeout = r.challengeTimeout, q.submitter = r.submitter,
         q.challengers = r.challengers,
         q.currentChallenger <= Len(q.challengers)
  PROVE  /\ Sound(q) /\ Held(q) = Held(r)
         /\ DistinctChallengers(q) = DistinctChallengers(r)
BY DEF Sound, Parties, Held, DistinctChallengers

\* An id without claim has no bonds.
LEMMA NoClaimNoBonds ==
  ASSUME Purse, NEW b \in Ids, claims[b].submitter = NoAccount
  PROVE  \A a \in Accounts : claims[b].bondedDeposits[a] = 0
<1>1. Sound(claims[b]) /\ claims[b].challengers = <<>>
  BY DEF Purse, Sound
<1>2. Parties(claims[b]) = {NoAccount}
  BY <1>1 DEF Parties, ToSet
<1> QED
  BY <1>1, <1>2 DEF Sound

\* The parties of a claim that another joins.
LEMMA Joined ==
  ASSUME NEW s \in Seq(Accounts), NEW who \in Accounts
  PROVE  /\ ToSet(s) \subseteq ToSet(Append(s, who))
         /\ who \in ToSet(Append(s, who))
<1>1. PICK m \in Nat : m = Len(s)
  OBVIOUS
<1>2. /\ Append(s, who) \in Seq(Accounts) /\ Len(Append(s, who)) = m + 1
      /\ \A i \in 1 .. m : Append(s, who)[i] = s[i]
      /\ Append(s, who)[m + 1] = who
  BY <1>1, AppendProperties
<1>3. DOMAIN s = 1 .. m /\ DOMAIN Append(s, who) = 1 .. m + 1
  BY <1>1, <1>2, LenProperties
<1>4. \A i \in 1 .. m : i \in 1 .. m + 1
  OBVIOUS
<1>5. m + 1 \in 1 .. m + 1
  OBVIOUS
<1> QED
  BY <1>2, <1>3, <1>4, <1>5 DEF ToSet

\* An account of the queue is a party.
LEMMA InQueue ==
  ASSUME NEW r, NEW i \in 1 .. Len(r.challengers), r.challengers \in Seq(Accounts)
  PROVE  r.challengers[i] \in Parties(r)
<1>1. DOMAIN r.challengers = 1 .. Len(r.challengers)
  BY LenProperties
<1> QED
  BY <1>1 DEF Parties, ToSet

\* The accounts of the queue.
LEMMA PartiesType ==
  ASSUME NEW r, IsClaim(r), r.submitter \in Accounts
  PROVE  Parties(r) \subseteq Accounts
<1>1. r.challengers \in Seq(Accounts)
  BY DEF IsClaim
<1>2. \A i \in DOMAIN r.challengers : r.challengers[i] \in Accounts
  BY <1>1, LenProperties, ElementOfSeq
<1> QED
  BY <1>2 DEF Parties, ToSet

-----------------------------------------------------------------------------
(* Every transaction keeps it.                                             *)

\* The facts about one superblock's claim that every payment starts from.
LEMMA PurseFacts ==
  ASSUME IInv, Purse, NEW b \in Superblocks
  PROVE  /\ b \in Ids
         /\ IsClaim(claims[b])
         /\ Sound(claims[b])
         /\ claims[b].bondedDeposits \in [Accounts -> Nat]
         /\ deposits \in [Accounts -> Nat]
         /\ IsFiniteSet(sessions)
         /\ Owed \in Nat
         /\ Held(claims[b]) \in Nat
<1>1. b \in Ids /\ IsClaim(claims[b]) /\ Sound(claims[b])
  BY ClaimFacts DEF Purse, Ids
<1>2. claims[b].bondedDeposits \in [Accounts -> Nat]
  BY <1>1 DEF Sound
<1> QED
  BY <1>1, <1>2, HeldType, SumsAreNumbers DEF Purse

\* initialize: the genesis superblock has no claim, so no bonds.
LEMMA InitializePurse ==
  ASSUME IInv, Purse, NEW b \in Superblocks, NEW work, Initialize(b, work)
  PROVE  Purse'
<1> DEFINE info == [status |-> "Approved", parentId |-> NoSuperblock,
                    accumulatedWork |-> work, index |-> indexNextSuperblock,
                    height |-> 1, ancestors |-> [i \in SB!Depths |-> 0]]
<1>1. SB!Register(b, info)
  BY DEF Initialize, SB!Initialize
<1>2. IsSuperblock(info)
  BY DEF IsSuperblock, SB!Status
<1> HIDE DEF info
<1>3. /\ SB!StatusOf(b) = "Uninitialized"
      /\ \A c \in Superblocks : c # b => SB!StatusOf(c)' = SB!StatusOf(c)
  BY <1>1, <1>2, ClaimFacts, RegisterStep
<1>4. claims[b].submitter = NoAccount
  BY <1>3, ClaimFacts DEF Agrees
<1>5. \A a \in Accounts : claims[b].bondedDeposits[a] = 0
  BY <1>4, ClaimFacts, NoClaimNoBonds
<1>6. /\ claims' = claims /\ deposits' = deposits /\ sessions' = sessions
      /\ balance' = balance /\ now' = now
  BY DEF Initialize
<1>7. claims' = [claims EXCEPT ![b] = claims[b]]
  BY <1>6 DEF IInv, ClaimsTyped
<1>8. SumFunctionOnSet(deposits', Accounts) + Held(claims[b]) <= Owed + Held(claims[b])
  BY <1>6, PurseFacts DEF Owed
<1> QED
  BY <1>3, <1>5, <1>6, <1>7, <1>8, PurseFacts, PurseStep

\* A deposit adds as much to the ether as to the deposits.
LEMMA MakeDepositPurse ==
  ASSUME IInv, Purse, NEW who \in Accounts, NEW amount \in Nat,
         MakeDeposit(who, amount)
  PROVE  Purse'
<1>1. deposits \in [Accounts -> Nat] /\ deposits[who] \in Nat /\ balance \in Nat
  BY DEF Purse
<1>2. PICK x \in Nat : x = deposits[who] + amount
  BY <1>1
<1>3. deposits' = [deposits EXCEPT ![who] = x] /\ balance' = balance + amount
  BY <1>1, <1>2 DEF MakeDeposit
<1>4. /\ deposits' \in [Accounts -> Nat]
      /\ SumFunctionOnSet(deposits', Accounts) = Owed + (x - deposits[who])
  BY <1>1, <1>3, DepositUpdate
<1>5. claims' = claims /\ superblocks' = superblocks /\ now' = now /\ sessions' = sessions
  BY DEF MakeDeposit, superblockVars
<1>6. Owed \in Nat /\ Bonded \in Nat
  BY SumsAreNumbers
<1>7. Owed' = Owed + amount
  BY <1>1, <1>2, <1>4, <1>6 DEF Owed
<1>8. Bonded' = Bonded
  BY <1>5 DEF Bonded
<1>9. balance' \in Nat /\ (Solvent => Solvent')
  BY <1>1, <1>3, <1>6, <1>7, <1>8 DEF Solvent
<1>10. BondsReleased' /\ SolventIfDistinct'
  BY <1>5, <1>9 DEF Purse, BondsReleased, SolventIfDistinct, SB!StatusOf, DistinctChallengers
<1>11. (\A b \in Ids : Sound(claims[b]))'
  BY <1>5 DEF Purse, Sound, Parties
<1> QED
  BY <1>4, <1>5, <1>9, <1>10, <1>11 DEF Purse

\* A withdrawal takes as much from both.
LEMMA WithdrawDepositPurse ==
  ASSUME IInv, Purse, NEW who \in Accounts, NEW amount \in Nat,
         WithdrawDeposit(who, amount)
  PROVE  Purse'
<1>1. deposits \in [Accounts -> Nat] /\ deposits[who] \in Nat /\ balance \in Nat
  BY DEF Purse
<1>2. PICK x \in Nat : x = deposits[who] - amount
  BY <1>1 DEF WithdrawDeposit
<1>3. deposits' = [deposits EXCEPT ![who] = x] /\ balance' = balance - amount
  BY <1>1, <1>2 DEF WithdrawDeposit
<1>4. /\ deposits' \in [Accounts -> Nat]
      /\ SumFunctionOnSet(deposits', Accounts) = Owed + (x - deposits[who])
  BY <1>1, <1>3, DepositUpdate
<1>5. claims' = claims /\ superblocks' = superblocks /\ now' = now /\ sessions' = sessions
  BY DEF WithdrawDeposit, superblockVars
<1>6. Owed \in Nat /\ Bonded \in Nat
  BY SumsAreNumbers
<1>7. Owed' = Owed - amount
  BY <1>1, <1>2, <1>4, <1>6 DEF Owed
<1>8. Bonded' = Bonded
  BY <1>5 DEF Bonded
<1>9. balance' \in Nat /\ (Solvent => Solvent')
  BY <1>1, <1>3, <1>6, <1>7, <1>8 DEF Solvent, WithdrawDeposit
<1>10. BondsReleased' /\ SolventIfDistinct'
  BY <1>5, <1>9 DEF Purse, BondsReleased, SolventIfDistinct, SB!StatusOf, DistinctChallengers
<1>11. (\A b \in Ids : Sound(claims[b]))'
  BY <1>5 DEF Purse, Sound, Parties
<1> QED
  BY <1>4, <1>5, <1>9, <1>10, <1>11 DEF Purse

\* A proposal bonds the submitter's deposit.
LEMMA ProposeSuperblockPurse ==
  ASSUME IInv, Purse, NEW who \in Accounts, NEW b \in Superblocks,
         NEW parent \in Superblocks, NEW work, NEW timestamp,
         ProposeSuperblock(who, b, parent, work, timestamp)
  PROVE  Purse'
<1> USE AmountsAssumption, TimesAssumption
<1> DEFINE anc == SB!updateAncestors(superblocks[parent].ancestors,
                                     superblocks[parent].index,
                                     SB!HeightOf(parent))
<1> DEFINE info == [status |-> "New", parentId |-> parent,
                    accumulatedWork |-> work, index |-> indexNextSuperblock,
                    height |-> SB!HeightOf(parent) + 1, ancestors |-> anc]
<1>1. SB!Register(b, info)
  BY DEF ProposeSuperblock, SB!Propose
<1>2. IsSuperblock(info) /\ info.status = "New"
  BY DEF IsSuperblock, SB!Status
<1> HIDE DEF info
<1>3. SB!StatusOf(b)' = "New"
  BY <1>1, <1>2, ClaimFacts, RegisterStep
<1>4. \A c \in Superblocks : c # b => SB!StatusOf(c)' = SB!StatusOf(c)
  BY <1>1, <1>2, ClaimFacts, RegisterStep
<1>5. PICK t \in Nat : t = now + superblockTimeout
  BY DEF Purse
<1>6. PICK claim : claim = NewClaim(who, t)
  OBVIOUS
<1>7. PICK bonded : bonded = Bond(claim, who, battleReward)
  OBVIOUS
<1>8. /\ claims' = [claims EXCEPT ![b] = bonded]
      /\ BondDeposit(who, battleReward)
      /\ sessions' = sessions /\ balance' = balance /\ now' = now
  BY <1>5, <1>6, <1>7 DEF ProposeSuperblock
<1>9. /\ IsClaim(claim) /\ claim.bondedDeposits = NoBonds
      /\ claim.submitter = who /\ claim.challengers = <<>>
      /\ claim.currentChallenger = 0 /\ claim.challengeTimeout = t
  BY <1>6, NewClaimType DEF NewClaim
<1>10. NoBonds \in [Accounts -> Nat] /\ \A a \in Accounts : NoBonds[a] = 0
  BY DEF NoBonds
<1>11. battleReward \in Nat
  OBVIOUS
<1>12. /\ bonded.bondedDeposits \in [Accounts -> Nat]
       /\ \A a \in Accounts : a # who => bonded.bondedDeposits[a] = 0
       /\ bonded.challengeTimeout = t
       /\ Held(bonded) = Held(claim) + battleReward
  BY <1>7, <1>9, <1>10, <1>11, BondHeld
<1>13. SameBattles(bonded, claim)
  BY <1>7, <1>9, BondUpdate
<1>14. /\ bonded.submitter = who /\ bonded.challengers = <<>>
       /\ bonded.currentChallenger = 0
  BY <1>9, <1>13 DEF SameBattles
<1>15. Sound(bonded)
  <2>1. Len(<<>>) = 0
    OBVIOUS
  <2>2. 0 <= Len(bonded.challengers)
    BY <1>14, <2>1
  <2> QED
    BY <1>12, <1>14, <2>2 DEF Sound, Parties
<1>16. Held(claim) = 0
  <2>1. IsFiniteSet(Accounts)
    BY FiniteAssumption
  <2> QED
    BY <1>9, <1>10, <2>1, SumZero DEF Held
<1>17. /\ deposits' \in [Accounts -> Nat]
       /\ SumFunctionOnSet(deposits', Accounts) = Owed - battleReward
  BY <1>8, <1>11, Bonding
<1>18. SumFunctionOnSet(deposits', Accounts) + Held(bonded) <= Owed + Held(claims[b])
  BY <1>11, <1>12, <1>16, <1>17, PurseFacts
<1>19. DistinctChallengers(claims[b])
  <2>1. claims[b].submitter = NoAccount
    BY DEF ProposeSuperblock, claimExists
  <2>2. claims[b].challengers = <<>>
    BY <2>1, PurseFacts DEF Sound
  <2>3. <<>> \in Seq(Accounts) /\ Len(<<>>) = 0
    OBVIOUS
  <2>4. AllDifferent(<<>>)
    BY <2>3 DEF AllDifferent
  <2> QED
    BY <2>2, <2>3, <2>4, DistinctMeans DEF DistinctChallengers
<1>20. IsFiniteSet(sessions')
  BY <1>8 DEF Purse
<1> QED
  BY <1>3, <1>4, <1>8, <1>15, <1>17, <1>18, <1>19, <1>20, PurseStep

\* The next battle moves no bonds.
LEMMA RunNextClaim ==
  ASSUME NEW b, NEW claim, IsClaim(claim), Sound(claim), NEW remaining,
         IsFiniteSet(remaining), RunNextBattleSession(b, claim, remaining)
  PROVE  /\ IsFiniteSet(sessions')
         /\ \E q : /\ claims' = [claims EXCEPT ![b] = q]
                   /\ Sound(q) /\ Held(q) = Held(claim)
                   /\ DistinctChallengers(q) = DistinctChallengers(claim)
<1>1. CASE claim.currentChallenger < Len(claim.challengers)
  <2> DEFINE n == claim.currentChallenger + 1
  <2> DEFINE q == [claim EXCEPT !.verificationOngoing = TRUE,
                                !.currentChallenger = n]
  <2> DEFINE s0 == Session(b, n, claim.submitter, claim.challengers[n])
  <2>1. claims' = [claims EXCEPT ![b] = q] /\ sessions' = remaining \cup {s0}
    BY <1>1 DEF RunNextBattleSession
  <2>2. n \in Nat /\ n <= Len(claim.challengers)
    <3>1. claim.currentChallenger \in Nat /\ claim.challengers \in Seq(Accounts)
      BY DEF IsClaim
    <3>2. Len(claim.challengers) \in Nat
      BY <3>1, LenProperties
    <3> QED
      BY <1>1, <3>1, <3>2
  <2>3. /\ q.submitter = claim.submitter /\ q.challengers = claim.challengers
        /\ q.currentChallenger = n
    BY <2>2, NextBattleUpdate
  <2>4. /\ q.bondedDeposits = claim.bondedDeposits
        /\ q.challengeTimeout = claim.challengeTimeout
    BY DEF IsClaim
  <2> HIDE DEF n, q, s0
  <2>5. /\ Sound(q) /\ Held(q) = Held(claim)
        /\ DistinctChallengers(q) = DistinctChallengers(claim)
    <3>1. q.currentChallenger <= Len(q.challengers)
      BY <2>2, <2>3
    <3> QED
      BY <2>3, <2>4, <3>1, SameSound
  <2>6. IsFiniteSet(sessions')
    BY <2>1, FS_AddElement
  <2> QED
    BY <2>1, <2>5, <2>6
<1>2. CASE ~(claim.currentChallenger < Len(claim.challengers))
  BY <1>2 DEF RunNextBattleSession
<1> QED
  BY <1>1, <1>2

\* A challenge bonds the challenger's deposit.
LEMMA ChallengeSuperblockPurse ==
  ASSUME IInv, Purse, NEW who \in Accounts, NEW b \in Superblocks,
         ChallengeSuperblock(who, b)
  PROVE  Purse'
<1> USE AmountsAssumption, TimesAssumption
<1>1. PICK r : r = claims[b]
  OBVIOUS
<1>2. /\ IsClaim(r) /\ Sound(r) /\ r.bondedDeposits \in [Accounts -> Nat]
      /\ r.submitter # NoAccount /\ IsFiniteSet(sessions)
      /\ Owed \in Nat /\ Held(r) \in Nat
  BY <1>1, PurseFacts DEF ChallengeSuperblock, claimExists
<1>3. PICK t \in Nat : t = now + superblockTimeout
  BY DEF Purse
<1>4. PICK bonded : bonded = Bond(r, who, battleReward)
  OBVIOUS
<1>5. PICK q : q = Challenged(bonded, who, t)
  OBVIOUS
<1>6. /\ SB!SetStatus(b, "InBattle")
      /\ BondDeposit(who, battleReward) /\ balance' = balance /\ now' = now
      /\ \/ claims' = [claims EXCEPT ![b] = q] /\ sessions' = sessions
         \/ RunNextBattleSession(b, q, sessions)
  BY <1>1, <1>3, <1>4, <1>5 DEF ChallengeSuperblock, Challenged, SB!Challenge
<1>7. battleReward \in Nat
  OBVIOUS
<1>8. /\ bonded.bondedDeposits \in [Accounts -> Nat]
      /\ \A a \in Accounts : a # who => bonded.bondedDeposits[a] = r.bondedDeposits[a]
      /\ bonded.challengeTimeout = r.challengeTimeout
      /\ Held(bonded) = Held(r) + battleReward
  BY <1>2, <1>4, <1>7, BondHeld
<1>9. SameBattles(bonded, r)
  BY <1>2, <1>4, BondUpdate
<1>10. IsClaim(bonded)
  BY <1>9 DEF SameBattles
<1>11. /\ IsClaim(q) /\ q.submitter = r.submitter
       /\ q.challengers = Append(r.challengers, who)
       /\ q.currentChallenger = r.currentChallenger
  <2>1. /\ IsClaim(q) /\ q.submitter = bonded.submitter
        /\ q.challengers = Append(bonded.challengers, who)
        /\ q.currentChallenger = bonded.currentChallenger
    BY <1>5, <1>10, ChallengedUpdate
  <2> QED
    BY <1>9, <2>1 DEF SameBattles
<1>12. q.bondedDeposits = bonded.bondedDeposits /\ q.challengeTimeout = t
  BY <1>5, <1>10 DEF Challenged, IsClaim
<1>13. PICK queue \in Seq(Accounts) : queue = r.challengers
  BY <1>2 DEF IsClaim
<1>14. Sound(q)
  <2>1. /\ ToSet(queue) \subseteq ToSet(Append(queue, who))
        /\ who \in ToSet(Append(queue, who))
    BY Joined
  <2>2. ASSUME NEW a \in Accounts, a \notin Parties(q)
        PROVE  q.bondedDeposits[a] = 0
    <3>1. a # who /\ a \notin Parties(r)
      BY <1>11, <1>13, <2>1, <2>2 DEF Parties
    <3> QED
      BY <1>2, <1>8, <1>12, <3>1 DEF Sound
  <2>3. q.currentChallenger <= Len(q.challengers)
    <3>1. PICK m \in Nat : m = Len(queue)
      OBVIOUS
    <3>2. Len(Append(queue, who)) = m + 1
      BY <3>1, AppendProperties
    <3>3. r.currentChallenger \in Nat /\ r.currentChallenger <= m
      BY <1>2, <1>13, <3>1 DEF IsClaim, Sound
    <3> QED
      BY <1>11, <1>13, <3>2, <3>3
  <2> QED
    BY <1>2, <1>8, <1>11, <1>12, <2>2, <2>3 DEF Sound
<1>15. Held(q) = Held(r) + battleReward
  BY <1>8, <1>12 DEF Held
<1>16. DistinctChallengers(q) => DistinctChallengers(r)
  <2>1. Append(queue, who) \in Seq(Accounts)
    BY AppendProperties
  <2>2. DistinctChallengers(q) <=> AllDifferent(Append(queue, who))
    BY <1>11, <1>13, <2>1, DistinctMeans DEF DistinctChallengers
  <2>3. DistinctChallengers(r) <=> AllDifferent(queue)
    BY <1>13, DistinctMeans DEF DistinctChallengers
  <2> QED
    BY <2>2, <2>3, DistinctBefore
<1>17. /\ deposits' \in [Accounts -> Nat]
       /\ SumFunctionOnSet(deposits', Accounts) = Owed - battleReward
  BY <1>6, <1>7, Bonding
<1>18. SumFunctionOnSet(deposits', Accounts) + Held(q) <= Owed + Held(r)
  BY <1>2, <1>7, <1>15, <1>17
<1>19. /\ SB!StatusOf(b)' = "InBattle"
       /\ \A c \in Superblocks : c # b => SB!StatusOf(c)' = SB!StatusOf(c)
  <2>1. "InBattle" \in SB!Status
    BY DEF SB!Status
  <2> QED
    BY <1>6, <2>1, ClaimFacts, SetStatusStep
<1>20. /\ IsFiniteSet(sessions')
       /\ \E p : /\ claims' = [claims EXCEPT ![b] = p]
                 /\ Sound(p) /\ Held(p) = Held(q)
                 /\ DistinctChallengers(p) = DistinctChallengers(q)
  BY <1>2, <1>6, <1>11, <1>14, RunNextClaim
<1>21. PICK p : /\ claims' = [claims EXCEPT ![b] = p]
                /\ Sound(p) /\ Held(p) = Held(q)
                /\ DistinctChallengers(p) = DistinctChallengers(q)
  BY <1>20
<1>22. DistinctChallengers(p) => DistinctChallengers(claims[b])
  BY <1>1, <1>16, <1>21
<1>23. SumFunctionOnSet(deposits', Accounts) + Held(p) <= Owed + Held(claims[b])
  BY <1>1, <1>18, <1>21
<1> QED
  BY <1>6, <1>17, <1>19, <1>20, <1>21, <1>22, <1>23, PurseStep

\* The end of a battle moves no bonds.
LEMMA SessionDecidedPurse ==
  ASSUME IInv, Purse, NEW s \in sessions, NEW winner, NEW loser,
         SessionDecided(s, winner, loser)
  PROVE  Purse'
<1>1. PICK b \in Superblocks : b = s.superblockHash /\ Fits(s, claims[b])
  BY DEF IInv, SessionsTyped
<1>2. PICK r : r = claims[b]
  OBVIOUS
<1>3. IsClaim(r) /\ Sound(r) /\ Owed \in Nat /\ Held(r) \in Nat
  BY <1>2, PurseFacts
<1>4. PICK over : over = [r EXCEPT !.verificationOngoing = FALSE]
  OBVIOUS
<1>5. PICK lost : lost = [over EXCEPT !.invalid = TRUE]
  OBVIOUS
<1>6. PICK remaining : remaining = sessions \ {s}
  OBVIOUS
<1>7. /\ UNCHANGED <<superblocks, deposits, balance, now>>
      /\ \/ claims' = [claims EXCEPT ![b] = lost] /\ sessions' = remaining
         \/ RunNextBattleSession(b, over, remaining)
  BY <1>1, <1>2, <1>4, <1>5, <1>6 DEF SessionDecided, superblockVars
<1>8. IsFiniteSet(remaining)
  BY <1>6, FS_Subset DEF Purse
<1>9. /\ IsClaim(over) /\ over.submitter = r.submitter
      /\ over.challengers = r.challengers
      /\ over.currentChallenger = r.currentChallenger
      /\ lost.submitter = r.submitter /\ lost.challengers = r.challengers
      /\ lost.currentChallenger = r.currentChallenger
  <2> DEFINE q == [r EXCEPT !.verificationOngoing = FALSE]
  <2> DEFINE p == [q EXCEPT !.invalid = TRUE]
  <2>1. IsClaim(r)
    BY <1>3
  <2>2. /\ IsClaim(q) /\ q.submitter = r.submitter
        /\ q.challengers = r.challengers
        /\ q.currentChallenger = r.currentChallenger
        /\ p.submitter = r.submitter /\ p.challengers = r.challengers
        /\ p.currentChallenger = r.currentChallenger
    BY <2>1, OverUpdate
  <2>3. over = q /\ lost = p
    BY <1>4, <1>5
  <2> HIDE DEF q, p
  <2> QED
    BY <2>2, <2>3
<1>10. /\ over.bondedDeposits = r.bondedDeposits
       /\ over.challengeTimeout = r.challengeTimeout
       /\ lost.bondedDeposits = r.bondedDeposits
       /\ lost.challengeTimeout = r.challengeTimeout
  BY <1>3, <1>4, <1>5 DEF IsClaim
<1>11. r.currentChallenger <= Len(r.challengers)
  BY <1>3 DEF Sound
<1>12. /\ Sound(over) /\ Held(over) = Held(r)
       /\ DistinctChallengers(over) = DistinctChallengers(r)
  BY <1>3, <1>9, <1>10, <1>11, SameSound
<1>13. /\ Sound(lost) /\ Held(lost) = Held(r)
       /\ DistinctChallengers(lost) = DistinctChallengers(r)
  BY <1>3, <1>9, <1>10, <1>11, SameSound
<1>14. /\ IsFiniteSet(sessions')
       /\ \E p : /\ claims' = [claims EXCEPT ![b] = p]
                 /\ Sound(p) /\ Held(p) = Held(r)
                 /\ DistinctChallengers(p) = DistinctChallengers(r)
  <2>1. CASE claims' = [claims EXCEPT ![b] = lost] /\ sessions' = remaining
    BY <2>1, <1>8, <1>13
  <2>2. CASE RunNextBattleSession(b, over, remaining)
    BY <2>2, <1>8, <1>9, <1>12, RunNextClaim
  <2> QED
    BY <1>7, <2>1, <2>2
<1>15. PICK p : /\ claims' = [claims EXCEPT ![b] = p]
                /\ Sound(p) /\ Held(p) = Held(r)
                /\ DistinctChallengers(p) = DistinctChallengers(r)
  BY <1>14
<1>16. \A c \in Superblocks : SB!StatusOf(c)' = SB!StatusOf(c)
  BY <1>7 DEF SB!StatusOf
<1>17. SB!StatusOf(b) = "InBattle"
  <2>1. r.submitter # NoAccount
    BY <1>1, <1>2 DEF SessionDecided, claimExists
  <2>2. Agrees(r, SB!StatusOf(b)) /\ r.verificationOngoing
    BY <1>1, <1>2, ClaimFacts DEF Fits
  <2> QED
    BY <2>1, <2>2 DEF Agrees
<1>18. deposits' \in [Accounts -> Nat]
  BY <1>7 DEF Purse
<1>19. SumFunctionOnSet(deposits', Accounts) + Held(p) <= Owed + Held(claims[b])
  BY <1>2, <1>3, <1>7, <1>15 DEF Owed
<1> QED
  BY <1>2, <1>7, <1>14, <1>15, <1>16, <1>17, <1>18, <1>19, PurseStep

\* A step of a battle bonds a deposit of one of its two parties.
LEMMA BondForBattlePurse ==
  ASSUME IInv, Purse, NEW s \in sessions, NEW who \in Accounts, NEW amount \in Nat,
         BondForBattle(s, who, amount)
  PROVE  Purse'
<1>1. PICK b \in Superblocks : b = s.superblockHash /\ Fits(s, claims[b])
  BY DEF IInv, SessionsTyped
<1>2. PICK r : r = claims[b]
  OBVIOUS
<1>3. /\ IsClaim(r) /\ Sound(r) /\ r.bondedDeposits \in [Accounts -> Nat]
      /\ Owed \in Nat /\ Held(r) \in Nat
  BY <1>2, PurseFacts
<1>4. PICK q : q = Bond(r, who, amount)
  OBVIOUS
<1>5. /\ claims' = [claims EXCEPT ![b] = q] /\ BondDeposit(who, amount)
      /\ UNCHANGED <<superblocks, sessions, balance, now>>
      /\ who = s.submitter \/ who = s.challenger
      /\ r.submitter # NoAccount
  BY <1>1, <1>2, <1>4 DEF BondForBattle, superblockVars, claimExists
<1>6. /\ q.bondedDeposits \in [Accounts -> Nat]
      /\ \A a \in Accounts : a # who => q.bondedDeposits[a] = r.bondedDeposits[a]
      /\ q.challengeTimeout = r.challengeTimeout
      /\ Held(q) = Held(r) + amount
  BY <1>3, <1>4, BondHeld
<1>7. /\ q.submitter = r.submitter /\ q.challengers = r.challengers
      /\ q.currentChallenger = r.currentChallenger
  BY <1>3, <1>4, BondUpdate DEF SameBattles
<1>8. who \in Parties(r)
  <2>1. CASE who = s.submitter
    BY <2>1, <1>1, <1>2 DEF Fits, Parties
  <2>2. CASE who = s.challenger
    <3>1. r.challengers \in Seq(Accounts)
      BY <1>3 DEF IsClaim
    <3>2. s.number \in 1 .. Len(r.challengers) /\ who = r.challengers[s.number]
      BY <2>2, <1>1, <1>2 DEF Fits
    <3> QED
      BY <3>1, <3>2, InQueue
  <2> QED
    BY <1>5, <2>1, <2>2
<1>9. Sound(q)
  BY <1>3, <1>6, <1>7, <1>8 DEF Sound, Parties
<1>10. /\ deposits' \in [Accounts -> Nat]
       /\ SumFunctionOnSet(deposits', Accounts) = Owed - amount
  BY <1>5, Bonding
<1>11. SumFunctionOnSet(deposits', Accounts) + Held(q) <= Owed + Held(claims[b])
  BY <1>2, <1>3, <1>6, <1>10
<1>12. \A c \in Superblocks : SB!StatusOf(c)' = SB!StatusOf(c)
  BY <1>5 DEF SB!StatusOf
<1>13. SB!StatusOf(b) = "InBattle"
  <2>1. Agrees(r, SB!StatusOf(b)) /\ r.verificationOngoing
    BY <1>1, <1>2, ClaimFacts DEF Fits
  <2> QED
    BY <1>5, <2>1 DEF Agrees
<1>14. DistinctChallengers(q) => DistinctChallengers(claims[b])
  BY <1>2, <1>7 DEF DistinctChallengers
<1>15. IsFiniteSet(sessions')
  BY <1>5 DEF Purse
<1> QED
  BY <1>5, <1>9, <1>10, <1>11, <1>12, <1>13, <1>14, <1>15, PurseStep

\* A claim without bonds.
LEMMA EmptyClaim ==
  ASSUME NEW r, IsClaim(r), Sound(r), NEW x, x \in [Accounts -> Nat],
         \A a \in Accounts : x[a] = 0
  PROVE  LET q == [r EXCEPT !.bondedDeposits = x]
         IN  /\ Sound(q) /\ Held(q) = 0
             /\ \A a \in Accounts : q.bondedDeposits[a] = 0
             /\ DistinctChallengers(q) = DistinctChallengers(r)
<1>1. PICK q : q = [r EXCEPT !.bondedDeposits = x]
  OBVIOUS
<1>2. q.bondedDeposits = x /\ q.challengeTimeout = r.challengeTimeout
  BY <1>1, BondsFields
<1>3. /\ q.submitter = r.submitter /\ q.challengers = r.challengers
      /\ q.currentChallenger = r.currentChallenger
  BY <1>1, BondsUpdate
<1>4. Sound(q)
  BY <1>2, <1>3 DEF Sound
<1>5. Held(q) = 0
  <2>1. IsFiniteSet(Accounts)
    BY FiniteAssumption
  <2>2. SumFunctionOnSet(x, Accounts) = 0
    BY <2>1, SumZero
  <2> QED
    BY <1>2, <2>2 DEF Held
<1> QED
  BY <1>1, <1>2, <1>3, <1>4, <1>5 DEF DistinctChallengers

\* doPayChallengers pays out at most what was bonded, unless an account queued
\* twice, leaves nothing bonded, and gives every challenger its own bond back.
LEMMA PayChallengersPurse ==
  ASSUME IInv, Purse, NEW b \in Superblocks, NEW r, IsClaim(r), Sound(r),
         r.submitter \in Accounts, Held(r) = Held(claims[b]),
         DistinctChallengers(r) = DistinctChallengers(claims[b]),
         PayChallengers(b, r), UNCHANGED <<sessions, balance, now>>,
         \A c \in Superblocks : c # b => SB!StatusOf(c)' = SB!StatusOf(c)
  PROVE  /\ Purse'
         /\ \A a \in ToSet(r.challengers) \ {r.submitter} :
              deposits'[a] >= deposits[a] + r.bondedDeposits[a]
<1>1. PICK shared : shared = Shared(r)
  OBVIOUS
<1>2. PICK paid : paid = ToSet(r.challengers)
  OBVIOUS
<1>3. PICK x : x = [a \in Accounts |-> IF a \in paid THEN 0 ELSE shared[a]]
  OBVIOUS
<1>4. /\ SharesDefined(r)
      /\ deposits' = [a \in Accounts |->
                        deposits[a] + (IF a \in paid THEN shared[a] ELSE 0)]
      /\ claims' = [claims EXCEPT ![b] = [r EXCEPT !.bondedDeposits = x]]
  BY <1>1, <1>2, <1>3 DEF PayChallengers
<1>5. /\ shared \in [Accounts -> Nat]
      /\ \A a \in Accounts \ paid : shared[a] = 0
      /\ \A a \in Accounts \ {r.submitter} : r.bondedDeposits[a] <= shared[a]
      /\ DistinctChallengers(r) => SumFunctionOnSet(shared, Accounts) <= Held(r)
  BY <1>1, <1>2, <1>4, Payment
<1>6. x \in [Accounts -> Nat] /\ \A a \in Accounts : x[a] = 0
  BY <1>3, <1>5
<1>7. PICK q : q = [r EXCEPT !.bondedDeposits = x]
  OBVIOUS
<1>8. /\ Sound(q) /\ Held(q) = 0
      /\ \A a \in Accounts : q.bondedDeposits[a] = 0
      /\ DistinctChallengers(q) = DistinctChallengers(r)
  BY <1>6, <1>7, EmptyClaim
<1>9. \A a \in Accounts : deposits'[a] = deposits[a] + shared[a]
  <2> SUFFICES ASSUME NEW a \in Accounts
               PROVE  deposits'[a] = deposits[a] + shared[a]
    OBVIOUS
  <2>1. deposits[a] \in Nat /\ shared[a] \in Nat
    BY <1>5 DEF Purse
  <2>2. deposits'[a] = deposits[a] + (IF a \in paid THEN shared[a] ELSE 0)
    BY <1>4
  <2>3. a \notin paid => shared[a] = 0
    BY <1>5
  <2> QED
    BY <2>1, <2>2, <2>3
<1>10. \A a \in Accounts : deposits[a] \in Nat /\ shared[a] \in Nat /\ deposits'[a] \in Nat
  BY <1>5, <1>9 DEF Purse
<1>11. deposits' \in [Accounts -> Nat]
  BY <1>4, <1>10
<1>12. SumFunctionOnSet(deposits', Accounts) = Owed + SumFunctionOnSet(shared, Accounts)
  <2>1. PICK f, h : f = deposits /\ h = deposits'
    OBVIOUS
  <2>2. \A a \in Accounts : f[a] \in Int /\ shared[a] \in Int /\ h[a] = f[a] + shared[a]
    BY <1>9, <1>10, <2>1
  <2>3. IsFiniteSet(Accounts)
    BY FiniteAssumption
  <2>4. SumFunctionOnSet(h, Accounts) =
          SumFunctionOnSet(f, Accounts) + SumFunctionOnSet(shared, Accounts)
    BY <2>2, <2>3, SumOfSums
  <2> QED
    BY <2>1, <2>4 DEF Owed
<1>13. SumFunctionOnSet(shared, Accounts) \in Nat
  <2>1. IsFiniteSet(Accounts)
    BY FiniteAssumption
  <2>2. \A a \in Accounts : shared[a] \in Nat
    BY <1>10
  <2> QED
    BY <2>1, <2>2, SumNat
<1>14. ASSUME DistinctChallengers(q)
       PROVE  SumFunctionOnSet(deposits', Accounts) + Held(q) <= Owed + Held(claims[b])
  <2>1. SumFunctionOnSet(shared, Accounts) <= Held(claims[b])
    BY <1>5, <1>8, <1>14
  <2>2. Owed \in Nat /\ Held(claims[b]) \in Nat
    BY PurseFacts
  <2> QED
    BY <1>8, <1>12, <1>13, <2>1, <2>2
<1>15. claims' = [claims EXCEPT ![b] = q] /\ IsFiniteSet(sessions')
  BY <1>4, <1>7 DEF Purse
<1>16. Purse'
  BY <1>8, <1>11, <1>14, <1>15, PurseStep
<1>17. ASSUME NEW a \in ToSet(r.challengers) \ {r.submitter}
       PROVE  deposits'[a] >= deposits[a] + r.bondedDeposits[a]
  <2>1. a \in Accounts
    <3>1. ToSet(r.challengers) \subseteq Accounts
      BY PartiesType DEF Parties
    <3> QED
      BY <3>1
  <2>2. r.bondedDeposits[a] \in Nat /\ r.bondedDeposits[a] <= shared[a]
    BY <1>5, <2>1 DEF Sound
  <2> QED
    BY <1>9, <1>10, <2>1, <2>2
<1> QED
  BY <1>16, <1>17

\* A verdict against a superblock: its challengers are paid.
LEMMA VerdictPurse ==
  ASSUME IInv, Purse, NEW b \in Superblocks, FailClaim(b) \/ RejectClaim(b)
  PROVE  /\ Purse'
         /\ \A c \in Superblocks : c # b => SB!StatusOf(c)' = SB!StatusOf(c)
         /\ \A a \in ToSet(claims[b].challengers) \ {claims[b].submitter} :
              deposits'[a] >= deposits[a] + claims[b].bondedDeposits[a]
<1>1. PICK old : old = claims[b]
  OBVIOUS
<1>2. IsClaim(old) /\ Sound(old)
  BY <1>1, PurseFacts
<1>3. PICK r : /\ r = old \/ r = [old EXCEPT !.decided = TRUE]
               /\ PayChallengers(b, r)
  BY <1>1 DEF FailClaim, RejectClaim
<1>4. /\ old.submitter # NoAccount /\ SB!SetStatus(b, "Invalid")
      /\ UNCHANGED <<sessions, balance, now>>
  BY <1>1 DEF FailClaim, RejectClaim, SB!Invalidate, claimExists
<1>5. /\ IsClaim(r) /\ r.submitter = old.submitter
      /\ r.challengers = old.challengers
      /\ r.currentChallenger = old.currentChallenger
      /\ r.bondedDeposits = old.bondedDeposits
      /\ r.challengeTimeout = old.challengeTimeout
  <2>1. CASE r = old
    BY <2>1, <1>2
  <2>2. CASE r = [old EXCEPT !.decided = TRUE]
    <3>1. /\ r.bondedDeposits = old.bondedDeposits
          /\ r.challengeTimeout = old.challengeTimeout
      BY <2>2, <1>2 DEF IsClaim
    <3> QED
      BY <2>2, <3>1, <1>2, DecidedUpdate
  <2> QED
    BY <1>3, <2>1, <2>2
<1>6. old.currentChallenger <= Len(old.challengers)
  BY <1>2 DEF Sound
<1>7. /\ Sound(r) /\ Held(r) = Held(old)
      /\ DistinctChallengers(r) = DistinctChallengers(old)
  BY <1>2, <1>5, <1>6, SameSound
<1>8. r.submitter \in Accounts
  BY <1>2, <1>4, <1>5 DEF IsClaim
<1>9. \A c \in Superblocks : c # b => SB!StatusOf(c)' = SB!StatusOf(c)
  <2>1. "Invalid" \in SB!Status
    BY DEF SB!Status
  <2> QED
    BY <1>4, <2>1, ClaimFacts, SetStatusStep
<1>10. /\ Purse'
       /\ \A a \in ToSet(r.challengers) \ {r.submitter} :
            deposits'[a] >= deposits[a] + r.bondedDeposits[a]
  BY <1>1, <1>3, <1>4, <1>5, <1>7, <1>8, <1>9, PayChallengersPurse
<1> QED
  BY <1>1, <1>5, <1>9, <1>10

\* A claim that passed unchallenged gives its submitter the bond back; another
\* one keeps its bonds.
LEMMA PassClaimPurse ==
  ASSUME IInv, Purse, NEW b \in Superblocks, PassClaim(b)
  PROVE  Purse'
<1>1. PICK r : r = claims[b]
  OBVIOUS
<1>2. /\ IsClaim(r) /\ Sound(r) /\ r.bondedDeposits \in [Accounts -> Nat]
      /\ deposits \in [Accounts -> Nat]
      /\ Owed \in Nat /\ Held(r) \in Nat
  BY <1>1, PurseFacts
<1>3. PICK done : done = [r EXCEPT !.decided = TRUE]
  OBVIOUS
<1>4. r.submitter \in Accounts /\ UNCHANGED <<sessions, balance, now>>
  BY <1>1, <1>2 DEF PassClaim, claimExists, IsClaim
<1>5. /\ IsClaim(done) /\ done.submitter = r.submitter
      /\ done.challengers = r.challengers
      /\ done.currentChallenger = r.currentChallenger
  BY <1>2, <1>3, DecidedUpdate
<1>6. /\ done.bondedDeposits = r.bondedDeposits
      /\ done.challengeTimeout = r.challengeTimeout
  BY <1>2, <1>3 DEF IsClaim
<1>7. r.currentChallenger <= Len(r.challengers)
  BY <1>2 DEF Sound
<1>8. /\ Sound(done) /\ Held(done) = Held(r)
      /\ DistinctChallengers(done) = DistinctChallengers(r)
  BY <1>2, <1>5, <1>6, <1>7, SameSound
<1>9. IsFiniteSet(sessions')
  BY <1>4 DEF Purse
<1>10. CASE r.challengers = <<>> /\ SB!isApproved(SB!ParentOf(b))
  <2>1. PICK sub \in Accounts : sub = r.submitter
    BY <1>4
  <2>2. PICK x : x = [r.bondedDeposits EXCEPT ![sub] = 0]
    OBVIOUS
  <2>3. PICK k \in Nat : k = r.bondedDeposits[sub]
    BY <1>2
  <2>4. /\ SB!ConfirmAll({b})
        /\ deposits' = [deposits EXCEPT ![sub] = deposits[sub] + k]
        /\ claims' = [claims EXCEPT ![b] =
             [done EXCEPT !.bondedDeposits[sub] = 0]]
    BY <1>1, <1>3, <1>10, <2>1, <2>3 DEF PassClaim, SB!Confirm
  <2>5. PICK q : q = [done EXCEPT !.bondedDeposits = x]
    OBVIOUS
  <2>6. [done EXCEPT !.bondedDeposits[sub] = 0] = q
    BY <1>5, <1>6, <2>2, <2>5 DEF IsClaim
  <2>7. Parties(r) = {sub}
    BY <1>10, <2>1 DEF Parties, ToSet
  <2>8. x \in [Accounts -> Nat] /\ \A a \in Accounts : x[a] = 0
    BY <1>2, <2>2, <2>7 DEF Sound
  <2>9. /\ Sound(q) /\ Held(q) = 0
        /\ \A a \in Accounts : q.bondedDeposits[a] = 0
        /\ DistinctChallengers(q) = DistinctChallengers(done)
    BY <1>5, <1>8, <2>5, <2>8, EmptyClaim
  <2>10. Held(r) = k
    <3>1. Held(r) = SumFunctionOnSet(Remaining(r), Accounts) + r.bondedDeposits[r.submitter]
      BY <1>2, <1>4, TakenOut
    <3>2. Remaining(r) = x
      BY <2>1, <2>2 DEF Remaining
    <3>3. SumFunctionOnSet(x, Accounts) = 0
      <4>1. IsFiniteSet(Accounts)
        BY FiniteAssumption
      <4> QED
        BY <4>1, <2>8, SumZero
    <3> QED
      BY <2>1, <2>3, <3>1, <3>2, <3>3
  <2>11. PICK y \in Nat : y = deposits[sub] + k
    BY <1>2
  <2>12. /\ deposits' \in [Accounts -> Nat]
         /\ SumFunctionOnSet(deposits', Accounts) = Owed + (y - deposits[sub])
    BY <1>2, <2>4, <2>11, DepositUpdate
  <2>13. deposits[sub] \in Nat
    BY <1>2
  <2>14. SumFunctionOnSet(deposits', Accounts) + Held(q) <= Owed + Held(claims[b])
    BY <1>1, <1>2, <2>9, <2>10, <2>11, <2>12, <2>13
  <2>15. \A c \in Superblocks : c # b => SB!StatusOf(c)' = SB!StatusOf(c)
    BY <2>4, ClaimFacts, ConfirmAllStep
  <2>16. claims' = [claims EXCEPT ![b] = q]
    BY <2>4, <2>6
  <2>17. DistinctChallengers(q) => DistinctChallengers(claims[b])
    BY <1>1, <1>8, <2>9
  <2> QED
    BY <1>4, <1>9, <2>9, <2>12, <2>14, <2>15, <2>16, <2>17, PurseStep
<1>11. CASE ~(r.challengers = <<>> /\ SB!isApproved(SB!ParentOf(b)))
  <2>1. /\ SB!SetStatus(b, "SemiApproved")
        /\ claims' = [claims EXCEPT ![b] = done] /\ deposits' = deposits
    BY <1>1, <1>3, <1>11 DEF PassClaim, SB!SemiApprove
  <2>2. /\ SB!StatusOf(b)' = "SemiApproved"
        /\ \A c \in Superblocks : c # b => SB!StatusOf(c)' = SB!StatusOf(c)
    <3>1. "SemiApproved" \in SB!Status
      BY DEF SB!Status
    <3> QED
      BY <2>1, <3>1, ClaimFacts, SetStatusStep
  <2>3. SumFunctionOnSet(deposits', Accounts) + Held(done) <= Owed + Held(claims[b])
    BY <1>1, <1>2, <1>8, <2>1 DEF Owed
  <2>4. deposits' \in [Accounts -> Nat]
    BY <1>2, <2>1
  <2>5. DistinctChallengers(done) => DistinctChallengers(claims[b])
    BY <1>1, <1>8
  <2> QED
    BY <1>4, <1>8, <1>9, <2>1, <2>2, <2>3, <2>4, <2>5, PurseStep
<1> QED
  BY <1>10, <1>11

\* The submitter takes all that is held, as all of it is of parties.
LEMMA BondsOfAll ==
  ASSUME NEW r, IsClaim(r), Sound(r), r.submitter \in Accounts
  PROVE  BondsOf(r) = Held(r)
<1>1. PICK bonds : bonds = r.bondedDeposits /\ bonds \in [Accounts -> Nat]
  BY DEF Sound
<1>2. PICK T : T = Parties(r) /\ T \in SUBSET Accounts
  BY PartiesType
<1>3. \A a \in Accounts : bonds[a] \in Int
  BY <1>1
<1>4. IsFiniteSet(Accounts)
  BY FiniteAssumption
<1>5. SumFunctionOnSet(bonds, Accounts) =
        SumFunctionOnSet(bonds, T) + SumFunctionOnSet(bonds, Accounts \ T)
  BY <1>2, <1>3, <1>4, SumSplit
<1>6. SumFunctionOnSet(bonds, Accounts \ T) = 0
  <2>1. IsFiniteSet(Accounts \ T)
    BY <1>4, FS_Subset
  <2>2. \A a \in Accounts \ T : bonds[a] = 0
    BY <1>1, <1>2 DEF Sound
  <2> QED
    BY <2>1, <2>2, SumZero
<1>7. SumFunctionOnSet(bonds, T) \in Int
  <2>1. IsFiniteSet(T)
    BY <1>2, <1>4, FS_Subset
  <2>2. \A a \in T : bonds[a] \in Int
    BY <1>2, <1>3
  <2> QED
    BY <2>1, <2>2, SumInt
<1> QED
  BY <1>1, <1>2, <1>5, <1>6, <1>7 DEF BondsOf, Held

\* Paid claims hold nothing; the others are as they were.
LEMMA PaidClaims ==
  ASSUME IInv, Purse, NEW S \in SUBSET Superblocks, PaySubmitters(S)
  PROVE  /\ \A c \in Ids : /\ Sound(claims'[c])
                           /\ DistinctChallengers(claims'[c]) = DistinctChallengers(claims[c])
         /\ \A c \in S : /\ Held(claims'[c]) = 0
                         /\ \A a \in Accounts : claims'[c].bondedDeposits[a] = 0
         /\ \A c \in Ids \ S : claims'[c] = claims[c]
<1> DEFINE x(c) == [a \in Accounts |-> IF a \in Parties(claims[c]) THEN 0
                                        ELSE claims[c].bondedDeposits[a]]
<1> DEFINE q(c) == [claims[c] EXCEPT !.bondedDeposits = x(c)]
<1>1. claims' = [c \in Ids |-> IF c \in S THEN q(c) ELSE claims[c]]
  BY DEF PaySubmitters
<1>2. \A c \in Ids : IsClaim(claims[c]) /\ Sound(claims[c])
  BY DEF IInv, ClaimsTyped, Purse
<1>3. ASSUME NEW c \in Ids
      PROVE  x(c) \in [Accounts -> Nat] /\ \A a \in Accounts : x(c)[a] = 0
  <2>1. \A a \in Accounts : x(c)[a] = 0
    BY <1>2 DEF Sound
  <2> HIDE DEF x
  <2>2. x(c) = [a \in Accounts |-> x(c)[a]]
    BY DEF x
  <2> QED
    BY <2>1, <2>2
<1> HIDE DEF x
<1>4. ASSUME NEW c \in Ids
      PROVE  /\ Sound(q(c)) /\ Held(q(c)) = 0
             /\ \A a \in Accounts : q(c).bondedDeposits[a] = 0
             /\ DistinctChallengers(q(c)) = DistinctChallengers(claims[c])
  BY <1>2, <1>3, EmptyClaim
<1> HIDE DEF q
<1>5. \A c \in Ids : claims'[c] = IF c \in S THEN q(c) ELSE claims[c]
  BY <1>1
<1>6. \A c \in S : c \in Ids
  BY DEF Ids
<1> QED
  BY <1>2, <1>4, <1>5, <1>6

\* What the claims hold of the superblocks in T is what their submitters get.
LEMMA PaidDeposits ==
  ASSUME IInv, Purse, NEW S \in SUBSET Superblocks, PaySubmitters(S),
         NEW T, T = {c \in S : claims[c].submitter \in Accounts},
         NEW f, \A c \in Superblocks : f[c] = Held(claims[c])
  PROVE  /\ deposits' \in [Accounts -> Nat]
         /\ SumFunctionOnSet(deposits', Accounts) = Owed + SumFunctionOnSet(f, T)
<1> DEFINE F == [c \in S |-> BondsOf(claims[c])]
<1> DEFINE grant(a) == SumFunctionOnSet(F, {c \in S : claims[c].submitter = a})
<1>1. deposits' = [a \in Accounts |-> deposits[a] + grant(a)]
  BY DEF PaySubmitters
<1>2. \A c \in T : F[c] = f[c] /\ F[c] \in Nat
  <2> SUFFICES ASSUME NEW c \in T PROVE F[c] = f[c] /\ F[c] \in Nat
    OBVIOUS
  <2>1. c \in S /\ c \in Superblocks /\ claims[c].submitter \in Accounts
    OBVIOUS
  <2>2. IsClaim(claims[c]) /\ Sound(claims[c]) /\ Held(claims[c]) \in Nat
    BY <2>1, PurseFacts
  <2>3. BondsOf(claims[c]) = Held(claims[c])
    BY <2>1, <2>2, BondsOfAll
  <2> QED
    BY <2>1, <2>2, <2>3
<1> HIDE DEF F
<1>3. IsFiniteSet(Accounts) /\ IsFiniteSet(Superblocks) /\ IsFiniteSet(T)
  BY FiniteAssumption, FS_Subset
<1> DEFINE owner == [c \in T |-> claims[c].submitter]
<1>4. owner \in [T -> Accounts]
  OBVIOUS
<1> DEFINE G == [a \in Accounts |-> SumFunctionOnSet(F, {c \in T : owner[c] = a})]
<1>5. SumFunctionOnSet(G, Accounts) = SumFunctionOnSet(F, T)
  <2>1. \A c \in T : F[c] \in Int
    BY <1>2
  <2> HIDE DEF owner
  <2> QED
    BY <1>3, <1>4, <2>1, SumGroups
<1>6. \A a \in Accounts : {c \in S : claims[c].submitter = a} = {c \in T : owner[c] = a}
  OBVIOUS
<1>7. \A a \in Accounts : grant(a) = G[a] /\ G[a] \in Nat
  <2> SUFFICES ASSUME NEW a \in Accounts PROVE grant(a) = G[a] /\ G[a] \in Nat
    OBVIOUS
  <2>1. grant(a) = G[a]
    BY <1>6
  <2> DEFINE R == {c \in T : owner[c] = a}
  <2>2. R \subseteq T /\ G[a] = SumFunctionOnSet(F, R)
    OBVIOUS
  <2> HIDE DEF R, G, owner
  <2>3. IsFiniteSet(R)
    BY <1>3, <2>2, FS_Subset
  <2>4. \A c \in R : F[c] \in Nat
    BY <1>2, <2>2
  <2>5. SumFunctionOnSet(F, R) \in Nat
    BY <2>3, <2>4, SumNat
  <2> QED
    BY <2>1, <2>2, <2>5
<1> HIDE DEF G, grant, owner
<1>8. PICK d : d = deposits /\ d \in [Accounts -> Nat]
  BY DEF Purse
<1>9. PICK h : h = deposits'
  OBVIOUS
<1>10. \A a \in Accounts : d[a] \in Nat /\ G[a] \in Nat /\ h[a] = d[a] + G[a]
  BY <1>1, <1>7, <1>8, <1>9
<1>11. \A a \in Accounts : h[a] \in Nat
  BY <1>10
<1>12. h \in [Accounts -> Nat]
  BY <1>1, <1>9, <1>11
<1>13. SumFunctionOnSet(h, Accounts) =
         SumFunctionOnSet(d, Accounts) + SumFunctionOnSet(G, Accounts)
  <2>1. \A a \in Accounts : d[a] \in Int /\ G[a] \in Int /\ h[a] = d[a] + G[a]
    BY <1>10
  <2> QED
    BY <1>3, <2>1, SumOfSums
<1>14. SumFunctionOnSet(F, T) = SumFunctionOnSet(f, T)
  <2>1. \A c \in T : F[c] = f[c]
    BY <1>2
  <2> QED
    BY <1>3, <2>1, SumEqual
<1> QED
  BY <1>5, <1>8, <1>9, <1>12, <1>13, <1>14 DEF Owed

\* It leaves what is bonded.
LEMMA PaidBonds ==
  ASSUME IInv, Purse, NEW S \in SUBSET Superblocks, PaySubmitters(S),
         NEW T, T = {c \in S : claims[c].submitter \in Accounts},
         NEW f, \A c \in Superblocks : f[c] = Held(claims[c])
  PROVE  Bonded = Bonded' + SumFunctionOnSet(f, T)
<1> DEFINE f0 == [c \in Superblocks |-> SumFunctionOnSet(claims[c].bondedDeposits, Accounts)]
<1> DEFINE g == [c \in Superblocks |-> SumFunctionOnSet(claims'[c].bondedDeposits, Accounts)]
<1>1. \A c \in Superblocks : f0[c] = f[c] /\ g[c] = Held(claims'[c])
  BY DEF Held
<1>2. Bonded = SumFunctionOnSet(f0, Superblocks) /\ Bonded' = SumFunctionOnSet(g, Superblocks)
  BY DEF Bonded
<1> HIDE DEF f0, g
<1> DEFINE h == [c \in Superblocks |-> IF c \in T THEN f[c] ELSE 0]
<1>3. /\ \A c \in S : Held(claims'[c]) = 0
      /\ \A c \in Ids \ S : claims'[c] = claims[c]
  BY PaidClaims
<1>4. \A c \in Superblocks : f[c] \in Nat
  BY PurseFacts
<1>5. ASSUME NEW c \in S \ T
      PROVE  f[c] = 0
  <2>1. c \in Ids /\ c \in Superblocks /\ IsClaim(claims[c])
    BY ClaimFacts
  <2>2. claims[c].submitter = NoAccount
    BY <2>1 DEF IsClaim
  <2>3. \A a \in Accounts : claims[c].bondedDeposits[a] = 0
    BY <2>1, <2>2, NoClaimNoBonds
  <2>4. IsFiniteSet(Accounts)
    BY FiniteAssumption
  <2>5. SumFunctionOnSet(claims[c].bondedDeposits, Accounts) = 0
    BY <2>3, <2>4, SumZero
  <2> QED
    BY <2>1, <2>5 DEF Held
<1>6. \A c \in Superblocks : g[c] \in Nat /\ h[c] \in Nat /\ f0[c] = g[c] + h[c]
  <2> SUFFICES ASSUME NEW c \in Superblocks
               PROVE  g[c] \in Nat /\ h[c] \in Nat /\ f0[c] = g[c] + h[c]
    OBVIOUS
  <2>1. CASE c \in T
    BY <1>1, <1>3, <1>4, <2>1
  <2>2. CASE c \in S \ T
    BY <1>1, <1>3, <1>5, <2>2
  <2>3. CASE c \notin S
    <3>1. c \in Ids \ S
      BY <2>3 DEF Ids
    <3>2. g[c] = f[c]
      BY <1>1, <1>3, <3>1
    <3> QED
      BY <1>1, <1>4, <2>3, <3>2
  <2> QED
    BY <2>1, <2>2, <2>3
<1>7. /\ IsFiniteSet(Superblocks) /\ T \in SUBSET Superblocks
      /\ IsFiniteSet(T) /\ IsFiniteSet(Superblocks \ T)
  BY FiniteAssumption, FS_Subset
<1>8. /\ \A c \in T : h[c] = f[c]
      /\ \A c \in Superblocks \ T : h[c] = 0
  BY <1>7
<1> HIDE DEF h
<1>9. \A c \in Superblocks : g[c] \in Int /\ h[c] \in Int /\ f0[c] = g[c] + h[c]
  BY <1>6
<1>10. SumFunctionOnSet(f0, Superblocks) =
         SumFunctionOnSet(g, Superblocks) + SumFunctionOnSet(h, Superblocks)
  BY <1>7, <1>9, SumOfSums
<1>11. SumFunctionOnSet(h, Superblocks) =
         SumFunctionOnSet(h, T) + SumFunctionOnSet(h, Superblocks \ T)
  <2>1. \A c \in Superblocks : h[c] \in Int
    BY <1>9
  <2> QED
    BY <1>7, <2>1, SumSplit
<1>12. SumFunctionOnSet(h, Superblocks \ T) = 0
  BY <1>7, <1>8, SumZero
<1>13. SumFunctionOnSet(h, T) = SumFunctionOnSet(f, T)
  BY <1>7, <1>8, SumEqual
<1>14. SumFunctionOnSet(f, T) \in Int
  <2>1. \A c \in T : f[c] \in Int
    BY <1>4, <1>7
  <2> QED
    BY <1>7, <2>1, SumInt
<1> QED
  BY <1>2, <1>10, <1>11, <1>12, <1>13, <1>14

\* A confirmation pays the bonds of the confirmed superblocks to their
\* submitters.
LEMMA ConfirmClaimPurse ==
  ASSUME IInv, TreeTyped, Purse, NEW b \in Superblocks, NEW d \in Superblocks,
         ConfirmClaim(b, d)
  PROVE  /\ Purse'
         /\ \A c \in Superblocks :
              SB!StatusOf(c)' = "Approved" \/ SB!StatusOf(c)' = SB!StatusOf(c)
<1> DEFINE down == Descent(b, d)
<1>1. \A c \in down : SB!StatusOf(c) = "SemiApproved"
  BY DEF ConfirmClaim
<1>2. down \subseteq Superblocks
  <2>1. b \in Ids /\ d \in Ids
    BY DEF Ids
  <2> QED
    BY <1>1, <2>1, DescentIsPath
<1>3. PICK S : /\ S = {b} \/ S = {b} \cup down
               /\ SB!ConfirmAll(S) /\ PaySubmitters(S)
               /\ UNCHANGED <<sessions, balance, now>>
  BY DEF ConfirmClaim
<1>4. S \in SUBSET Superblocks
  BY <1>2, <1>3
<1> HIDE DEF down
<1>5. \A c \in Superblocks :
        SB!StatusOf(c)' = IF c \in S THEN "Approved" ELSE SB!StatusOf(c)
  BY <1>3, ConfirmAllStep DEF IInv
<1>6. PICK f : f = [c \in Superblocks |-> Held(claims[c])]
  OBVIOUS
<1>7. \A c \in Superblocks : f[c] = Held(claims[c])
  BY <1>6
<1>8. PICK T : T = {c \in S : claims[c].submitter \in Accounts}
  OBVIOUS
<1>9. /\ deposits' \in [Accounts -> Nat]
      /\ SumFunctionOnSet(deposits', Accounts) = Owed + SumFunctionOnSet(f, T)
  BY <1>3, <1>4, <1>7, <1>8, PaidDeposits
<1>10. Bonded = Bonded' + SumFunctionOnSet(f, T)
  BY <1>3, <1>4, <1>7, <1>8, PaidBonds
<1>11. /\ \A c \in Ids :
            /\ Sound(claims'[c])
            /\ DistinctChallengers(claims'[c]) = DistinctChallengers(claims[c])
       /\ \A c \in S : \A a \in Accounts : claims'[c].bondedDeposits[a] = 0
       /\ \A c \in Ids \ S : claims'[c] = claims[c]
  BY <1>3, <1>4, PaidClaims
<1>12. BondsReleased'
  <2> SUFFICES ASSUME NEW c \in Superblocks,
                      SB!StatusOf(c)' \in {"Approved", "Invalid"}, NEW a \in Accounts
               PROVE  claims'[c].bondedDeposits[a] = 0
    BY DEF BondsReleased
  <2>1. CASE c \in S
    BY <1>11, <2>1
  <2>2. CASE c \notin S
    <3>1. claims'[c] = claims[c] /\ SB!StatusOf(c)' = SB!StatusOf(c)
      BY <1>5, <1>11, <2>2 DEF Ids
    <3> QED
      BY <3>1 DEF Purse, BondsReleased
  <2> QED
    BY <2>1, <2>2
<1>13. SolventIfDistinct'
  <2> SUFFICES ASSUME \A c \in Superblocks : DistinctChallengers(claims'[c])
               PROVE  Solvent'
    BY DEF SolventIfDistinct, DistinctChallengers
  <2>1. \A c \in Superblocks : DistinctChallengers(claims[c])
    BY <1>11 DEF Ids
  <2>2. Owed + Bonded <= balance /\ balance \in Nat
    BY <2>1 DEF Purse, SolventIfDistinct, Solvent
  <2>3. Owed' = Owed + SumFunctionOnSet(f, T)
    BY <1>9 DEF Owed
  <2>4. Owed \in Nat /\ Bonded \in Nat
    BY SumsAreNumbers
  <2>5. SumFunctionOnSet(f, T) \in Nat
    <3>1. T \subseteq Superblocks /\ \A c \in T : f[c] \in Nat
      BY <1>4, <1>7, <1>8, PurseFacts
    <3>2. IsFiniteSet(T)
      BY <3>1, FiniteAssumption, FS_Subset
    <3> QED
      BY <3>1, <3>2, SumNat
  <2>6. Bonded' \in Int
    <3>1. \A c \in Superblocks :
            SumFunctionOnSet(claims'[c].bondedDeposits, Accounts) \in Nat
      BY <1>11, HeldType DEF Held, Sound, Ids
    <3> DEFINE g == [c \in Superblocks |->
                       SumFunctionOnSet(claims'[c].bondedDeposits, Accounts)]
    <3>2. Bonded' = SumFunctionOnSet(g, Superblocks) /\ \A c \in Superblocks : g[c] \in Int
      BY <3>1 DEF Bonded
    <3> HIDE DEF g
    <3>3. IsFiniteSet(Superblocks)
      BY FiniteAssumption
    <3> QED
      BY <3>2, <3>3, SumInt
  <2>7. balance' = balance
    BY <1>3
  <2>8. Owed' + Bonded' <= balance'
    BY <1>10, <2>2, <2>3, <2>4, <2>5, <2>6, <2>7
  <2> QED
    BY <2>8 DEF Solvent
<1>14. Purse'
  <2>1. (\A c \in Ids : Sound(claims[c]))'
    BY <1>11
  <2>2. balance' \in Nat /\ now' \in Nat /\ IsFiniteSet(sessions')
    BY <1>3 DEF Purse
  <2> QED
    BY <1>9, <1>12, <1>13, <2>1, <2>2 DEF Purse
<1> QED
  BY <1>5, <1>14

\* Nothing is deposited or bonded at the start.
LEMMA InitPurse == Init => Purse
<1> SUFFICES ASSUME Init PROVE Purse
  OBVIOUS
<1>1. PICK r : r = NewClaim(NoAccount, 0)
  OBVIOUS
<1>2. /\ claims = [b \in Ids |-> r] /\ deposits = [a \in Accounts |-> 0]
      /\ sessions = {} /\ balance = 0 /\ now = 0
  BY <1>1 DEF Init
<1>3. /\ r.bondedDeposits = [a \in Accounts |-> 0] /\ r.challengeTimeout = 0
      /\ r.challengers = <<>> /\ r.currentChallenger = 0
  BY <1>1 DEF NewClaim, NoBonds
<1>4. Sound(r)
  BY <1>3 DEF Sound
<1>5. \A b \in Superblocks : \A a \in Accounts : claims[b].bondedDeposits[a] = 0
  BY <1>2, <1>3 DEF Ids
<1>6. IsFiniteSet(Accounts) /\ IsFiniteSet(Superblocks)
  BY FiniteAssumption
<1>7. Owed = 0
  <2>1. \A a \in Accounts : deposits[a] = 0
    BY <1>2
  <2> QED
    BY <1>6, <2>1, SumZero DEF Owed
<1>8. Bonded = 0
  <2> DEFINE f == [b \in Superblocks |->
                     SumFunctionOnSet(claims[b].bondedDeposits, Accounts)]
  <2>1. \A b \in Superblocks : f[b] = 0
    BY <1>5, <1>6, SumZero
  <2>2. Bonded = SumFunctionOnSet(f, Superblocks)
    BY DEF Bonded
  <2> HIDE DEF f
  <2> QED
    BY <1>6, <2>1, <2>2, SumZero
<1>9. SolventIfDistinct
  BY <1>2, <1>7, <1>8 DEF SolventIfDistinct, Solvent
<1>10. IsFiniteSet(sessions)
  BY <1>2, FS_EmptySet
<1>11. BondsReleased
  BY <1>5 DEF BondsReleased
<1>12. \A b \in Ids : Sound(claims[b])
  BY <1>2, <1>4
<1> QED
  BY <1>2, <1>9, <1>10, <1>11, <1>12 DEF Purse

\* Time passes, or nothing happens.
LEMMA IdlePurse ==
  ASSUME Purse, Tick \/ UNCHANGED vars
  PROVE  Purse'
<1>1. UNCHANGED <<superblocks, claims, deposits, sessions, balance>> /\ now' \in Nat
  BY DEF Tick, vars, superblockVars, Purse
<1>2. BondsReleased'
  BY <1>1 DEF Purse, BondsReleased, SB!StatusOf
<1>3. Owed' = Owed /\ Bonded' = Bonded
  BY <1>1 DEF Owed, Bonded
<1>4. SolventIfDistinct'
  BY <1>1, <1>3 DEF Purse, SolventIfDistinct, DistinctChallengers, Solvent
<1> QED
  BY <1>1, <1>2, <1>4 DEF Purse

\* Every transaction keeps the purse.
LEMMA PurseInductive ==
  ASSUME IInv, TreeTyped, Purse, [Next]_vars
  PROVE  Purse'
<1>1. CASE Tick \/ UNCHANGED vars
  BY <1>1, IdlePurse
<1>2. ASSUME NEW b \in Superblocks, NEW w \in Works, Initialize(b, w)
      PROVE  Purse'
  BY <1>2, InitializePurse
<1>3. ASSUME NEW a \in Accounts, NEW n \in Amounts,
             MakeDeposit(a, n) \/ WithdrawDeposit(a, n)
      PROVE  Purse'
  <2>1. n \in Nat
    BY AmountsAssumption
  <2> QED
    BY <1>3, <2>1, MakeDepositPurse, WithdrawDepositPurse
<1>4. ASSUME NEW a \in Accounts, NEW b \in Superblocks, NEW p \in Superblocks,
             NEW w \in Works, NEW t \in Timestamps, ProposeSuperblock(a, b, p, w, t)
      PROVE  Purse'
  BY <1>4, ProposeSuperblockPurse
<1>5. ASSUME NEW a \in Accounts, NEW b \in Superblocks, ChallengeSuperblock(a, b)
      PROVE  Purse'
  BY <1>5, ChallengeSuperblockPurse
<1>6. ASSUME NEW b \in Superblocks, FailClaim(b) \/ RejectClaim(b)
      PROVE  Purse'
  BY <1>6, VerdictPurse
<1>7. ASSUME NEW b \in Superblocks, PassClaim(b)
      PROVE  Purse'
  BY <1>7, PassClaimPurse
<1>8. ASSUME NEW b \in Superblocks, NEW d \in Superblocks, ConfirmClaim(b, d)
      PROVE  Purse'
  BY <1>8, ConfirmClaimPurse
<1>9. ASSUME NEW s \in sessions, ConvictChallenger(s) \/ ConvictSubmitter(s)
      PROVE  Purse'
  BY <1>9, SessionDecidedPurse DEF ConvictChallenger, ConvictSubmitter
<1>10. ASSUME NEW s \in sessions, NEW a \in Accounts, NEW n \in BattleCosts,
              BondForBattle(s, a, n)
       PROVE  Purse'
  <2>1. n \in Nat
    BY AmountsAssumption
  <2> QED
    BY <1>10, <2>1, BondForBattlePurse
<1> QED
  BY <1>1, <1>2, <1>3, <1>4, <1>5, <1>6, <1>7, <1>8, <1>9, <1>10 DEF Next

\* The three invariants of claims, tree and purse, together inductive.
Inv == IInv /\ SBP!SkipInv /\ Purse

\* They hold at the start, and every transaction keeps them.
LEMMA InvInductive ==
  /\ Init => Inv
  /\ Inv /\ [Next]_vars => Inv'
<1>1. ASSUME Init
      PROVE  Inv
  BY <1>1, InitHolds, TreeInvariant, InitPurse DEF Inv
<1>2. ASSUME Inv, [Next]_vars
      PROVE  Inv'
  BY <1>2, Step, TreeInvariant, TreeFacts, PurseInductive DEF SBP!SkipInv, Inv
<1> QED
  BY <1>1, <1>2

\* They hold of every reachable state.
THEOREM InvHolds == Spec => []Inv
<1> QED
  BY InvInductive, PTL DEF Spec

-----------------------------------------------------------------------------
(* What a transaction can do to the status of a superblock.                *)

\* Verdicts have their reasons: a superblock becomes invalid by a lost battle
\* or a rejection, and approved as the genesis, or unchallenged, or as the one
\* that confirmClaim was called for.
Verdict(c) ==
  \/ SB!StatusOf(c)' \in {SB!StatusOf(c), "New", "InBattle", "SemiApproved"}
  \/ FailClaim(c) \/ RejectClaim(c)
  \/ SB!StatusOf(c) = "Uninitialized"
  \/ claims[c].challengers = <<>>
  \/ \E d \in Superblocks : ConfirmClaim(c, d)

\* A change of status has its reason; of an invalid superblock, always the
\* same two.
LEMMA Verdicts ==
  ASSUME IInv, TreeTyped, Purse, [Next]_vars, NEW c \in Superblocks
  PROVE  /\ Verdict(c)
         /\ SB!StatusOf(c)' = "Invalid" /\ SB!StatusOf(c) # "Invalid" =>
              FailClaim(c) \/ RejectClaim(c)
<1> DEFINE P == /\ Verdict(c)
                /\ SB!StatusOf(c)' = "Invalid" /\ SB!StatusOf(c) # "Invalid" =>
                     FailClaim(c) \/ RejectClaim(c)
<1>1. SuperblocksTyped
  BY DEF IInv
<1>2. /\ SB!StatusOf(c)' = SB!StatusOf(c) => P
      /\ SB!StatusOf(c)' \in {"New", "InBattle", "SemiApproved"} => P
  BY DEF Verdict
<1> HIDE DEF P
<1>3. ASSUME UNCHANGED superblockVars
      PROVE  P
  BY <1>2, <1>3 DEF superblockVars, SB!StatusOf
<1>4. ASSUME NEW b \in Superblocks, NEW w \in Works, Initialize(b, w)
      PROVE  P
  <2> DEFINE info == [status |-> "Approved", parentId |-> NoSuperblock,
                      accumulatedWork |-> w, index |-> indexNextSuperblock,
                      height |-> 1, ancestors |-> [i \in SB!Depths |-> 0]]
  <2>1. SB!Register(b, info)
    BY <1>4 DEF Initialize, SB!Initialize
  <2>2. IsSuperblock(info) /\ info.status = "Approved"
    BY DEF IsSuperblock, SB!Status
  <2> HIDE DEF info
  <2>3. /\ SB!StatusOf(b) = "Uninitialized"
        /\ SB!StatusOf(c)' = IF c = b THEN "Approved" ELSE SB!StatusOf(c)
    BY <1>1, <2>1, <2>2, RegisterStep
  <2> QED
    BY <2>3 DEF P, Verdict
<1>5. ASSUME NEW a \in Accounts, NEW b \in Superblocks, NEW p \in Superblocks,
             NEW w \in Works, NEW t \in Timestamps, ProposeSuperblock(a, b, p, w, t)
      PROVE  P
  <2> DEFINE anc == SB!updateAncestors(superblocks[p].ancestors,
                                       superblocks[p].index, SB!HeightOf(p))
  <2> DEFINE info == [status |-> "New", parentId |-> p,
                      accumulatedWork |-> w, index |-> indexNextSuperblock,
                      height |-> SB!HeightOf(p) + 1, ancestors |-> anc]
  <2>1. SB!Register(b, info)
    BY <1>5 DEF ProposeSuperblock, SB!Propose
  <2>2. IsSuperblock(info) /\ info.status = "New"
    BY DEF IsSuperblock, SB!Status
  <2> HIDE DEF info
  <2>3. SB!StatusOf(c)' = IF c = b THEN "New" ELSE SB!StatusOf(c)
    BY <1>1, <2>1, <2>2, RegisterStep
  <2> QED
    BY <1>2, <2>3
<1>6. ASSUME NEW a \in Accounts, NEW b \in Superblocks, ChallengeSuperblock(a, b)
      PROVE  P
  <2>1. SB!SetStatus(b, "InBattle") /\ "InBattle" \in SB!Status
    BY <1>6 DEF ChallengeSuperblock, SB!Challenge, SB!Status
  <2>2. SB!StatusOf(c)' = IF c = b THEN "InBattle" ELSE SB!StatusOf(c)
    BY <1>1, <2>1, SetStatusStep
  <2> QED
    BY <1>2, <2>2
<1>7. ASSUME NEW b \in Superblocks, FailClaim(b) \/ RejectClaim(b)
      PROVE  P
  <2>1. c # b => SB!StatusOf(c)' = SB!StatusOf(c)
    BY <1>7, VerdictPurse
  <2> QED
    BY <1>2, <1>7, <2>1 DEF P, Verdict
<1>8. ASSUME NEW b \in Superblocks, PassClaim(b)
      PROVE  P
  <2>1. CASE claims[b].challengers = <<>> /\ SB!ConfirmAll({b})
    <3>1. SB!StatusOf(c)' = IF c \in {b} THEN "Approved" ELSE SB!StatusOf(c)
      BY <1>1, <2>1, ConfirmAllStep
    <3> QED
      BY <2>1, <3>1 DEF P, Verdict
  <2>2. CASE SB!SetStatus(b, "SemiApproved")
    <3>1. "SemiApproved" \in SB!Status
      BY DEF SB!Status
    <3>2. SB!StatusOf(c)' = IF c = b THEN "SemiApproved" ELSE SB!StatusOf(c)
      BY <1>1, <2>2, <3>1, SetStatusStep
    <3> QED
      BY <1>2, <3>2
  <2> QED
    BY <1>8, <2>1, <2>2 DEF PassClaim, SB!Confirm, SB!SemiApprove
<1>9. ASSUME NEW b \in Superblocks, NEW d \in Superblocks, ConfirmClaim(b, d)
      PROVE  P
  <2>1. PICK S : /\ SB!ConfirmAll(S)
                 /\ \A x \in S : x = b \/ claims[x].challengers = <<>>
    BY <1>9 DEF ConfirmClaim
  <2>2. SB!StatusOf(c)' = IF c \in S THEN "Approved" ELSE SB!StatusOf(c)
    BY <1>1, <2>1, ConfirmAllStep
  <2> QED
    BY <1>9, <2>1, <2>2 DEF P, Verdict
<1>10. ASSUME NEW s \in sessions, ConvictChallenger(s) \/ ConvictSubmitter(s)
       PROVE  UNCHANGED superblockVars
  BY <1>10 DEF ConvictChallenger, ConvictSubmitter, SessionDecided
<1>11. ASSUME NEW a \in Accounts, NEW n,
              MakeDeposit(a, n) \/ WithdrawDeposit(a, n)
       PROVE  UNCHANGED superblockVars
  BY <1>11 DEF MakeDeposit, WithdrawDeposit
<1>12. ASSUME NEW s \in sessions, NEW a \in Accounts, NEW n, BondForBattle(s, a, n)
       PROVE  UNCHANGED superblockVars
  BY <1>12 DEF BondForBattle
<1>13. Tick \/ UNCHANGED vars => UNCHANGED superblockVars
  BY DEF Tick, vars
<1>14. P
  BY <1>3, <1>4, <1>5, <1>6, <1>7, <1>8, <1>9, <1>10, <1>11, <1>12, <1>13 DEF Next
<1> QED
  BY <1>14 DEF P

-----------------------------------------------------------------------------
(* The theorems about money and verdicts.                                  *)

\* Every variable has its type: so a claim's bonds and the deposits never fall
\* below 0, whatever is withdrawn, bonded and paid.
THEOREM TypeCorrect == Spec => []TypeOK
<1>1. Inv => TypeOK
  <2> SUFFICES ASSUME Inv PROVE TypeOK
    OBVIOUS
  <2>1. SB!TypeOK
    BY DEF Inv, SBP!SkipInv, SBP!IInv, SBP!TypeOK, SB!TypeOK, SBP!Ids, SB!Ids,
           SBP!SuperblockInfo, SB!SuperblockInfo, SBP!Status, SB!Status,
           SBP!Depths, SB!Depths
  <2>2. ASSUME NEW b \in Ids
        PROVE  claims[b] \in SuperblockClaim
    <3>1. IsClaim(claims[b]) /\ Sound(claims[b])
      BY DEF Inv, IInv, ClaimsTyped, Purse
    <3> QED
      BY <3>1 DEF IsClaim, Sound, SuperblockClaim
  <2>3. claims \in [Ids -> SuperblockClaim]
    BY <2>2 DEF Inv, IInv, ClaimsTyped
  <2>4. ASSUME NEW s \in sessions
        PROVE  s \in [superblockHash : Superblocks, number : Nat \ {0},
                      submitter : Accounts, challenger : Accounts]
    <3>1. s \in [superblockHash : Superblocks, number : Nat,
                 submitter : Accounts, challenger : Accounts]
      BY DEF Inv, IInv, SessionsTyped
    <3>2. s.number # 0
      BY DEF Inv, IInv, Fits
    <3> QED
      BY <3>1, <3>2
  <2> QED
    BY <2>1, <2>3, <2>4 DEF TypeOK, Inv, Purse
<1> QED
  BY <1>1, InvHolds, PTL

\* Once a superblock has its verdict no deposit stays bonded for its claim.
THEOREM BondsReleasedHolds == Spec => []BondsReleased
<1>1. Inv => BondsReleased
  BY DEF Inv, Purse
<1> QED
  BY <1>1, InvHolds, PTL

\* The contract holds the ether that it owes, free or bonded, as long as no
\* account challenges one superblock twice.
THEOREM SolventIfDistinctHolds == Spec => []SolventIfDistinct
<1>1. Inv => SolventIfDistinct
  BY DEF Inv, Purse
<1> QED
  BY <1>1, InvHolds, PTL

\* When a superblock becomes invalid each of its challengers gets at least its
\* own bond back, wherever it queued and however often.
THEOREM ChallengersRefundedHolds == Spec => ChallengersRefunded
<1> DEFINE Refunded ==
      \A b \in Superblocks :
        SB!StatusOf(b) # "Invalid" /\ SB!StatusOf(b)' = "Invalid" =>
          \A a \in ToSet(claims[b].challengers) \ {claims[b].submitter} :
            deposits'[a] >= deposits[a] + claims[b].bondedDeposits[a]
<1>1. ASSUME Inv, [Next]_vars
      PROVE  Refunded
  BY <1>1, TreeFacts, Verdicts, VerdictPurse DEF SBP!SkipInv, Inv
<1>2. Inv /\ [Next]_vars => [Refunded]_vars
  BY <1>1
<1>3. ChallengersRefunded <=> [][Refunded]_vars
  BY DEF ChallengersRefunded
<1> HIDE DEF Refunded
<1> QED
  BY <1>2, <1>3, InvHolds, PTL DEF Spec

\* A challenged superblock is approved only when it has a run of
\* superblockConfirmations semi-approved superblocks above it.
THEOREM ChallengedNeedsConfirmationsHolds == Spec => ChallengedNeedsConfirmations
<1> DEFINE Confirmed ==
      \A b \in Superblocks :
        /\ SB!StatusOf(b) # "Approved" /\ SB!StatusOf(b)' = "Approved"
        /\ claims[b].challengers # <<>>
        => \E d \in Superblocks :
             /\ Cardinality(Descent(b, d)) >= superblockConfirmations
             /\ \A c \in Descent(b, d) \cup {b} : SB!StatusOf(c) = "SemiApproved"
<1>1. ASSUME Inv, [Next]_vars
      PROVE  Confirmed
  <2> SUFFICES ASSUME NEW b \in Superblocks,
                      SB!StatusOf(b) # "Approved", SB!StatusOf(b)' = "Approved",
                      claims[b].challengers # <<>>
               PROVE  \E d \in Superblocks :
                        /\ Cardinality(Descent(b, d)) >= superblockConfirmations
                        /\ \A c \in Descent(b, d) \cup {b} :
                             SB!StatusOf(c) = "SemiApproved"
    OBVIOUS
  <2>1. IInv /\ TreeTyped /\ Purse
    BY <1>1, TreeFacts DEF SBP!SkipInv, Inv
  <2>2. Verdict(b)
    BY <1>1, <2>1, Verdicts
  <2>3. SB!StatusOf(b) # "Uninitialized"
    <3>1. claims[b].submitter # NoAccount
      BY <2>1, PurseFacts DEF Sound
    <3> QED
      BY <2>1, <3>1, ClaimFacts DEF Agrees
  <2>4. ~FailClaim(b) /\ ~RejectClaim(b)
    <3>1. SuperblocksTyped /\ "Invalid" \in SB!Status
      BY <2>1 DEF IInv, SB!Status
    <3>2. SB!SetStatus(b, "Invalid") => SB!StatusOf(b)' = "Invalid"
      BY <3>1, SetStatusStep
    <3> QED
      BY <3>2 DEF FailClaim, RejectClaim, SB!Invalidate
  <2>5. PICK d \in Superblocks : ConfirmClaim(b, d)
    BY <2>2, <2>3, <2>4 DEF Verdict
  <2>6. /\ Cardinality(Descent(b, d)) >= superblockConfirmations
        /\ \A c \in Descent(b, d) \cup {b} : SB!StatusOf(c) = "SemiApproved"
    BY <2>5 DEF ConfirmClaim
  <2> QED
    BY <2>6
<1>2. Inv /\ [Next]_vars => [Confirmed]_vars
  BY <1>1
<1>3. ChallengedNeedsConfirmations <=> [][Confirmed]_vars
  BY DEF ChallengedNeedsConfirmations
<1> HIDE DEF Confirmed
<1> QED
  BY <1>2, <1>3, InvHolds, PTL DEF Spec

\* A semi-approved superblock is rejected only when the main chain, walked by
\* parents, runs through another superblock at its height and through
\* superblockConfirmations more.
THEOREM RejectionNeedsForkHolds == Spec => RejectionNeedsFork
<1> DEFINE Left(b) ==
      LET rival == SB!AncestorAt(bestSuperblock, SB!HeightOf(b))
      IN  /\ rival # b
          /\ SB!HeightOf(rival) = SB!HeightOf(b)
          /\ SB!isApproved(rival)
          /\ \E c \in Superblocks :
               /\ SB!isApproved(c)
               /\ SB!AncestorAt(c, SB!HeightOf(rival)) = rival
               /\ SB!HeightOf(c) >= SB!HeightOf(b) + superblockConfirmations
<1> DEFINE Forked ==
      \A b \in Superblocks :
        SB!StatusOf(b) = "SemiApproved" /\ SB!StatusOf(b)' = "Invalid" => Left(b)
<1>1. ASSUME Inv, [Next]_vars
      PROVE  Forked
  <2> SUFFICES ASSUME NEW b \in Superblocks, SB!StatusOf(b) = "SemiApproved",
                      SB!StatusOf(b)' = "Invalid"
               PROVE  Left(b)
    OBVIOUS
  <2>1. IInv /\ TreeTyped /\ Purse /\ SBP!SkipInv
    BY <1>1, TreeFacts DEF Inv, SBP!SkipInv
  <2>2. RejectClaim(b)
    <3>1. FailClaim(b) \/ RejectClaim(b)
      BY <1>1, <2>1, Verdicts
    <3>2. Agrees(claims[b], SB!StatusOf(b))
      BY <2>1 DEF IInv
    <3> QED
      BY <3>1, <3>2 DEF Agrees, FailClaim, claimExists
  <2>3. /\ SB!getChainHeight >= SB!HeightOf(b) + superblockConfirmations
        /\ SB!getSuperblockAt(SB!HeightOf(b)) # b
    BY <2>2 DEF RejectClaim
  <2>4. /\ SBP!getChainHeight >= SBP!HeightOf(b) + superblockConfirmations
        /\ SBP!getSuperblockAt(SBP!HeightOf(b)) # b
    BY <2>3, SameReads
  <2>5. b \in SBP!Registered /\ superblockConfirmations \in Nat
    BY TimesAssumption DEF SBP!Registered, SBP!StatusOf, SB!StatusOf
  <2> DEFINE rival == SBP!AncestorAt(bestSuperblock, SBP!HeightOf(b))
  <2>6. /\ rival # b
        /\ SBP!HeightOf(rival) = SBP!HeightOf(b)
        /\ SBP!isApproved(rival)
        /\ \E c \in Superblocks :
             /\ SBP!isApproved(c)
             /\ SBP!AncestorAt(c, SBP!HeightOf(rival)) = rival
             /\ SBP!HeightOf(c) >= SBP!HeightOf(b) + superblockConfirmations
    BY <2>1, <2>4, <2>5, SBP!Rival, SuperblocksAssumption
  <2>7. rival = SB!AncestorAt(bestSuperblock, SB!HeightOf(b))
    BY SameReads
  <2> HIDE DEF rival
  <2> QED
    BY <2>6, <2>7, SameReads
<1>2. Inv /\ [Next]_vars => [Forked]_vars
  BY <1>1
<1>3. RejectionNeedsFork <=> [][Forked]_vars
  BY DEF RejectionNeedsFork
<1> HIDE DEF Forked
<1> QED
  BY <1>2, <1>3, InvHolds, PTL DEF Spec

-----------------------------------------------------------------------------
(* The challenge task: what a transaction does to the battles of a claim.  *)

\* A challenger joins the queue of a claim r that has a battle, or one that has
\* none: then its own battle begins, all before it being over.
Joins(q, r, who) ==
  /\ r.submitter # NoAccount /\ q.submitter = r.submitter
  /\ q.challengers = Append(r.challengers, who)
  /\ ~r.decided /\ ~q.decided /\ q.invalid = r.invalid
  /\ \/ /\ r.verificationOngoing /\ q.verificationOngoing
        /\ q.currentChallenger = r.currentChallenger
     \/ /\ ~r.verificationOngoing /\ q.verificationOngoing
        /\ ~r.invalid
        /\ r.currentChallenger = Len(r.challengers)
        /\ q.currentChallenger = r.currentChallenger + 1

\* A battle ends: the submitter has lost, or the next begins if there is one.
Ends(q, r) ==
  /\ q.submitter = r.submitter /\ q.challengers = r.challengers
  /\ r.verificationOngoing /\ ~r.decided /\ ~q.decided /\ ~r.invalid
  /\ \/ /\ q.invalid /\ ~q.verificationOngoing
        /\ q.currentChallenger = r.currentChallenger
     \/ /\ ~q.invalid /\ ~q.verificationOngoing
        /\ q.currentChallenger = r.currentChallenger
     \/ /\ ~q.invalid /\ q.verificationOngoing
        /\ q.currentChallenger = r.currentChallenger + 1

\* A claim without a battle is decided.
Decides(q, r) ==
  /\ q.submitter = r.submitter /\ q.challengers = r.challengers
  /\ q.currentChallenger = r.currentChallenger
  /\ ~r.verificationOngoing /\ ~q.verificationOngoing
  /\ q.invalid = r.invalid /\ q.decided

\* All that may become of a claim.
Moves(q, r) ==
  \/ SameBattles(q, r)
  \/ r.submitter = NoAccount /\ q.challengers = <<>>
  \/ \E who \in Accounts : Joins(q, r, who)
  \/ Ends(q, r)
  \/ Decides(q, r)

\* An id without a claim has no challengers.
Fresh == \A b \in Superblocks :
           claims[b].submitter = NoAccount => claims[b].challengers = <<>>

\* The claims after a change of one.
LEMMA OneClaim ==
  ASSUME IInv, NEW b \in Superblocks, NEW q, claims' = [claims EXCEPT ![b] = q],
         Moves(q, claims[b])
  PROVE  /\ claims'[b] = q
         /\ \A c \in Superblocks : Moves(claims'[c], claims[c])
<1>1. \A c \in Superblocks : IsClaim(claims[c]) /\ c \in DOMAIN claims
  BY DEF IInv, ClaimsTyped, Ids
<1>2. \A c \in Superblocks : claims'[c] = IF c = b THEN q ELSE claims[c]
  BY <1>1
<1>3. \A c \in Superblocks : Moves(claims[c], claims[c])
  BY <1>1, SameBattlesRefl DEF Moves
<1> QED
  BY <1>2, <1>3

\* No claim changes.
LEMMA NoClaim ==
  ASSUME IInv, claims' = claims
  PROVE  \A c \in Superblocks : Moves(claims'[c], claims[c])
<1>1. \A c \in Superblocks : IsClaim(claims[c])
  BY DEF IInv, ClaimsTyped, Ids
<1> QED
  BY <1>1, SameBattlesRefl DEF Moves

\* runNextBattleSession leaves the claim as it is or begins a battle.
LEMMA RunNextMakes ==
  ASSUME NEW b \in Superblocks, NEW claim, IsClaim(claim), NEW remaining,
         RunNextBattleSession(b, claim, remaining)
  PROVE  \E q :
           /\ claims' = [claims EXCEPT ![b] = q]
           /\ q.submitter = claim.submitter /\ q.challengers = claim.challengers
           /\ q.invalid = claim.invalid
           /\ ~claim.decided /\ ~claim.invalid /\ ~q.decided /\ ~q.invalid
           /\ \/ /\ q.currentChallenger = claim.currentChallenger + 1
                 /\ q.verificationOngoing
                 /\ sessions' = remaining \cup
                      {Session(b, claim.currentChallenger + 1, claim.submitter,
                               claim.challengers[claim.currentChallenger + 1])}
              \/ /\ q.currentChallenger = claim.currentChallenger
                 /\ ~q.verificationOngoing
                 /\ ~(claim.currentChallenger < Len(claim.challengers))
                 /\ sessions' = remaining
<1>1. ~claim.decided /\ ~claim.invalid /\ ~claim.verificationOngoing
  BY DEF RunNextBattleSession
<1> DEFINE n == claim.currentChallenger + 1
<1> DEFINE q == [claim EXCEPT !.verificationOngoing = TRUE,
                              !.currentChallenger = n]
<1>2. CASE claim.currentChallenger < Len(claim.challengers)
  <2>1. /\ claims' = [claims EXCEPT ![b] = q]
        /\ sessions' = remaining \cup
             {Session(b, n, claim.submitter, claim.challengers[n])}
    BY <1>2 DEF RunNextBattleSession
  <2>2. n \in Nat
    BY DEF IsClaim
  <2>3. /\ q.submitter = claim.submitter
        /\ q.challengers = claim.challengers /\ q.currentChallenger = n
        /\ q.verificationOngoing /\ q.decided = claim.decided
        /\ q.invalid = claim.invalid
    BY <2>2, NextBattleUpdate
  <2> HIDE DEF q
  <2> QED
    BY <1>1, <2>1, <2>3
<1>3. CASE ~(claim.currentChallenger < Len(claim.challengers))
  BY <1>1, <1>3 DEF RunNextBattleSession
<1> QED
  BY <1>2, <1>3

\* A challenge joins the queue; the session that it opens, if any, is its own.
LEMMA ChallengeMakes ==
  ASSUME IInv, NEW who \in Accounts, NEW b \in Superblocks,
         ChallengeSuperblock(who, b)
  PROVE  /\ \A c \in Superblocks : Moves(claims'[c], claims[c])
         /\ \A s \in sessions' \ sessions :
              s.superblockHash = b /\ s.challenger = who
<1> DEFINE bonded == Bond(claims[b], who, battleReward)
<1> DEFINE timeout == now + superblockTimeout
<1> DEFINE q == Challenged(bonded, who, timeout)
<1>1. claims[b].submitter # NoAccount /\ ~claims[b].decided
  BY DEF ChallengeSuperblock, claimExists
<1>2. IF claims[b].verificationOngoing
      THEN claims' = [claims EXCEPT ![b] = q] /\ sessions' = sessions
      ELSE RunNextBattleSession(b, q, sessions)
  BY DEF ChallengeSuperblock, Challenged
<1>3. SameBattles(bonded, claims[b])
  BY ClaimFacts, BondUpdate
<1> HIDE DEF bonded, timeout
<1>4. /\ IsClaim(q) /\ q.submitter = bonded.submitter
      /\ q.challengers = Append(bonded.challengers, who)
      /\ q.currentChallenger = bonded.currentChallenger
      /\ q.verificationOngoing = bonded.verificationOngoing
      /\ q.decided = bonded.decided /\ q.invalid = bonded.invalid
  <2>1. IsClaim(bonded)
    BY <1>3 DEF SameBattles
  <2> QED
    BY <2>1, ChallengedUpdate
<1> HIDE DEF q
<1> DEFINE r == claims[b]
<1>5. /\ q.submitter = r.submitter /\ q.challengers = Append(r.challengers, who)
      /\ q.currentChallenger = r.currentChallenger
      /\ q.verificationOngoing = r.verificationOngoing
      /\ ~q.decided /\ q.invalid = r.invalid
  BY <1>1, <1>3, <1>4 DEF SameBattles
<1>6. /\ r.challengers \in Seq(Accounts) /\ r.currentChallenger \in Nat
  BY ClaimFacts DEF IsClaim
<1>7. /\ Len(q.challengers) = Len(r.challengers) + 1
      /\ q.challengers[Len(r.challengers) + 1] = who
      /\ Len(r.challengers) \in Nat
  BY <1>5, <1>6, AppendProperties, LenProperties
<1>8. CASE r.verificationOngoing
  <2>1. claims' = [claims EXCEPT ![b] = q] /\ sessions' = sessions
    BY <1>2, <1>8
  <2>2. Joins(q, r, who)
    BY <1>1, <1>5, <1>8 DEF Joins
  <2>3. Moves(q, r)
    BY <2>2 DEF Moves
  <2> QED
    BY <2>1, <2>3, OneClaim
<1>9. CASE ~r.verificationOngoing
  <2>1. PICK p :
          /\ claims' = [claims EXCEPT ![b] = p]
          /\ p.submitter = q.submitter /\ p.challengers = q.challengers
          /\ p.invalid = q.invalid
          /\ ~q.decided /\ ~q.invalid /\ ~p.decided /\ ~p.invalid
          /\ \/ /\ p.currentChallenger = q.currentChallenger + 1
                /\ p.verificationOngoing
                /\ sessions' = sessions \cup
                     {Session(b, q.currentChallenger + 1, q.submitter,
                              q.challengers[q.currentChallenger + 1])}
             \/ /\ p.currentChallenger = q.currentChallenger
                /\ ~p.verificationOngoing
                /\ ~(q.currentChallenger < Len(q.challengers))
                /\ sessions' = sessions
    <3>1. RunNextBattleSession(b, q, sessions)
      BY <1>2, <1>9
    <3>2. IsClaim(q)
      BY <1>4
    <3> HIDE DEF r
    <3> QED
      BY <3>1, <3>2, RunNextMakes
  <2>2. r.currentChallenger = Len(r.challengers)
    BY <1>1, <1>5, <1>9, <2>1, ClaimFacts DEF Agrees
  <2>3. /\ p.currentChallenger = r.currentChallenger + 1
        /\ p.verificationOngoing
        /\ sessions' = sessions \cup
             {Session(b, r.currentChallenger + 1, r.submitter, who)}
    BY <1>5, <1>6, <1>7, <2>1, <2>2
  <2>4. Joins(p, r, who)
    <3>1. ~r.invalid /\ ~p.decided /\ p.verificationOngoing
      BY <1>5, <2>1, <2>3
    <3>2. /\ p.submitter = r.submitter
          /\ p.challengers = Append(r.challengers, who)
      BY <1>5, <2>1
    <3>3. p.currentChallenger = r.currentChallenger + 1
      BY <2>3
    <3>4. p.invalid = r.invalid
      BY <1>5, <2>1, <2>2
    <3> QED
      BY <1>1, <1>9, <2>2, <3>1, <3>2, <3>3, <3>4 DEF Joins
  <2>5. Moves(p, r)
    BY <2>4 DEF Moves
  <2>6. \A s \in sessions' \ sessions : s.superblockHash = b /\ s.challenger = who
    BY <2>3 DEF Session
  <2> QED
    BY <2>1, <2>5, <2>6, OneClaim
<1> QED
  BY <1>8, <1>9

\* The end of a session ends a battle of its claim.
LEMMA SessionDecidedMakes ==
  ASSUME IInv, NEW s \in sessions, NEW winner, NEW loser,
         SessionDecided(s, winner, loser)
  PROVE  \A c \in Superblocks : Moves(claims'[c], claims[c])
<1>0. PICK b : b = s.superblockHash
  OBVIOUS
<1> DEFINE r == claims[b]
<1> DEFINE over == [claims[b] EXCEPT !.verificationOngoing = FALSE]
<1> DEFINE lost == [over EXCEPT !.invalid = TRUE]
<1>1. b \in Superblocks /\ Fits(s, r) /\ s.submitter \in Accounts
  BY <1>0 DEF IInv, SessionsTyped
<1>2. \/ claims' = [claims EXCEPT ![b] = lost]
      \/ RunNextBattleSession(b, over, sessions \ {s})
  BY <1>0 DEF SessionDecided
<1>3. /\ r.verificationOngoing /\ ~r.invalid /\ ~r.decided
      /\ r.currentChallenger \in Nat
  <2>1. r.verificationOngoing /\ ~r.invalid
    BY <1>1 DEF Fits
  <2>2. r.submitter # NoAccount
    BY <1>1, NoAccountAssumption DEF Fits
  <2>3. ~r.decided
    BY <1>1, <2>1, <2>2, ClaimFacts DEF Agrees
  <2>4. r.currentChallenger \in Nat
    BY <1>1, ClaimFacts DEF IsClaim
  <2> QED
    BY <2>1, <2>3, <2>4
<1>4. /\ IsClaim(over) /\ over.submitter = r.submitter
      /\ over.challengers = r.challengers
      /\ over.currentChallenger = r.currentChallenger
      /\ IsClaim(lost) /\ lost.submitter = r.submitter
      /\ lost.challengers = r.challengers
      /\ lost.currentChallenger = r.currentChallenger
      /\ ~lost.verificationOngoing /\ ~lost.decided /\ lost.invalid
  BY <1>1, <1>3, ClaimFacts, OverUpdate
<1> HIDE DEF over, lost
<1>5. CASE claims' = [claims EXCEPT ![b] = lost]
  <2>1. Ends(lost, r)
    BY <1>3, <1>4 DEF Ends
  <2>2. Moves(lost, r)
    BY <2>1 DEF Moves
  <2> QED
    BY <1>1, <1>5, <2>2, OneClaim
<1>6. CASE RunNextBattleSession(b, over, sessions \ {s})
  <2>1. PICK p :
          /\ claims' = [claims EXCEPT ![b] = p]
          /\ p.submitter = over.submitter /\ p.challengers = over.challengers
          /\ ~p.decided /\ ~p.invalid
          /\ \/ /\ p.currentChallenger = over.currentChallenger + 1
                /\ p.verificationOngoing
             \/ /\ p.currentChallenger = over.currentChallenger
                /\ ~p.verificationOngoing
    BY <1>1, <1>4, <1>6, RunNextMakes
  <2>2. Ends(p, r)
    BY <1>3, <1>4, <2>1 DEF Ends
  <2>3. Moves(p, r)
    BY <2>2 DEF Moves
  <2> QED
    BY <1>1, <2>1, <2>3, OneClaim
<1> QED
  BY <1>2, <1>5, <1>6

\* A decision decides a claim, or pays one that is decided.
LEMMA DecisionMakes ==
  ASSUME IInv, NEW b \in Superblocks, FailClaim(b) \/ PassClaim(b) \/ RejectClaim(b)
  PROVE  \A c \in Superblocks : Moves(claims'[c], claims[c])
<1> DEFINE r == claims[b]
<1> DEFINE done == [r EXCEPT !.decided = TRUE]
<1>1. IsClaim(r)
  BY ClaimFacts
<1>2. /\ IsClaim(done) /\ done.submitter = r.submitter
      /\ done.challengers = r.challengers
      /\ done.currentChallenger = r.currentChallenger
      /\ done.verificationOngoing = r.verificationOngoing
      /\ done.decided /\ done.invalid = r.invalid
  BY <1>1, DecidedUpdate
<1>3. CASE FailClaim(b)
  <2>1. ~r.verificationOngoing /\ PayChallengers(b, done)
    BY <1>3 DEF FailClaim
  <2>2. PICK x : claims' = [claims EXCEPT ![b] = [done EXCEPT !.bondedDeposits = x]]
    BY <2>1 DEF PayChallengers
  <2> DEFINE q == [done EXCEPT !.bondedDeposits = x]
  <2> HIDE DEF done
  <2>3. /\ q.submitter = done.submitter /\ q.challengers = done.challengers
        /\ q.currentChallenger = done.currentChallenger
        /\ q.verificationOngoing = done.verificationOngoing
        /\ q.decided = done.decided /\ q.invalid = done.invalid
    BY <1>2, BondsUpdate
  <2> HIDE DEF q
  <2>4. Moves(q, r)
    BY <1>2, <2>1, <2>3 DEF Moves, Decides
  <2> QED
    BY <2>2, <2>4, OneClaim DEF q
<1>4. CASE RejectClaim(b)
  <2>1. PayChallengers(b, r)
    BY <1>4 DEF RejectClaim
  <2>2. PICK x : claims' = [claims EXCEPT ![b] = [r EXCEPT !.bondedDeposits = x]]
    BY <2>1 DEF PayChallengers
  <2> DEFINE q == [r EXCEPT !.bondedDeposits = x]
  <2>3. SameBattles(q, r)
    BY <1>1, BondsUpdate DEF SameBattles
  <2>4. Moves(q, r)
    BY <2>3 DEF Moves
  <2> HIDE DEF q
  <2> QED
    BY <2>2, <2>4, OneClaim DEF q
<1>5. CASE PassClaim(b)
  <2>1. ~r.verificationOngoing
    BY <1>5 DEF PassClaim
  <2>2. CASE claims' = [claims EXCEPT ![b] = done]
    <3>1. Moves(done, r)
      BY <1>2, <2>1 DEF Moves, Decides
    <3> HIDE DEF done
    <3> QED
      BY <2>2, <3>1, OneClaim
  <2>3. CASE claims' # [claims EXCEPT ![b] = done]
    <3> DEFINE x == [done.bondedDeposits EXCEPT ![r.submitter] = 0]
    <3> DEFINE q == [done EXCEPT !.bondedDeposits = x]
    <3>1. claims' = [claims EXCEPT ![b] =
                       [done EXCEPT !.bondedDeposits[r.submitter] = 0]]
      BY <1>5, <2>3 DEF PassClaim
    <3>2. [done EXCEPT !.bondedDeposits[r.submitter] = 0] = q
      BY <1>2 DEF IsClaim
    <3> HIDE DEF done, x
    <3>3. /\ q.submitter = done.submitter /\ q.challengers = done.challengers
          /\ q.currentChallenger = done.currentChallenger
          /\ q.verificationOngoing = done.verificationOngoing
          /\ q.decided = done.decided /\ q.invalid = done.invalid
      BY <1>2, BondsUpdate
    <3> HIDE DEF q
    <3>4. Moves(q, r)
      BY <1>2, <2>1, <3>3 DEF Moves, Decides
    <3> QED
      BY <3>1, <3>2, <3>4, OneClaim
  <2> QED
    BY <2>2, <2>3
<1> QED
  BY <1>3, <1>4, <1>5

\* Bonds move and nothing else.
LEMMA BondsMake ==
  ASSUME IInv,
         \/ \E b, d \in Superblocks : ConfirmClaim(b, d)
         \/ \E s \in sessions, who \in Accounts, amount \in BattleCosts :
              BondForBattle(s, who, amount)
  PROVE  \A c \in Superblocks : Moves(claims'[c], claims[c])
<1>1. \A c \in Superblocks : IsClaim(claims[c]) /\ c \in Ids
  BY DEF IInv, ClaimsTyped, Ids
<1>2. ASSUME NEW b \in Superblocks, NEW d \in Superblocks, ConfirmClaim(b, d)
      PROVE  \A c \in Superblocks : SameBattles(claims'[c], claims[c])
  <2>1. PICK S : PaySubmitters(S)
    BY <1>2 DEF ConfirmClaim
  <2> DEFINE x(c) == [a \in Accounts |-> IF a \in Parties(claims[c]) THEN 0
                                          ELSE claims[c].bondedDeposits[a]]
  <2> DEFINE q(c) == [claims[c] EXCEPT !.bondedDeposits = x(c)]
  <2>2. claims' = [c \in Ids |-> IF c \in S THEN q(c) ELSE claims[c]]
    BY <2>1 DEF PaySubmitters
  <2> HIDE DEF x
  <2>3. \A c \in Superblocks : SameBattles(q(c), claims[c])
    BY <1>1, BondsUpdate DEF SameBattles
  <2> HIDE DEF q
  <2>4. \A c \in Superblocks : SameBattles(claims[c], claims[c])
    BY <1>1, SameBattlesRefl
  <2> QED
    BY <1>1, <2>2, <2>3, <2>4
<1>3. ASSUME NEW s \in sessions, NEW who \in Accounts, NEW amount \in BattleCosts,
             BondForBattle(s, who, amount)
      PROVE  \A c \in Superblocks : Moves(claims'[c], claims[c])
  <2>1. PICK b : b = s.superblockHash
    OBVIOUS
  <2> DEFINE q == Bond(claims[b], who, amount)
  <2>2. claims' = [claims EXCEPT ![b] = q] /\ b \in Superblocks
    BY <1>3, <2>1 DEF BondForBattle, IInv, SessionsTyped
  <2>3. SameBattles(q, claims[b])
    BY <1>1, <2>2, BondUpdate
  <2>4. Moves(q, claims[b])
    BY <2>3 DEF Moves
  <2> HIDE DEF q
  <2> QED
    BY <2>2, <2>4, OneClaim
<1> QED
  BY <1>2, <1>3 DEF Moves

\* Whatever transaction there is, each claim moves as above or not at all.
LEMMA ClaimsMove ==
  ASSUME IInv, [Next]_vars
  PROVE  \A c \in Superblocks : Moves(claims'[c], claims[c])
<1>1. CASE UNCHANGED claims
  BY <1>1, NoClaim
<1>2. ASSUME NEW a \in Accounts, NEW b \in Superblocks, NEW p \in Superblocks,
             NEW w \in Works, NEW t \in Timestamps, ProposeSuperblock(a, b, p, w, t)
      PROVE  \A c \in Superblocks : Moves(claims'[c], claims[c])
  <2> DEFINE new == NewClaim(a, now + superblockTimeout)
  <2> DEFINE q == Bond(new, a, battleReward)
  <2>1. claims' = [claims EXCEPT ![b] = q] /\ claims[b].submitter = NoAccount
    BY <1>2 DEF ProposeSuperblock, claimExists
  <2>2. IsClaim(new)
    BY NewClaimType
  <2>3. q.challengers = <<>>
    <3>1. SameBattles(q, new)
      BY <2>2, BondUpdate
    <3> QED
      BY <3>1 DEF SameBattles, NewClaim
  <2>4. Moves(q, claims[b])
    BY <2>1, <2>3 DEF Moves
  <2> HIDE DEF q
  <2> QED
    BY <2>1, <2>4, OneClaim
<1>3. ASSUME NEW a \in Accounts, NEW b \in Superblocks, ChallengeSuperblock(a, b)
      PROVE  \A c \in Superblocks : Moves(claims'[c], claims[c])
  BY <1>3, ChallengeMakes
<1>4. ASSUME NEW b \in Superblocks, FailClaim(b) \/ PassClaim(b) \/ RejectClaim(b)
      PROVE  \A c \in Superblocks : Moves(claims'[c], claims[c])
  BY <1>4, DecisionMakes
<1>5. ASSUME NEW s \in sessions, ConvictChallenger(s) \/ ConvictSubmitter(s)
      PROVE  \A c \in Superblocks : Moves(claims'[c], claims[c])
  BY <1>5, SessionDecidedMakes DEF ConvictChallenger, ConvictSubmitter
<1>6. UNCHANGED vars => UNCHANGED claims
  BY DEF vars
<1>7. \A b \in Superblocks, w \in Works : Initialize(b, w) => UNCHANGED claims
  BY DEF Initialize
<1>8. \A a \in Accounts, n \in Amounts :
        MakeDeposit(a, n) \/ WithdrawDeposit(a, n) => UNCHANGED claims
  BY DEF MakeDeposit, WithdrawDeposit
<1>9. Tick => UNCHANGED claims
  BY DEF Tick
<1> QED
  BY <1>1, <1>2, <1>3, <1>4, <1>5, <1>6, <1>7, <1>8, <1>9, BondsMake DEF Next

-----------------------------------------------------------------------------
(* The task among the others.                                              *)

\* What the task knows at each of its awaits: it challenges only a superblock
\* that was named or proposed, and has a battle only when it goes on with it.
TaskInv ==
  /\ wanted \in Superblocks \cup {NoSuperblock}
  /\ target \in Superblocks \cup {NoSuperblock}
  /\ step = "status" => wanted \in Superblocks
  /\ step \in {"send", "receipt"} => target \in Superblocks
  /\ step # "battle" => battle = {}
  /\ step = "battle" =>
       \A s \in battle : s.superblockHash = target /\ s.challenger = Signer

\* The inductive invariant.
TaskIInv == IInv /\ Fresh /\ TaskInv

\* To the claims, what the task does is a transaction of the claims, or none.
LEMMA TaskTransaction ==
  ASSUME TaskInv, [TaskNext]_allVars
  PROVE  [Next]_vars \/ UNCHANGED <<superblocks, claims, sessions>>
<1>1. UNCHANGED allVars => UNCHANGED vars
  BY DEF allVars
<1>2. IncludeDeposit => UNCHANGED <<superblocks, claims, sessions>>
  BY DEF IncludeDeposit, MakeDeposit, superblockVars
<1>3. IncludeChallenge => [Next]_vars
  <2> SUFFICES ASSUME IncludeChallenge PROVE [Next]_vars
    OBVIOUS
  <2>1. target \in Superblocks
    BY DEF IncludeChallenge, TaskInv
  <2>2. CASE ChallengeSuperblock(Signer, target)
    BY <2>1, <2>2, SignerAssumption DEF Next
  <2>3. CASE UNCHANGED vars
    BY <2>3
  <2> QED
    BY <2>2, <2>3 DEF IncludeChallenge
<1>4. OthersStep => Next
  BY DEF OthersStep
<1>5. ASSUME TaskStep, ~IncludeDeposit, ~IncludeChallenge
      PROVE  UNCHANGED vars
  BY <1>5 DEF TaskStep, SendDeposit, ReadBest, CheckStatus, Subscribe, Resolve,
              AgentExits, SendChallenge, Exit
<1> QED
  BY <1>1, <1>2, <1>3, <1>4, <1>5 DEF TaskNext

\* The invariant of the claims is kept, and each claim moves or stays.
LEMMA TaskMoves ==
  ASSUME IInv, TaskInv, [TaskNext]_allVars
  PROVE  IInv' /\ \A b \in Superblocks : Moves(claims'[b], claims[b])
<1>1. CASE [Next]_vars
  BY <1>1, Step, ClaimsMove
<1>2. CASE UNCHANGED <<superblocks, claims, sessions>>
  BY <1>2, StutterStep, NoClaim
<1> QED
  BY <1>1, <1>2, TaskTransaction

\* The battle that a challenge begins is that of its sender.
LEMMA IncludeChallengeStep ==
  ASSUME IInv, TaskInv, IncludeChallenge
  PROVE  TaskInv'
<1>1. /\ step = "receipt" /\ target \in Superblocks /\ target' = target
      /\ wanted' = wanted
  BY DEF IncludeChallenge, TaskInv
<1>2. CASE /\ ChallengeSuperblock(Signer, target)
           /\ battle' = sessions' \ sessions
           /\ step' = IF battle' = {} THEN "queued"
                      ELSE IF \A s \in battle' : s.challenger = Signer
                             THEN "battle" ELSE "failed"
  <2>1. \A s \in battle' : s.superblockHash = target /\ s.challenger = Signer
    BY <1>1, <1>2, SignerAssumption, ChallengeMakes
  <2>2. step' \in {"queued", "battle", "failed"}
    BY <1>2
  <2>3. step' # "battle" => battle' = {}
    <3>1. \A s \in battle' : s.challenger = Signer
      BY <2>1
    <3> QED
      BY <1>2, <3>1
  <2> QED
    BY <1>1, <2>1, <2>2, <2>3 DEF TaskInv
<1>3. CASE step' = "failed" /\ battle' = battle
  BY <1>1, <1>3 DEF TaskInv
<1> QED
  BY <1>2, <1>3 DEF IncludeChallenge

\* Each of the task's awaits keeps what it knows.
LEMMA TaskStepStep ==
  ASSUME IInv, TaskInv, TaskStep
  PROVE  TaskInv'
<1>1. CASE \E option \in DepositOptions : SendDeposit(option)
  BY <1>1 DEF SendDeposit, TaskInv
<1>2. CASE IncludeDeposit
  BY <1>2 DEF IncludeDeposit, TaskInv
<1>3. CASE ReadBest
  BY <1>3 DEF ReadBest, TaskInv
<1>4. CASE CheckStatus
  BY <1>4 DEF CheckStatus, TaskInv
<1>5. CASE Subscribe
  BY <1>5 DEF Subscribe, TaskInv
<1>6. CASE Resolve
  BY <1>6 DEF Resolve, TaskInv
<1>7. CASE AgentExits
  BY <1>7 DEF AgentExits, TaskInv
<1>8. CASE SendChallenge
  BY <1>8 DEF SendChallenge, TaskInv
<1>9. CASE IncludeChallenge
  BY <1>9, IncludeChallengeStep
<1>10. CASE Exit
  BY <1>10 DEF Exit, TaskInv
<1> QED
  BY <1>1, <1>2, <1>3, <1>4, <1>5, <1>6, <1>7, <1>8, <1>9, <1>10 DEF TaskStep

\* Others make the task hear of a superblock only while it listens.
LEMMA OthersStepStep ==
  ASSUME TaskInv, OthersStep
  PROVE  TaskInv'
<1>1. /\ step' = step /\ wanted' = wanted /\ battle' = battle
  BY DEF OthersStep
<1>2. \/ target' = target
      \/ step = "listen" /\ target' \in Superblocks
  BY DEF OthersStep, Listener, Proposed
<1>3. CASE target' = target
  BY <1>1, <1>3 DEF TaskInv
<1>4. CASE step = "listen" /\ target' \in Superblocks
  BY <1>1, <1>4 DEF TaskInv
<1> QED
  BY <1>2, <1>3, <1>4

\* The invariant holds at the start and is kept by every step.
LEMMA TaskInitHolds == TaskInit => TaskIInv
<1> SUFFICES ASSUME TaskInit PROVE TaskIInv
  OBVIOUS
<1>1. IInv
  BY InitHolds DEF TaskInit
<1>2. Fresh
  BY DEF TaskInit, Init, Fresh, NewClaim, Ids
<1>3. TaskInv
  BY SignerAssumption DEF TaskInit, TaskInv
<1> QED
  BY <1>1, <1>2, <1>3 DEF TaskIInv

\* Each step of the task and of the others keeps it.
LEMMA TaskKept == TaskIInv /\ [TaskNext]_allVars => TaskIInv'
<1> SUFFICES ASSUME TaskIInv, [TaskNext]_allVars PROVE TaskIInv'
  OBVIOUS
<1>1. IInv /\ Fresh /\ TaskInv
  BY DEF TaskIInv
<1>2. IInv' /\ \A b \in Superblocks : Moves(claims'[b], claims[b])
  BY <1>1, TaskMoves
<1>3. Fresh'
  BY <1>1, <1>2 DEF Fresh, Moves, SameBattles, Joins, Ends, Decides
<1>4. UNCHANGED allVars => TaskInv'
  BY <1>1 DEF allVars, taskVars, TaskInv
<1>5. TaskInv'
  BY <1>1, <1>4, TaskStepStep, OthersStepStep DEF TaskNext
<1> QED
  BY <1>2, <1>3, <1>5 DEF TaskIInv

\* The task challenges only superblocks that it was told of, and the battle that
\* it goes on with is its own, in every order of its steps and of the others'.
THEOREM TaskInvariance == TaskSpec => []TaskIInv
BY TaskInitHolds, TaskKept, PTL DEF TaskSpec

\* The battle that the task goes on with is that of its own challenge of its
\* own target, whoever else challenges, whenever.
THEOREM BattleIsOursHolds == TaskSpec => []BattleIsOurs
<1>1. TaskIInv => BattleIsOurs
  BY DEF TaskIInv, TaskInv, BattleIsOurs
<1> QED
  BY <1>1, TaskInvariance, PTL

-----------------------------------------------------------------------------
(* What the status task shows.                                             *)

\* What is shown of the n-th challenger of a claim r.
ShownOf(r, n) ==
  IF r.currentChallenger = n
    THEN IF r.decided THEN IF r.invalid THEN "succeeded" ELSE "failed"
         ELSE IF r.verificationOngoing THEN "battle" ELSE "waiting"
  ELSE IF r.currentChallenger > n THEN "failed" ELSE "pending"

\* Among the sessions ss the claim r of b has that of its battle and no other.
HasItsBattle(ss, b, r) ==
  /\ \A s \in ss : s.superblockHash = b => Fits(s, r)
  /\ r.verificationOngoing => \E s \in ss : s.superblockHash = b
  /\ \A s \in ss : s.submitter # NoAccount

\* A session of b with the n-th challenger is live.
Live(ss, b, n) == \E s \in ss : s.superblockHash = b /\ s.number = n

\* It is exactly while that challenger is shown in battle.
LEMMA LiveIsShown ==
  ASSUME NEW ss, NEW b, NEW r, NEW status, NEW n,
         HasItsBattle(ss, b, r), Agrees(r, status)
  PROVE  /\ Live(ss, b, n) => ~r.invalid /\ ~r.decided
         /\ Live(ss, b, n) <=> ShownOf(r, n) = "battle"
<1>1. ASSUME NEW s \in ss, s.superblockHash = b, s.number = n
      PROVE  /\ r.verificationOngoing /\ ~r.invalid /\ ~r.decided
             /\ r.currentChallenger = n
  <2>1. /\ r.verificationOngoing /\ ~r.invalid /\ r.currentChallenger = n
        /\ r.submitter # NoAccount
    BY <1>1 DEF Fits, HasItsBattle
  <2>2. ~r.decided
    BY <2>1 DEF Agrees
  <2> QED
    BY <2>1, <2>2
<1>2. ASSUME ShownOf(r, n) = "battle"
      PROVE  \E s \in ss : s.superblockHash = b /\ s.number = n
  <2>1. r.verificationOngoing /\ r.currentChallenger = n
    BY <1>2 DEF ShownOf
  <2>2. PICK s \in ss : s.superblockHash = b
    BY <2>1 DEF HasItsBattle
  <2>3. s.number = n
    BY <2>1, <2>2 DEF Fits, HasItsBattle
  <2> QED
    BY <2>2, <2>3
<1>3. ASSUME r.verificationOngoing, ~r.decided, r.currentChallenger = n
      PROVE  ShownOf(r, n) = "battle"
  BY <1>3 DEF ShownOf
<1> QED
  BY <1>1, <1>2, <1>3 DEF Live

\* What a move of a claim with challengers does to what is shown of them.
LEMMA MoveIsShown ==
  ASSUME NEW r, IsClaim(r), NEW q, Moves(q, r), r.submitter # NoAccount,
         NEW n \in DOMAIN r.challengers
  PROVE  /\ /\ ShownOf(r, n) = "battle" /\ ~r.decided /\ ~r.invalid
            /\ ShownOf(q, n) # "battle"
            => ShownOf(q, n) \in (IF q.invalid THEN {"waiting"}
                                   ELSE {"waiting", "failed"})
         /\ ShownOf(r, n) \in {"failed", "succeeded"} => ShownOf(q, n) = ShownOf(r, n)
         /\ ShownOf(q, n) = "succeeded" => r.invalid
         /\ ShownOf(r, n) = "waiting" /\ ShownOf(q, n) = "failed" => ~r.invalid
         /\ q.challengers[n] = r.challengers[n]
<1>1. /\ r.challengers \in Seq(Accounts) /\ r.currentChallenger \in Nat
      /\ n \in 1 .. Len(r.challengers) /\ n \in Nat
      /\ r.decided \in BOOLEAN /\ r.invalid \in BOOLEAN
      /\ r.verificationOngoing \in BOOLEAN
  <2>1. /\ r.challengers \in Seq(Accounts) /\ r.currentChallenger \in Nat
        /\ r.decided \in BOOLEAN /\ r.invalid \in BOOLEAN
        /\ r.verificationOngoing \in BOOLEAN
    BY DEF IsClaim
  <2> QED
    BY <2>1, LenProperties
<1>2. CASE SameBattles(q, r)
  BY <1>1, <1>2 DEF SameBattles, ShownOf
<1>3. ASSUME NEW who \in Accounts, Joins(q, r, who)
      PROVE  /\ q.challengers[n] = r.challengers[n]
             /\ ~r.decided /\ ~q.decided
             /\ \/ /\ r.verificationOngoing /\ q.verificationOngoing
                   /\ q.currentChallenger = r.currentChallenger
                \/ /\ ~r.verificationOngoing /\ ~r.invalid
                   /\ q.currentChallenger = r.currentChallenger + 1
  BY <1>1, <1>3, AppendProperties DEF Joins
<1>4. CASE \E who \in Accounts : Joins(q, r, who)
  BY <1>1, <1>3, <1>4 DEF ShownOf
<1>5. CASE Ends(q, r)
  BY <1>1, <1>5 DEF Ends, ShownOf
<1>6. CASE Decides(q, r)
  BY <1>1, <1>6 DEF Decides, ShownOf
<1> QED
  BY <1>2, <1>4, <1>5, <1>6 DEF Moves

\* What the status task shows of a challenger is what becomes of its battle:
\* in battle exactly while its session lives, and never an outcome that it does
\* not have or that is shown otherwise later.
THEOREM OutcomesShownHolds == TaskSpec => OutcomesShown
<1> DEFINE ShownRight(b, n) ==
      LET live == \E s \in sessions : s.superblockHash = b /\ s.number = n
          over == live /\ ~\E s \in sessions' : s.superblockHash = b /\ s.number = n
      IN  /\ live <=> Shown(b, n) = "battle"
          /\ over => Shown(b, n)' \in (IF claims'[b].invalid THEN {"waiting"}
                                        ELSE {"waiting", "failed"})
          /\ Shown(b, n) \in {"failed", "succeeded"} => Shown(b, n)' = Shown(b, n)
          /\ Shown(b, n)' = "succeeded" => claims[b].invalid
          /\ Shown(b, n) = "waiting" /\ Shown(b, n)' = "failed" => ~claims[b].invalid
          /\ claims'[b].challengers[n] = claims[b].challengers[n]
<1>1. TaskIInv /\ TaskIInv' /\ [TaskNext]_allVars =>
        \A b \in Superblocks : \A n \in DOMAIN claims[b].challengers :
          ShownRight(b, n)
  <2> SUFFICES ASSUME TaskIInv, TaskIInv', [TaskNext]_allVars,
                      NEW b \in Superblocks, NEW n \in DOMAIN claims[b].challengers
               PROVE  ShownRight(b, n)
    OBVIOUS
  <2>1. IInv /\ Fresh /\ TaskInv /\ IInv'
    BY DEF TaskIInv
  <2>2. IsClaim(claims[b]) /\ Agrees(claims[b], SB!StatusOf(b))
    BY <2>1, ClaimFacts
  <2>3. Moves(claims'[b], claims[b])
    BY <2>1, TaskMoves
  <2>4. claims[b].submitter # NoAccount
    BY <2>1 DEF Fresh
  <2>5. Shown(b, n) = ShownOf(claims[b], n) /\ Shown(b, n)' = ShownOf(claims'[b], n)
    BY DEF Shown, ShownOf
  <2>6. /\ Live(sessions, b, n) => ~claims[b].invalid /\ ~claims[b].decided
        /\ Live(sessions, b, n) <=> ShownOf(claims[b], n) = "battle"
    <3>1. HasItsBattle(sessions, b, claims[b])
      BY <2>1, NoAccountAssumption DEF IInv, SessionsTyped, HasItsBattle
    <3> QED
      BY <2>2, <3>1, LiveIsShown
  <2>7. Live(sessions', b, n) <=> ShownOf(claims'[b], n) = "battle"
    <3>1. HasItsBattle(sessions', b, claims'[b])
      <4>1. \A s \in sessions' : s.superblockHash = b => Fits(s, claims'[b])
        BY <2>1 DEF IInv, Fits
      <4>2. claims'[b].verificationOngoing => \E s \in sessions' : s.superblockHash = b
        BY <2>1 DEF IInv
      <4>3. \A s \in sessions' : s.submitter # NoAccount
        BY <2>1, NoAccountAssumption DEF IInv, SessionsTyped
      <4> QED
        BY <4>1, <4>2, <4>3 DEF HasItsBattle
    <3>2. Agrees(claims'[b], SB!StatusOf(b)')
      BY <2>1 DEF IInv, Agrees
    <3> QED
      BY <3>1, <3>2, LiveIsShown
  <2>8. /\ /\ ShownOf(claims[b], n) = "battle" /\ ~claims[b].decided
           /\ ~claims[b].invalid /\ ShownOf(claims'[b], n) # "battle"
           => ShownOf(claims'[b], n) \in (IF claims'[b].invalid THEN {"waiting"}
                                           ELSE {"waiting", "failed"})
        /\ ShownOf(claims[b], n) \in {"failed", "succeeded"}
             => ShownOf(claims'[b], n) = ShownOf(claims[b], n)
        /\ ShownOf(claims'[b], n) = "succeeded" => claims[b].invalid
        /\ ShownOf(claims[b], n) = "waiting" /\ ShownOf(claims'[b], n) = "failed"
             => ~claims[b].invalid
        /\ claims'[b].challengers[n] = claims[b].challengers[n]
    BY <2>2, <2>3, <2>4, MoveIsShown
  <2> QED
    BY <2>5, <2>6, <2>7, <2>8 DEF Live
<1>2. [TaskNext]_allVars => [TaskNext]_allVars /\ (UNCHANGED allVars => UNCHANGED vars)
  BY DEF allVars
<1> QED
  BY <1>1, <1>2, TaskInvariance, PTL DEF TaskSpec, OutcomesShown
=============================================================================
