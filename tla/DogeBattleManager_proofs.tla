----------------------- MODULE DogeBattleManager_proofs -----------------------
(***************************************************************************)
(* Proofs about DogeBattleManager, for any blocks, lists of hashes and     *)
(* time limit: a battle convicts the party that deserves it, whatever the  *)
(* order of the moves of the parties, of ScryptClaims and of strangers,    *)
(* and a challenger whose turn it is has a move.  The driver of module     *)
(* BattleTask makes such moves and no others, and is refused none.         *)
(***************************************************************************)
EXTENDS BattleTask, SequenceTheorems, FiniteSetTheorems, TLAPS

USE NoBlockAssumption, HashListsAssumption, TimeoutAssumption

\* The session is open: its challenger has begun it and nobody is convicted.
Open == session.challengeState # "Unchallenged"

\* The blocks whose headers the submitter has shown.
Answered ==
  {b \in Blocks : blocksInfo[b] \in
     {"ScryptHashPending", "ScryptHashVerified", "ScryptHashFailed"}}

\* Only blocks of the submitter's list have a status.
OnlyListed ==
  Open => \A b \in Blocks : blocksInfo[b] # "Nonexistent" =>
                              b \in ToSet(session.blockHashes)

\* The responses are counted once each.
Counted ==
  Open => /\ IsFiniteSet(Answered)
          /\ session.countBlockHeaderResponses = Cardinality(Answered)

\* While a scrypt hash may be disputed, its id is that of a pending block.
InDispute ==
  session.challengeState \in
    {"VerifyScryptHash", "RequestScryptVerification", "PendingScryptVerification"}
  => /\ session.pendingScryptHashId \in Ids
     /\ scryptHashVerifications[session.pendingScryptHashId] \in Blocks
     /\ blocksInfo[scryptHashVerifications[session.pendingScryptHashId]]
          = "ScryptHashPending"

\* The session is lost as soon as a scrypt hash failed.
FailedIsLost ==
  Open => ((session.challengeState = "SuperblockFailed")
           <=> (\E b \in Blocks : blocksInfo[b] = "ScryptHashFailed"))

\* The final verdict is due when every header was received.
VerdictIsDue ==
  session.challengeState = "PendingVerification"
    => session.countBlockHeaderResponses = Len(session.blockHashes)

IInv ==
  TypeOK /\ OnlyListed /\ Counted /\ InDispute /\ FailedIsLost /\ VerdictIsDue

-----------------------------------------------------------------------------
(* Sessions and lists.                                                     *)

\* What is in a list of hashes.
LEMMA Listing ==
  ASSUME NEW s \in Seq(Blocks)
  PROVE  /\ ToSet(s) \subseteq Blocks
         /\ IsFiniteSet(ToSet(s))
         /\ Cardinality(ToSet(s)) <= Len(s)
         /\ Len(s) \in Nat
         /\ s = <<>> => ToSet(s) = {}
<1>1. DOMAIN s = 1 .. Len(s) /\ Len(s) \in Nat
  BY LenProperties
<1>2. ToSet(s) \subseteq Blocks
  BY <1>1, ElementOfSeq DEF ToSet
<1>3. s \in Surjection(1 .. Len(s), ToSet(s))
  <2>1. s \in [1 .. Len(s) -> ToSet(s)]
    <3>1. s = [i \in 1 .. Len(s) |-> s[i]]
      BY <1>1
    <3>2. \A i \in 1 .. Len(s) : s[i] \in ToSet(s)
      BY <1>1 DEF ToSet
    <3> QED
      BY <3>1, <3>2
  <2>2. \A t \in ToSet(s) : \E i \in 1 .. Len(s) : s[i] = t
    BY <1>1 DEF ToSet
  <2> QED
    BY <2>1, <2>2 DEF Surjection
<1>4. IsFiniteSet(1 .. Len(s)) /\ Cardinality(1 .. Len(s)) = Len(s)
  <2>1. PICK m \in Nat : m = Len(s)
    BY <1>1
  <2>2. IsFiniteSet(1 .. m) /\ Cardinality(1 .. m) = m
    BY FS_Interval
  <2> QED
    BY <2>1, <2>2
<1>5. IsFiniteSet(ToSet(s)) /\ Cardinality(ToSet(s)) <= Len(s)
  BY <1>3, <1>4, FS_Surjection
<1>6. s = <<>> => ToSet(s) = {}
  BY DEF ToSet
<1> QED
  BY <1>1, <1>2, <1>5, <1>6

\* What a session holds.
LEMMA SessionFacts ==
  ASSUME TypeOK
  PROVE  /\ session.challengeState \in ChallengeState
         /\ session.blockHashes \in Seq(Blocks)
         /\ session.countBlockHeaderQueries \in Nat
         /\ session.countBlockHeaderResponses \in Nat
         /\ session.pendingScryptHashId \in Nat
BY DEF TypeOK, BattleSession

\* A move of the challenger leaves the session s but for the order of moves.
LEMMA ChallengerMoved ==
  ASSUME NEW s \in BattleSession, ChallengerMoves(s)
  PROVE  /\ session' \in BattleSession
         /\ session'.challengeState = s.challengeState
         /\ session'.blockHashes = s.blockHashes
         /\ session'.countBlockHeaderQueries = s.countBlockHeaderQueries
         /\ session'.countBlockHeaderResponses = s.countBlockHeaderResponses
         /\ session'.pendingScryptHashId = s.pendingScryptHashId
         /\ idle' = 0
<1>1. s.actionsCounter + 1 \in Nat
  BY DEF BattleSession
<1>2. PICK n \in Nat :
        /\ session' = [[s EXCEPT !.actionsCounter = n] EXCEPT !.lastActionChallenger = n]
        /\ idle' = 0
  BY <1>1, Zenon DEF ChallengerMoves
<1> QED
  BY <1>2 DEF BattleSession

\* So does a move of the submitter.
LEMMA ClaimantMoved ==
  ASSUME NEW s \in BattleSession, ClaimantMoves(s)
  PROVE  /\ session' \in BattleSession
         /\ session'.challengeState = s.challengeState
         /\ session'.blockHashes = s.blockHashes
         /\ session'.countBlockHeaderQueries = s.countBlockHeaderQueries
         /\ session'.countBlockHeaderResponses = s.countBlockHeaderResponses
         /\ session'.pendingScryptHashId = s.pendingScryptHashId
         /\ idle' = 0
<1>1. s.actionsCounter + 1 \in Nat
  BY DEF BattleSession
<1>2. PICK n \in Nat :
        /\ session' = [[s EXCEPT !.actionsCounter = n] EXCEPT !.lastActionClaimant = n]
        /\ idle' = 0
  BY <1>1, Zenon DEF ClaimantMoves
<1> QED
  BY <1>2 DEF BattleSession

\* A session with another state.
LEMMA OtherState ==
  ASSUME NEW s \in BattleSession, NEW st \in ChallengeState
  PROVE  /\ [s EXCEPT !.challengeState = st] \in BattleSession
         /\ [s EXCEPT !.challengeState = st].challengeState = st
         /\ [s EXCEPT !.challengeState = st].blockHashes = s.blockHashes
         /\ [s EXCEPT !.challengeState = st].countBlockHeaderQueries
              = s.countBlockHeaderQueries
         /\ [s EXCEPT !.challengeState = st].countBlockHeaderResponses
              = s.countBlockHeaderResponses
         /\ [s EXCEPT !.challengeState = st].pendingScryptHashId
              = s.pendingScryptHashId
BY DEF BattleSession

\* A deposit that covers what is bonded of it.
LEMMA DepositBonded ==
  ASSUME TypeOK, NEW amount \in Nat, hasDeposit(amount), bondDeposit(amount)
  PROVE  deposit' \in Nat /\ deposit' = deposit - amount
BY DEF TypeOK, hasDeposit, bondDeposit

\* Which move bonds how much.
LEMMA MoveBonds ==
  ASSUME TypeOK
  PROVE  /\ QueryMerkleRootHashes =>
              /\ deposit' \in Nat
              /\ deposit' = deposit - respondMerkleRootHashesCost
         /\ \A s, info, b : Query(s, info, b) =>
              deposit' \in Nat /\ deposit' = deposit - respondBlockHeaderCost
         /\ \A b : RequestScryptHashValidation(b) => deposit' \in Nat
<1>1. /\ respondMerkleRootHashesCost \in Nat /\ respondBlockHeaderCost \in Nat
      /\ queryMerkleRootHashesCost \in Nat
  BY CostsAssumption
<1> QED
  BY <1>1, DepositBonded
  DEF QueryMerkleRootHashes, CanQueryMerkleRootHashes, Query, CanQuery,
      RequestScryptHashValidation, CanRequestScryptHashValidation

-----------------------------------------------------------------------------
(* Steps.                                                                  *)

\* A step that changes neither the list, nor the number of responses, nor what
\* is answered and what has failed, keeps the invariant as far as the session
\* is not lost or won by it.
LEMMA QuietStep ==
  ASSUME IInv, TypeOK', InDispute', Open,
         session'.blockHashes = session.blockHashes,
         session'.countBlockHeaderResponses = session.countBlockHeaderResponses,
         session'.challengeState \notin {"SuperblockFailed", "PendingVerification"},
         session.challengeState # "SuperblockFailed",
         \A b \in Blocks :
           /\ blocksInfo'[b] # "ScryptHashFailed"
           /\ blocksInfo'[b] = "Nonexistent" <=> blocksInfo[b] = "Nonexistent",
         Answered' = Answered
  PROVE  IInv'
<1>1. OnlyListed /\ Counted
  BY DEF IInv
<1>2. OnlyListed'
  BY <1>1 DEF OnlyListed
<1>3. Counted'
  BY <1>1 DEF Counted
<1>4. FailedIsLost' /\ VerdictIsDue'
  BY DEF FailedIsLost, VerdictIsDue
<1> QED
  BY <1>2, <1>3, <1>4 DEF IInv

\* The challenger asks for the hashes.
LEMMA QueryMerkleRootHashesStep ==
  ASSUME IInv, QueryMerkleRootHashes
  PROVE  IInv'
<1> DEFINE s == [session EXCEPT !.challengeState = "QueryMerkleRootHashes"]
<1>1. /\ session.challengeState = "Challenged" /\ ChallengerMoves(s)
      /\ blocksInfo' = blocksInfo
      /\ UNCHANGED <<verificationVars, outcome, facts>>
  BY DEF QueryMerkleRootHashes, CanQueryMerkleRootHashes
<1>2. TypeOK /\ FailedIsLost /\ Open
  BY <1>1 DEF IInv, Open
<1>3. /\ s \in BattleSession
      /\ s.challengeState = "QueryMerkleRootHashes"
      /\ s.blockHashes = session.blockHashes
      /\ s.countBlockHeaderResponses = session.countBlockHeaderResponses
  <2>1. session \in BattleSession
    BY <1>2 DEF TypeOK
  <2>2. "QueryMerkleRootHashes" \in ChallengeState
    BY DEF ChallengeState
  <2> QED
    BY <2>1, <2>2, OtherState
<1> HIDE DEF s
<1>4. /\ session' \in BattleSession /\ idle' = 0
      /\ session'.challengeState = "QueryMerkleRootHashes"
      /\ session'.blockHashes = session.blockHashes
      /\ session'.countBlockHeaderResponses = session.countBlockHeaderResponses
  BY <1>1, <1>3, ChallengerMoved
<1>5. TypeOK'
  <2>1. deposit' \in Nat
    BY <1>2, MoveBonds
  <2> QED
    BY <1>1, <1>2, <1>4, <2>1 DEF TypeOK, verificationVars, Ids
<1>6. Answered' = Answered
  BY <1>1 DEF Answered
<1>7. InDispute'
  BY <1>4 DEF InDispute
<1>8. \A b \in Blocks : blocksInfo[b] # "ScryptHashFailed"
  BY <1>1, <1>2 DEF FailedIsLost
<1> QED
  BY <1>1, <1>2, <1>4, <1>5, <1>6, <1>7, <1>8, QuietStep

\* The challenger asks for a header; nothing is open on a scrypt hash then.
LEMMA QueryStep ==
  ASSUME IInv, NEW s \in BattleSession, NEW info, NEW b \in Blocks,
         Query(s, info, b),
         Open, session.challengeState # "SuperblockFailed",
         s.blockHashes = session.blockHashes,
         s.countBlockHeaderResponses = session.countBlockHeaderResponses,
         info \in [Blocks -> BlockInfoStatus],
         \A c \in Blocks :
           /\ info[c] # "ScryptHashFailed"
           /\ info[c] = "Nonexistent" <=> blocksInfo[c] = "Nonexistent"
           /\ info[c] \in {"ScryptHashPending", "ScryptHashVerified"}
                <=> c \in Answered,
         scryptHashVerifications' \in [Ids -> Blocks \cup {NoBlock}]
  PROVE  IInv'
<1> DEFINE r == [s EXCEPT !.countBlockHeaderQueries = @ + 1,
                          !.challengeState = "QueryBlockHeader"]
<1>1. /\ ChallengerMoves(r)
      /\ info[b] = "Uninitialized"
      /\ blocksInfo' = [info EXCEPT ![b] = "Requested"]
      /\ UNCHANGED <<numScryptHashVerifications, outcome, facts>>
  BY DEF Query, CanQuery
<1>2. TypeOK
  BY DEF IInv
<1>3. /\ r \in BattleSession
      /\ r.challengeState = "QueryBlockHeader"
      /\ r.blockHashes = s.blockHashes
      /\ r.countBlockHeaderResponses = s.countBlockHeaderResponses
  <2>1. s.countBlockHeaderQueries + 1 \in Nat
    BY DEF BattleSession
  <2>2. "QueryBlockHeader" \in ChallengeState
    BY DEF ChallengeState
  <2> QED
    BY <2>1, <2>2, Zenon DEF BattleSession
<1> HIDE DEF r
<1>4. /\ session' \in BattleSession /\ idle' = 0
      /\ session'.challengeState = "QueryBlockHeader"
      /\ session'.blockHashes = session.blockHashes
      /\ session'.countBlockHeaderResponses = session.countBlockHeaderResponses
  BY <1>1, <1>3, ChallengerMoved
<1>5. blocksInfo' \in [Blocks -> BlockInfoStatus]
  <2>1. "Requested" \in BlockInfoStatus
    BY DEF BlockInfoStatus
  <2> QED
    BY <1>1, <2>1
<1>6. \A c \in Blocks :
        /\ blocksInfo'[c] # "ScryptHashFailed"
        /\ blocksInfo'[c] = "Nonexistent" <=> blocksInfo[c] = "Nonexistent"
        /\ blocksInfo'[c] \in {"ScryptHashPending", "ScryptHashVerified"}
             <=> c \in Answered
  BY <1>1
<1>7. Answered' = Answered
  BY <1>6 DEF Answered
<1>8. TypeOK'
  <2>1. deposit' \in Nat
    BY <1>2, MoveBonds
  <2> QED
    BY <1>1, <1>2, <1>4, <1>5, <2>1 DEF TypeOK, Ids
<1>9. InDispute'
  BY <1>4 DEF InDispute
<1> QED
  BY <1>4, <1>6, <1>7, <1>8, <1>9, QuietStep

\* Once the verification of a hash is passed over, the session and the blocks
\* are those of a hash that was verified.
LEMMA Skipping ==
  ASSUME IInv, Skippable
  PROVE  /\ SkippedSession \in BattleSession
         /\ SkippedSession.challengeState = StateAfterResult(TRUE)
         /\ SkippedSession.blockHashes = session.blockHashes
         /\ SkippedSession.countBlockHeaderResponses
              = session.countBlockHeaderResponses
         /\ SkippedBlocks \in [Blocks -> BlockInfoStatus]
         /\ \A c \in Blocks :
              /\ SkippedBlocks[c] # "ScryptHashFailed"
              /\ SkippedBlocks[c] = "Nonexistent" <=> blocksInfo[c] = "Nonexistent"
              /\ SkippedBlocks[c] \in {"ScryptHashPending", "ScryptHashVerified"}
                   <=> c \in Answered
         /\ ForgetVerification =>
              scryptHashVerifications' \in [Ids -> Blocks \cup {NoBlock}]
<1>1. TypeOK /\ InDispute /\ FailedIsLost /\ Open
  BY DEF IInv, Skippable, Open
<1> DEFINE id == session.pendingScryptHashId
<1> DEFINE v == scryptHashVerifications[id]
<1> DEFINE st == StateAfterResult(TRUE)
<1>2. id \in Ids /\ v \in Blocks /\ blocksInfo[v] = "ScryptHashPending"
  BY <1>1 DEF Skippable, InDispute
<1>3. DOMAIN scryptHashVerifications = Ids
  BY <1>1 DEF TypeOK
<1>4. VerificationOf(id) = v
  BY <1>2, <1>3 DEF VerificationOf
<1>5. st \in {"PendingVerification", "RespondBlockHeader"}
  BY DEF StateAfterResult
<1>6. \A c \in Blocks : blocksInfo[c] # "ScryptHashFailed"
  BY <1>1 DEF FailedIsLost, Skippable
<1>7. SkippedBlocks = [blocksInfo EXCEPT ![v] = "ScryptHashVerified"]
  BY <1>4, Zenon DEF SkippedBlocks, NotifiedBlocks
<1>8. SkippedSession = [[session EXCEPT !.challengeState = st] EXCEPT !.pendingScryptHashId = 0]
  BY Zenon DEF SkippedSession, NotifiedSession
<1> HIDE DEF st, v, id
<1>9. /\ SkippedSession \in BattleSession
      /\ SkippedSession.challengeState = st
      /\ SkippedSession.blockHashes = session.blockHashes
      /\ SkippedSession.countBlockHeaderResponses
           = session.countBlockHeaderResponses
  <2>1. st \in ChallengeState
    BY <1>5 DEF ChallengeState
  <2>2. session \in BattleSession
    BY <1>1 DEF TypeOK
  <2>3. 0 \in Nat
    OBVIOUS
  <2> QED
    BY <1>8, <2>1, <2>2, <2>3, Zenon DEF BattleSession
<1>10. blocksInfo \in [Blocks -> BlockInfoStatus]
  BY <1>1 DEF TypeOK
<1>11. SkippedBlocks \in [Blocks -> BlockInfoStatus]
  <2>1. "ScryptHashVerified" \in BlockInfoStatus
    BY DEF BlockInfoStatus
  <2> QED
    BY <1>7, <1>10, <2>1
<1>12. \A c \in Blocks :
         /\ SkippedBlocks[c] # "ScryptHashFailed"
         /\ SkippedBlocks[c] = "Nonexistent" <=> blocksInfo[c] = "Nonexistent"
         /\ SkippedBlocks[c] \in {"ScryptHashPending", "ScryptHashVerified"}
              <=> c \in Answered
  BY <1>2, <1>6, <1>7, <1>10 DEF Answered
<1>13. ASSUME ForgetVerification
       PROVE  scryptHashVerifications' \in [Ids -> Blocks \cup {NoBlock}]
  BY <1>1, <1>13 DEF ForgetVerification, TypeOK
<1> QED
  BY <1>9, <1>11, <1>12, <1>13 DEF st

\* The challenger asks for a header, with or without a hash to pass over.
LEMMA QueryBlockHeaderStep ==
  ASSUME IInv, NEW b \in Blocks, QueryBlockHeader(b)
  PROVE  IInv'
<1>1. TypeOK /\ FailedIsLost
  BY DEF IInv
<1>2. CASE session.challengeState # "VerifyScryptHash"
  <2>1. /\ Query(session, blocksInfo, b)
        /\ scryptHashVerifications' = scryptHashVerifications
    BY <1>2 DEF QueryBlockHeader, Skippable
  <2>2. session.challengeState \in {"RespondMerkleRootHashes", "RespondBlockHeader"}
    BY <2>1 DEF Query, CanQuery
  <2>3. Open /\ session.challengeState # "SuperblockFailed"
    BY <2>2 DEF Open
  <2>4. /\ session \in BattleSession /\ blocksInfo \in [Blocks -> BlockInfoStatus]
        /\ scryptHashVerifications' \in [Ids -> Blocks \cup {NoBlock}]
    BY <1>1, <2>1 DEF TypeOK
  <2>5. \A c \in Blocks :
          /\ blocksInfo[c] # "ScryptHashFailed"
          /\ blocksInfo[c] = "Nonexistent" <=> blocksInfo[c] = "Nonexistent"
          /\ blocksInfo[c] \in {"ScryptHashPending", "ScryptHashVerified"}
               <=> c \in Answered
    BY <1>1, <2>3 DEF FailedIsLost, Answered
  <2> QED
    BY <2>1, <2>3, <2>4, <2>5, QueryStep
<1>3. CASE session.challengeState = "VerifyScryptHash"
  <2>1. Skippable /\ Query(SkippedSession, SkippedBlocks, b) /\ ForgetVerification
    BY <1>3 DEF QueryBlockHeader
  <2>2. Open /\ session.challengeState # "SuperblockFailed"
    BY <1>3 DEF Open
  <2> QED
    BY <2>1, <2>2, Skipping, QueryStep
<1> QED
  BY <1>2, <1>3

\* The challenger has a scrypt hash verified: it stays in dispute.
LEMMA RequestScryptHashValidationStep ==
  ASSUME IInv, NEW b \in Blocks, RequestScryptHashValidation(b)
  PROVE  IInv'
<1> DEFINE s == [session EXCEPT !.challengeState = "RequestScryptVerification"]
<1>1. /\ session.challengeState = "VerifyScryptHash" /\ ChallengerMoves(s)
      /\ blocksInfo' = blocksInfo
      /\ UNCHANGED <<scryptHashVerifications, numScryptHashVerifications,
                     outcome, facts>>
  BY DEF RequestScryptHashValidation, CanRequestScryptHashValidation,
         verificationVars
<1>2. TypeOK /\ FailedIsLost /\ Open /\ InDispute
  BY <1>1 DEF IInv, Open
<1>3. /\ s \in BattleSession
      /\ s.challengeState = "RequestScryptVerification"
      /\ s.blockHashes = session.blockHashes
      /\ s.countBlockHeaderResponses = session.countBlockHeaderResponses
      /\ s.pendingScryptHashId = session.pendingScryptHashId
  <2>1. session \in BattleSession
    BY <1>2 DEF TypeOK
  <2>2. "RequestScryptVerification" \in ChallengeState
    BY DEF ChallengeState
  <2> QED
    BY <2>1, <2>2, OtherState
<1> HIDE DEF s
<1>4. /\ session' \in BattleSession /\ idle' = 0
      /\ session'.challengeState = "RequestScryptVerification"
      /\ session'.blockHashes = session.blockHashes
      /\ session'.countBlockHeaderResponses = session.countBlockHeaderResponses
      /\ session'.pendingScryptHashId = session.pendingScryptHashId
  BY <1>1, <1>3, ChallengerMoved
<1>5. TypeOK'
  <2>1. deposit' \in Nat
    BY <1>2, MoveBonds
  <2> QED
    BY <1>1, <1>2, <1>4, <2>1 DEF TypeOK, Ids
<1>6. Answered' = Answered
  BY <1>1 DEF Answered
<1>7. InDispute'
  BY <1>1, <1>2, <1>4 DEF InDispute, Ids
<1>8. \A b1 \in Blocks : blocksInfo[b1] # "ScryptHashFailed"
  BY <1>1, <1>2 DEF FailedIsLost
<1> QED
  BY <1>1, <1>2, <1>4, <1>5, <1>6, <1>7, <1>8, QuietStep

\* The submitter has the hash judged: it stays in dispute.
LEMMA ScryptSubmittedStep ==
  ASSUME IInv, NEW id \in Ids, ScryptSubmitted(id)
  PROVE  IInv'
<1> DEFINE s == [session EXCEPT !.challengeState = "PendingScryptVerification"]
<1>1. /\ session.challengeState = "RequestScryptVerification"
      /\ ClaimantMoves(s) /\ blocksInfo' = blocksInfo
      /\ UNCHANGED <<scryptHashVerifications, numScryptHashVerifications,
                     outcome, deposit, facts>>
  BY DEF ScryptSubmitted, verificationVars
<1>2. TypeOK /\ FailedIsLost /\ Open /\ InDispute
  BY <1>1 DEF IInv, Open
<1>3. /\ s \in BattleSession
      /\ s.challengeState = "PendingScryptVerification"
      /\ s.blockHashes = session.blockHashes
      /\ s.countBlockHeaderResponses = session.countBlockHeaderResponses
      /\ s.pendingScryptHashId = session.pendingScryptHashId
  <2>1. session \in BattleSession
    BY <1>2 DEF TypeOK
  <2>2. "PendingScryptVerification" \in ChallengeState
    BY DEF ChallengeState
  <2> QED
    BY <2>1, <2>2, OtherState
<1> HIDE DEF s
<1>4. /\ session' \in BattleSession /\ idle' = 0
      /\ session'.challengeState = "PendingScryptVerification"
      /\ session'.blockHashes = session.blockHashes
      /\ session'.countBlockHeaderResponses = session.countBlockHeaderResponses
      /\ session'.pendingScryptHashId = session.pendingScryptHashId
  BY <1>1, <1>3, ClaimantMoved
<1>5. TypeOK'
  BY <1>1, <1>2, <1>4 DEF TypeOK, Ids
<1>6. Answered' = Answered
  BY <1>1 DEF Answered
<1>7. InDispute'
  BY <1>1, <1>2, <1>4 DEF InDispute, Ids
<1>8. \A b \in Blocks : blocksInfo[b] # "ScryptHashFailed"
  BY <1>1, <1>2 DEF FailedIsLost
<1> QED
  BY <1>1, <1>2, <1>4, <1>5, <1>6, <1>7, <1>8, QuietStep

\* Before the list is there nothing has a status, so nothing is answered.
LEMMA RespondMerkleRootHashesStep ==
  ASSUME IInv, NEW hashes \in HashLists, RespondMerkleRootHashes(hashes)
  PROVE  IInv'
<1> DEFINE s == [session EXCEPT !.blockHashes = hashes,
                                !.challengeState = "RespondMerkleRootHashes"]
<1>1. /\ session.challengeState = "QueryMerkleRootHashes"
      /\ session.blockHashes = <<>>
      /\ blocksInfo' = [b \in Blocks |-> IF b \in ToSet(hashes)
                                         THEN "Uninitialized" ELSE blocksInfo[b]]
      /\ ClaimantMoves(s)
      /\ UNCHANGED <<scryptHashVerifications, numScryptHashVerifications,
                     outcome, deposit, facts>>
  BY DEF RespondMerkleRootHashes, verificationVars
<1>2. TypeOK /\ OnlyListed /\ Counted /\ Open
  BY <1>1 DEF IInv, Open
<1>3. hashes \in Seq(Blocks)
  OBVIOUS
<1>4. /\ s \in BattleSession
      /\ s.challengeState = "RespondMerkleRootHashes"
      /\ s.blockHashes = hashes
      /\ s.countBlockHeaderResponses = session.countBlockHeaderResponses
  <2>1. session \in BattleSession
    BY <1>2 DEF TypeOK
  <2>2. "RespondMerkleRootHashes" \in ChallengeState
    BY DEF ChallengeState
  <2> QED
    BY <1>3, <2>1, <2>2, Zenon DEF BattleSession
<1> HIDE DEF s
<1>5. /\ session' \in BattleSession /\ idle' = 0
      /\ session'.challengeState = "RespondMerkleRootHashes"
      /\ session'.blockHashes = hashes
      /\ session'.countBlockHeaderResponses = session.countBlockHeaderResponses
  BY <1>1, <1>4, ClaimantMoved
<1>6. \A b \in Blocks : blocksInfo[b] = "Nonexistent"
  <2>1. <<>> \in Seq(Blocks)
    OBVIOUS
  <2>2. ToSet(session.blockHashes) = {}
    BY <1>1, <2>1, Listing
  <2> QED
    BY <1>2, <2>2 DEF OnlyListed
<1>7. \A b \in Blocks :
        blocksInfo'[b] = IF b \in ToSet(hashes) THEN "Uninitialized"
                                                ELSE "Nonexistent"
  BY <1>1, <1>6
<1>8. TypeOK'
  <2>1. blocksInfo' \in [Blocks -> BlockInfoStatus]
    <3>1. \A b \in Blocks : blocksInfo[b] \in BlockInfoStatus
      BY <1>2 DEF TypeOK
    <3>2. "Uninitialized" \in BlockInfoStatus
      BY DEF BlockInfoStatus
    <3> QED
      BY <1>1, <3>1, <3>2
  <2> QED
    BY <1>1, <1>2, <1>5, <2>1 DEF TypeOK, Ids
<1>9. Answered' = {} /\ Answered = {}
  BY <1>6, <1>7 DEF Answered
<1>10. Counted'
  <2>1. Answered' = Answered
    BY <1>9
  <2> QED
    BY <1>2, <1>5, <2>1 DEF Counted
<1>11. OnlyListed'
  BY <1>5, <1>7 DEF OnlyListed
<1>12. InDispute' /\ VerdictIsDue'
  BY <1>5 DEF InDispute, VerdictIsDue
<1>13. FailedIsLost'
  BY <1>5, <1>7 DEF FailedIsLost
<1> QED
  BY <1>8, <1>10, <1>11, <1>12, <1>13 DEF IInv

\* One more header, of a block that was not answered.
LEMMA RespondBlockHeaderStep ==
  ASSUME IInv, NEW b \in Blocks, RespondBlockHeader(b)
  PROVE  IInv'
<1>0. PICK id : id = numScryptHashVerifications + 1
  OBVIOUS
<1> DEFINE s == [session EXCEPT !.countBlockHeaderResponses = @ + 1,
                                !.challengeState = "VerifyScryptHash",
                                !.pendingScryptHashId = id]
<1>1. /\ session.challengeState = "QueryBlockHeader"
      /\ blocksInfo[b] = "Requested"
      /\ blocksInfo' = [blocksInfo EXCEPT ![b] = "ScryptHashPending"]
      /\ numScryptHashVerifications' = id
      /\ scryptHashVerifications' = Recorded(id, b)
      /\ ClaimantMoves(s)
      /\ UNCHANGED <<outcome, deposit, facts>>
  BY <1>0, Zenon DEF RespondBlockHeader
<1>2. TypeOK /\ OnlyListed /\ Counted /\ FailedIsLost /\ Open
  BY <1>1 DEF IInv, Open
<1>3. numScryptHashVerifications \in Nat /\ id \in Nat /\ id > 0
  BY <1>0, <1>2 DEF TypeOK
<1>4. /\ s \in BattleSession
      /\ s.challengeState = "VerifyScryptHash"
      /\ s.blockHashes = session.blockHashes
      /\ s.countBlockHeaderResponses = session.countBlockHeaderResponses + 1
      /\ s.pendingScryptHashId = id
  <2>1. session \in BattleSession
    BY <1>2 DEF TypeOK
  <2>2. "VerifyScryptHash" \in ChallengeState
    BY DEF ChallengeState
  <2>3. session.countBlockHeaderResponses + 1 \in Nat
    BY <1>2, SessionFacts
  <2> QED
    BY <1>3, <2>1, <2>2, <2>3, Zenon DEF BattleSession
<1> HIDE DEF s
<1>5. /\ session' \in BattleSession /\ idle' = 0
      /\ session'.challengeState = "VerifyScryptHash"
      /\ session'.blockHashes = session.blockHashes
      /\ session'.countBlockHeaderResponses = session.countBlockHeaderResponses + 1
      /\ session'.pendingScryptHashId = id
  BY <1>1, <1>4, ClaimantMoved
<1>6. Ids' = Ids \cup {id} /\ DOMAIN scryptHashVerifications = Ids
  BY <1>0, <1>1, <1>2, <1>3 DEF Ids, TypeOK
<1>7. /\ scryptHashVerifications' \in [Ids' -> Blocks \cup {NoBlock}]
      /\ scryptHashVerifications'[id] = b
  BY <1>1, <1>2, <1>6 DEF Recorded, TypeOK
<1>8. blocksInfo \in [Blocks -> BlockInfoStatus]
  BY <1>2 DEF TypeOK
<1>9. TypeOK'
  <2>1. blocksInfo' \in [Blocks -> BlockInfoStatus]
    <3>1. "ScryptHashPending" \in BlockInfoStatus
      BY DEF BlockInfoStatus
    <3> QED
      BY <1>1, <1>8, <3>1
  <2>2. (scryptHashVerifications \in [Ids -> Blocks \cup {NoBlock}])'
    BY <1>7
  <2> QED
    BY <1>1, <1>2, <1>3, <1>5, <2>1, <2>2 DEF TypeOK
<1>10. Answered' = Answered \cup {b} /\ b \notin Answered
  BY <1>1, <1>8 DEF Answered
<1>11. Counted'
  <2>1. IsFiniteSet(Answered)
        /\ session.countBlockHeaderResponses = Cardinality(Answered)
    BY <1>2 DEF Counted
  <2>2. IsFiniteSet(Answered \cup {b})
        /\ Cardinality(Answered \cup {b}) = Cardinality(Answered) + 1
    BY <1>10, <2>1, FS_AddElement
  <2> QED
    BY <1>5, <1>10, <2>1, <2>2 DEF Counted
<1>12. OnlyListed'
  BY <1>1, <1>2, <1>5, <1>8 DEF OnlyListed
<1>13. InDispute'
  BY <1>1, <1>5, <1>6, <1>7, <1>8 DEF InDispute
<1>14. FailedIsLost' /\ VerdictIsDue'
  BY <1>1, <1>2, <1>5, <1>8 DEF FailedIsLost, VerdictIsDue
<1> QED
  BY <1>9, <1>11, <1>12, <1>13, <1>14 DEF IInv

\* The report on a hash in dispute ends the dispute, or the battle.
LEMMA ScryptResultStep ==
  ASSUME IInv, NEW id \in Ids, NEW valid \in BOOLEAN, ScryptResult(id, valid)
  PROVE  IInv'
<1>1. /\ session.pendingScryptHashId = id
      /\ session.challengeState = "PendingScryptVerification"
      /\ session' = NotifiedSession(valid)
      /\ blocksInfo' = NotifiedBlocks(VerificationOf(id), valid)
      /\ idle' = 0
      /\ UNCHANGED <<scryptHashVerifications, numScryptHashVerifications,
                     outcome, deposit, facts>>
  BY DEF ScryptResult, verificationVars
<1>2. TypeOK /\ OnlyListed /\ Counted /\ InDispute /\ FailedIsLost /\ Open
  BY <1>1 DEF IInv, Open
<1>3. PICK st, v : st = StateAfterResult(valid) /\ v = scryptHashVerifications[id]
  OBVIOUS
<1>4. v \in Blocks /\ blocksInfo[v] = "ScryptHashPending"
  BY <1>1, <1>2, <1>3 DEF InDispute
<1>5. VerificationOf(id) = v
  BY <1>2, <1>3 DEF VerificationOf, TypeOK
<1>6. PICK new \in {"ScryptHashVerified", "ScryptHashFailed"} :
        /\ blocksInfo' = [blocksInfo EXCEPT ![v] = new]
        /\ new = "ScryptHashFailed" <=> ~valid
  BY <1>1, <1>5 DEF NotifiedBlocks
<1>7. /\ st \in {"SuperblockFailed", "PendingVerification", "RespondBlockHeader"}
      /\ st = "SuperblockFailed" <=> ~valid
      /\ st = "PendingVerification" =>
           session.countBlockHeaderResponses = Len(session.blockHashes)
  BY <1>3 DEF StateAfterResult
<1>8. /\ session' \in BattleSession
      /\ session'.challengeState = st
      /\ session'.blockHashes = session.blockHashes
      /\ session'.countBlockHeaderResponses = session.countBlockHeaderResponses
  <2>1. session \in BattleSession
    BY <1>2 DEF TypeOK
  <2>2. st \in ChallengeState
    BY <1>7 DEF ChallengeState
  <2>3. session' = [session EXCEPT !.challengeState = st]
    BY <1>1, <1>3, Zenon DEF NotifiedSession
  <2> QED
    BY <2>1, <2>2, <2>3, OtherState
<1>9. blocksInfo \in [Blocks -> BlockInfoStatus]
  BY <1>2 DEF TypeOK
<1>10. TypeOK'
  <2>1. blocksInfo' \in [Blocks -> BlockInfoStatus]
    <3>1. new \in BlockInfoStatus
      BY <1>6 DEF BlockInfoStatus
    <3> QED
      BY <1>6, <1>9, <3>1
  <2> QED
    BY <1>1, <1>2, <1>8, <2>1 DEF TypeOK, Ids
<1>11. Answered' = Answered
  BY <1>4, <1>6, <1>9 DEF Answered
<1>12. Counted'
  BY <1>2, <1>8, <1>11 DEF Counted
<1>13. OnlyListed'
  BY <1>2, <1>4, <1>6, <1>8, <1>9 DEF OnlyListed
<1>14. InDispute' /\ VerdictIsDue'
  BY <1>7, <1>8 DEF InDispute, VerdictIsDue
<1>15. FailedIsLost'
  <2>1. \A b \in Blocks : blocksInfo[b] # "ScryptHashFailed"
    BY <1>1, <1>2 DEF FailedIsLost
  <2>2. (\E b \in Blocks : blocksInfo'[b] = "ScryptHashFailed") <=> ~valid
    BY <1>4, <1>6, <1>9, <2>1
  <2> QED
    BY <1>7, <1>8, <2>2 DEF FailedIsLost
<1> QED
  BY <1>10, <1>12, <1>13, <1>14, <1>15 DEF IInv

\* A conviction ends the session.
LEMMA ConvictStep ==
  ASSUME IInv, NEW party \in {"submitter", "challenger"}, Convict(party),
         blocksInfo' \in [Blocks -> BlockInfoStatus],
         numScryptHashVerifications' = numScryptHashVerifications,
         scryptHashVerifications' \in [Ids -> Blocks \cup {NoBlock}]
  PROVE  IInv'
<1>1. Deleted \in BattleSession
  <2>1. <<>> \in Seq(Blocks) /\ "Unchallenged" \in ChallengeState
    BY DEF ChallengeState
  <2> QED
    BY <2>1 DEF Deleted, BattleSession
<1>2. session' = Deleted /\ outcome' = party /\ UNCHANGED <<idle, deposit, facts>>
  BY DEF Convict
<1>3. TypeOK'
  BY <1>1, <1>2 DEF IInv, TypeOK, Ids
<1>4. session'.challengeState = "Unchallenged"
  BY <1>2 DEF Deleted
<1> QED
  BY <1>3, <1>4
  DEF IInv, OnlyListed, Counted, InDispute, FailedIsLost, VerdictIsDue, Open

\* The final verdict, with or without a hash to pass over.
LEMMA VerifySuperblockStep ==
  ASSUME IInv, VerifySuperblock
  PROVE  IInv'
<1>1. TypeOK
  BY DEF IInv
<1>2. CASE session.challengeState # "VerifyScryptHash"
  <2>1. /\ FinalVerdict(session.challengeState)
        /\ blocksInfo' = blocksInfo
        /\ scryptHashVerifications' = scryptHashVerifications
        /\ numScryptHashVerifications' = numScryptHashVerifications
    BY <1>2 DEF VerifySuperblock, Skippable, verificationVars
  <2>2. PICK party \in {"submitter", "challenger"} : Convict(party)
    BY <2>1 DEF FinalVerdict
  <2> QED
    BY <1>1, <2>1, <2>2, ConvictStep DEF TypeOK
<1>3. CASE session.challengeState = "VerifyScryptHash"
  <2>1. /\ Skippable /\ FinalVerdict(SkippedSession.challengeState)
        /\ blocksInfo' = SkippedBlocks /\ ForgetVerification
        /\ numScryptHashVerifications' = numScryptHashVerifications
    BY <1>3 DEF VerifySuperblock
  <2>2. PICK party \in {"submitter", "challenger"} : Convict(party)
    BY <2>1 DEF FinalVerdict
  <2>3. /\ blocksInfo' \in [Blocks -> BlockInfoStatus]
        /\ scryptHashVerifications' \in [Ids -> Blocks \cup {NoBlock}]
    BY <2>1, Skipping
  <2> QED
    BY <2>1, <2>2, <2>3, ConvictStep
<1> QED
  BY <1>2, <1>3

\* A party is late.
LEMMA TimeoutStep ==
  ASSUME IInv, Timeout
  PROVE  IInv'
<1>1. /\ blocksInfo' = blocksInfo
      /\ scryptHashVerifications' = scryptHashVerifications
      /\ numScryptHashVerifications' = numScryptHashVerifications
      /\ Convict("submitter") \/ Convict("challenger")
  BY DEF Timeout, verificationVars
<1>2. /\ blocksInfo' \in [Blocks -> BlockInfoStatus]
      /\ scryptHashVerifications' \in [Ids -> Blocks \cup {NoBlock}]
  BY <1>1 DEF IInv, TypeOK
<1>3. PICK party \in {"submitter", "challenger"} : Convict(party)
  BY <1>1
<1> QED
  BY <1>1, <1>2, <1>3, ConvictStep

\* A step in which at most time passes and the deposit changes.
LEMMA IdleStep ==
  ASSUME IInv, idle' \in 0 .. superblockTimeout + 1, deposit' \in Nat,
         UNCHANGED <<session, blocksInfo, verificationVars, outcome, facts>>
  PROVE  IInv'
<1>1. /\ session' = session /\ blocksInfo' = blocksInfo
      /\ scryptHashVerifications' = scryptHashVerifications
      /\ numScryptHashVerifications' = numScryptHashVerifications
      /\ outcome' = outcome /\ facts' = facts
  BY DEF verificationVars
<1>2. TypeOK'
  BY <1>1 DEF IInv, TypeOK, Ids
<1>3. OnlyListed' /\ FailedIsLost' /\ VerdictIsDue'
  BY <1>1 DEF IInv, OnlyListed, FailedIsLost, VerdictIsDue, Open
<1>4. Counted'
  <2>1. Answered' = Answered
    BY <1>1 DEF Answered
  <2> QED
    BY <1>1, <2>1 DEF IInv, Counted, Open
<1>5. InDispute'
  BY <1>1 DEF IInv, InDispute, Ids
<1> QED
  BY <1>2, <1>3, <1>4, <1>5 DEF IInv

\* The invariant holds when the battle begins.
LEMMA InitInvariant ==
  ASSUME Init
  PROVE  IInv
<1>1. /\ Begun \in BattleSession
      /\ Begun.challengeState = "Challenged"
      /\ Begun.blockHashes = <<>>
      /\ Begun.countBlockHeaderResponses = 0
  <2>1. <<>> \in Seq(Blocks) /\ "Challenged" \in ChallengeState
    BY DEF ChallengeState
  <2> QED
    BY <2>1 DEF Begun, Deleted, BattleSession
<1>2. Ids = {}
  BY DEF Ids, Init
<1>3. TypeOK
  <2>1. blocksInfo \in [Blocks -> BlockInfoStatus]
    BY DEF Init, BlockInfoStatus
  <2>2. scryptHashVerifications \in [Ids -> Blocks \cup {NoBlock}]
    BY <1>2 DEF Init
  <2>3. idle \in 0 .. superblockTimeout + 1
    BY DEF Init
  <2> QED
    BY <1>1, <2>1, <2>2, <2>3, DepositsAssumption DEF Init, TypeOK
<1>4. Answered = {}
  BY DEF Answered, Init
<1>5. Counted
  BY <1>1, <1>4, FS_EmptySet DEF Counted, Init
<1>6. OnlyListed /\ FailedIsLost /\ InDispute /\ VerdictIsDue
  BY <1>1 DEF OnlyListed, FailedIsLost, InDispute, VerdictIsDue, Init
<1> QED
  BY <1>3, <1>5, <1>6 DEF IInv

\* Every step keeps the invariant.
LEMMA Step ==
  ASSUME IInv, [Next]_vars
  PROVE  IInv'
<1>1. CASE ChallengerMove
  BY <1>1, QueryMerkleRootHashesStep, QueryBlockHeaderStep,
     RequestScryptHashValidationStep DEF ChallengerMove
<1>2. CASE ClaimantMove
  BY <1>2, RespondMerkleRootHashesStep, RespondBlockHeaderStep,
     ScryptSubmittedStep DEF ClaimantMove
<1>3. CASE AnyScryptResult
  BY <1>3, ScryptResultStep DEF AnyScryptResult
<1>4. CASE VerifySuperblock
  BY <1>4, VerifySuperblockStep
<1>5. CASE Timeout
  BY <1>5, TimeoutStep
<1>6. CASE Tick
  <2>1. idle' \in 0 .. superblockTimeout + 1 /\ deposit' \in Nat
    BY <1>6 DEF Tick, Overdue, IInv, TypeOK
  <2> QED
    BY <1>6, <2>1, IdleStep DEF Tick
<1>7. CASE DepositChanges
  <2>1. idle' \in 0 .. superblockTimeout + 1 /\ deposit' \in Nat
    BY <1>7, DepositsAssumption DEF DepositChanges, IInv, TypeOK
  <2> QED
    BY <1>7, <2>1, IdleStep DEF DepositChanges
<1>8. CASE UNCHANGED vars
  <2>1. idle' \in 0 .. superblockTimeout + 1 /\ deposit' \in Nat
    BY <1>8 DEF vars, IInv, TypeOK
  <2> QED
    BY <1>8, <2>1, IdleStep DEF vars, verificationVars
<1> QED
  BY <1>1, <1>2, <1>3, <1>4, <1>5, <1>6, <1>7, <1>8 DEF Next

\* IInv holds in every state of the battle.
LEMMA Invariance == Spec => []IInv
BY InitInvariant, Step, PTL DEF Spec

-----------------------------------------------------------------------------
(* Verdicts.                                                               *)

\* When the responses are as many as the hashes, every block of the list is
\* answered: the list repeats none of its hashes then, and each is answered once.
LEMMA AllAnswered ==
  ASSUME IInv, Open,
         session.countBlockHeaderResponses = Len(session.blockHashes)
  PROVE  ToSet(session.blockHashes) = Answered
<1>1. OnlyListed /\ Counted /\ TypeOK
  BY DEF IInv
<1> DEFINE S == ToSet(session.blockHashes)
<1>2. session.blockHashes \in Seq(Blocks)
  BY <1>1, SessionFacts
<1>3. IsFiniteSet(S) /\ Cardinality(S) <= Len(session.blockHashes)
  BY <1>2, Listing
<1>4. Answered \in SUBSET S
  BY <1>1 DEF OnlyListed, Answered
<1>5. Cardinality(Answered) = Len(session.blockHashes)
  BY <1>1 DEF Counted
<1>6. /\ Cardinality(Answered) <= Cardinality(S)
      /\ Cardinality(S) = Cardinality(Answered) => S = Answered
  BY <1>3, <1>4, FS_Subset
<1>7. Cardinality(S) \in Nat /\ Cardinality(Answered) \in Nat
  BY <1>3, <1>4, FS_Subset, FS_CardinalityType
<1> QED
  BY <1>3, <1>5, <1>6, <1>7

\* A final verdict is due only when every header was received and no scrypt
\* hash failed.
LEMMA VerdictFacts ==
  ASSUME IInv, Open,
         session.challengeState # "SuperblockFailed",
         session.countBlockHeaderResponses = Len(session.blockHashes)
  PROVE  \A b \in ToSet(session.blockHashes) :
           blocksInfo[b] \in {"ScryptHashPending", "ScryptHashVerified"}
<1>1. ToSet(session.blockHashes) = Answered
  BY AllAnswered
<1>2. \A b \in Blocks : blocksInfo[b] # "ScryptHashFailed"
  BY DEF IInv, FailedIsLost
<1> QED
  BY <1>1, <1>2 DEF Answered

\* What convicts the submitter, and what the challenger.
GroundsAgainstSubmitter ==
  \/ SubmittersTurn /\ Overdue
  \/ \E b \in Blocks : blocksInfo[b] = "ScryptHashFailed"
  \/ /\ \A b \in ToSet(session.blockHashes) :
          blocksInfo[b] \in {"ScryptHashPending", "ScryptHashVerified"}
     /\ ~facts.consistent
GroundsAgainstChallenger ==
  \/ ChallengersTurn /\ Overdue
  \/ /\ \A b \in ToSet(session.blockHashes) :
          blocksInfo[b] \in {"ScryptHashPending", "ScryptHashVerified"}
     /\ facts.consistent

\* A party is convicted on these grounds only.
LEMMA VerdictIsGrounded ==
  ASSUME IInv, [Next]_vars, outcome' # outcome
  PROVE  /\ outcome' = "submitter" => GroundsAgainstSubmitter
         /\ outcome' = "challenger" => GroundsAgainstChallenger
<1>1. TypeOK /\ FailedIsLost /\ VerdictIsDue
  BY DEF IInv
<1>2. VerifySuperblock \/ Timeout
  <2>1. ~ChallengerMove
    BY DEF ChallengerMove, QueryMerkleRootHashes, QueryBlockHeader, Query,
           RequestScryptHashValidation
  <2>2. ~ClaimantMove
    BY DEF ClaimantMove, RespondMerkleRootHashes, RespondBlockHeader,
           ScryptSubmitted
  <2>3. ~AnyScryptResult /\ ~Tick /\ ~DepositChanges /\ ~UNCHANGED vars
    BY DEF AnyScryptResult, ScryptResult, Tick, DepositChanges, vars
  <2> QED
    BY <2>1, <2>2, <2>3 DEF Next
<1>3. CASE VerifySuperblock
  <2>1. CASE session.challengeState # "VerifyScryptHash"
    <3>1. FinalVerdict(session.challengeState)
      BY <1>3, <2>1 DEF VerifySuperblock, Skippable
    <3>2. CASE session.challengeState = "SuperblockFailed"
      BY <1>1, <3>1, <3>2
      DEF FinalVerdict, Convict, FailedIsLost, Open, GroundsAgainstSubmitter
    <3>3. CASE session.challengeState = "PendingVerification"
      <4>1. \A b \in ToSet(session.blockHashes) :
              blocksInfo[b] \in {"ScryptHashPending", "ScryptHashVerified"}
        BY <1>1, <3>3, VerdictFacts DEF VerdictIsDue, Open
      <4>2. outcome' = IF facts.consistent THEN "challenger" ELSE "submitter"
        BY <3>1, <3>3 DEF FinalVerdict, Convict
      <4> QED
        BY <4>1, <4>2 DEF GroundsAgainstSubmitter, GroundsAgainstChallenger
    <3> QED
      BY <3>1, <3>2, <3>3 DEF FinalVerdict, IsFinal
  <2>2. CASE session.challengeState = "VerifyScryptHash"
    <3>1. Skippable /\ FinalVerdict(SkippedSession.challengeState)
      BY <1>3, <2>2 DEF VerifySuperblock
    <3>2. SkippedSession.challengeState = StateAfterResult(TRUE)
      BY <3>1, Skipping
    <3>3. /\ SkippedSession.challengeState = "PendingVerification"
          /\ session.countBlockHeaderResponses = Len(session.blockHashes)
      BY <3>1, <3>2 DEF FinalVerdict, IsFinal, StateAfterResult
    <3>4. \A b \in ToSet(session.blockHashes) :
            blocksInfo[b] \in {"ScryptHashPending", "ScryptHashVerified"}
      BY <2>2, <3>3, VerdictFacts DEF Open
    <3>5. outcome' = IF facts.consistent THEN "challenger" ELSE "submitter"
      BY <3>1, <3>3 DEF FinalVerdict, Convict
    <3> QED
      BY <3>4, <3>5 DEF GroundsAgainstSubmitter, GroundsAgainstChallenger
  <2> QED
    BY <2>1, <2>2
<1>4. CASE Timeout
  <2>1. CASE session.challengeState = "SuperblockFailed"
    BY <1>1, <1>4, <2>1
    DEF Timeout, Convict, FailedIsLost, Open, GroundsAgainstSubmitter
  <2>2. CASE session.challengeState # "SuperblockFailed"
    BY <1>4, <2>2
    DEF Timeout, Convict, GroundsAgainstSubmitter, GroundsAgainstChallenger
  <2> QED
    BY <2>1, <2>2
<1> QED
  BY <1>2, <1>3, <1>4

-----------------------------------------------------------------------------
(* Theorems.                                                               *)

\* The session and the ids of scrypt verifications keep their shape at all
\* times (BattleSession, numScryptHashVerifications).
THEOREM TypeCorrect == Spec => []TypeOK
<1>1. IInv => TypeOK
  BY DEF IInv
<1> QED
  BY <1>1, Invariance, PTL

\* A submitter is convicted only for being late, for a scrypt hash that failed
\* or for headers that do not bear out the superblock, all of them received; a
\* challenger only for being late or when all were received, none failed and
\* they do (verifySuperblock, timeout, scryptFailed and what leads to them).
THEOREM RightVerdictHolds == Spec => RightVerdict
<1>1. IInv /\ [Next]_vars =>
        [LET Listed(statuses) ==
               \A b \in ToSet(session.blockHashes) : blocksInfo[b] \in statuses
         IN  /\ outcome' = "submitter" =>
                  \/ SubmittersTurn /\ Overdue
                  \/ \E b \in Blocks : blocksInfo[b] = "ScryptHashFailed"
                  \/ /\ Listed({"ScryptHashPending", "ScryptHashVerified"})
                     /\ ~facts.consistent
             /\ outcome' = "challenger" =>
                  \/ ChallengersTurn /\ Overdue
                  \/ /\ Listed({"ScryptHashPending", "ScryptHashVerified"})
                     /\ facts.consistent]_outcome
  BY VerdictIsGrounded DEF GroundsAgainstSubmitter, GroundsAgainstChallenger
<1> QED
  BY <1>1, Invariance, PTL DEF Spec, RightVerdict

-----------------------------------------------------------------------------
(* The challenger can move.                                                *)

\* The blocks whose headers were asked for.
AskedFor ==
  {b \in Blocks : blocksInfo[b] \notin {"Nonexistent", "Uninitialized"}}

\* The queries are counted once each, and are as many as the responses but for
\* the one that is due; all the hashes of the list can be asked for.
QueriesCounted ==
  Open =>
    /\ IsFiniteSet(AskedFor)
    /\ session.countBlockHeaderQueries = Cardinality(AskedFor)
    /\ session.countBlockHeaderQueries = session.countBlockHeaderResponses
         + (IF session.challengeState = "QueryBlockHeader" THEN 1 ELSE 0)
    /\ \A b \in ToSet(session.blockHashes) : blocksInfo[b] # "Nonexistent"

\* After a query or a request it is the submitter's turn, and nobody's once the
\* session is deleted.
InTurn ==
  /\ session.lastActionClaimant <= session.actionsCounter
  /\ session.lastActionChallenger <= session.actionsCounter
  /\ session.challengeState \in
       {"Unchallenged", "QueryMerkleRootHashes", "QueryBlockHeader",
        "RequestScryptVerification"} => ~ChallengersTurn

\* No header is asked for before the hashes are known, and then one at a time.
InOrder ==
  /\ session.challengeState \in
       {"Challenged", "QueryMerkleRootHashes", "RespondMerkleRootHashes"}
     => session.countBlockHeaderQueries = 0
  /\ session.challengeState = "RespondMerkleRootHashes" =>
       session.blockHashes # <<>>
  /\ session.challengeState = "RespondBlockHeader" =>
       /\ session.countBlockHeaderResponses > 0
       /\ session.countBlockHeaderResponses < Len(session.blockHashes)

\* A battle that nobody has lost is not deleted.
AliveIsOpen == Alive => Open

PlayInv == QueriesCounted /\ InTurn /\ InOrder /\ AliveIsOpen

\* What of a session a move of another kind leaves alone.
SameCounts(t, s) ==
  /\ t.blockHashes = s.blockHashes
  /\ t.countBlockHeaderQueries = s.countBlockHeaderQueries
  /\ t.countBlockHeaderResponses = s.countBlockHeaderResponses
SameMoves(t, s) ==
  /\ t.actionsCounter = s.actionsCounter
  /\ t.lastActionClaimant = s.lastActionClaimant
  /\ t.lastActionChallenger = s.lastActionChallenger

\* A session with another state has the same counts and moves.
LEMMA OtherStateSame ==
  ASSUME NEW s \in BattleSession, NEW st \in ChallengeState
  PROVE  /\ [s EXCEPT !.challengeState = st] \in BattleSession
         /\ [s EXCEPT !.challengeState = st].challengeState = st
         /\ SameCounts([s EXCEPT !.challengeState = st], s)
         /\ SameMoves([s EXCEPT !.challengeState = st], s)
BY DEF BattleSession, SameCounts, SameMoves

\* After a move of the challenger it is not the challenger's turn.
LEMMA ChallengerMovesInTurn ==
  ASSUME IInv, InTurn, NEW s \in BattleSession, SameMoves(s, session),
         ChallengerMoves(s)
  PROVE  InTurn' /\ SameCounts(session', s)
<1>1. PICK n \in Nat :
        /\ n = s.actionsCounter + 1
        /\ session' = [[s EXCEPT !.actionsCounter = n] EXCEPT !.lastActionChallenger = n]
  <2>1. s.actionsCounter + 1 \in Nat
    BY DEF BattleSession
  <2> QED
    BY <2>1, Zenon DEF ChallengerMoves
<1>2. n = session.actionsCounter + 1
  BY <1>1 DEF SameMoves
<1>3. /\ session.actionsCounter \in Nat /\ session.lastActionClaimant \in Nat
      /\ session.lastActionClaimant <= session.actionsCounter
  BY DEF IInv, TypeOK, BattleSession, InTurn
<1>4. /\ session'.actionsCounter = n /\ session'.lastActionChallenger = n
      /\ session'.lastActionClaimant = s.lastActionClaimant
      /\ SameCounts(session', s)
  BY <1>1 DEF BattleSession, SameCounts
<1>5. s.lastActionClaimant = session.lastActionClaimant
  BY DEF SameMoves
<1> QED
  BY <1>2, <1>3, <1>4, <1>5 DEF InTurn, ChallengersTurn

\* After a move of the submitter it may be.
LEMMA ClaimantMovesInTurn ==
  ASSUME IInv, InTurn, NEW s \in BattleSession, SameMoves(s, session),
         ClaimantMoves(s),
         s.challengeState \notin
           {"Unchallenged", "QueryMerkleRootHashes", "QueryBlockHeader",
            "RequestScryptVerification"}
  PROVE  InTurn' /\ SameCounts(session', s)
<1>1. PICK n \in Nat :
        /\ n = s.actionsCounter + 1
        /\ session' = [[s EXCEPT !.actionsCounter = n] EXCEPT !.lastActionClaimant = n]
  <2>1. s.actionsCounter + 1 \in Nat
    BY DEF BattleSession
  <2> QED
    BY <2>1, Zenon DEF ClaimantMoves
<1>2. n = session.actionsCounter + 1
  BY <1>1 DEF SameMoves
<1>3. /\ session.actionsCounter \in Nat /\ session.lastActionChallenger \in Nat
      /\ session.lastActionChallenger <= session.actionsCounter
  BY DEF IInv, TypeOK, BattleSession, InTurn
<1>4. /\ session'.actionsCounter = n /\ session'.lastActionClaimant = n
      /\ session'.lastActionChallenger = s.lastActionChallenger
      /\ session'.challengeState = s.challengeState
      /\ SameCounts(session', s)
  BY <1>1 DEF BattleSession, SameCounts
<1>5. s.lastActionChallenger = session.lastActionChallenger
  BY DEF SameMoves
<1> QED
  BY <1>2, <1>3, <1>4, <1>5 DEF InTurn

\* queryMerkleRootHashes.
LEMMA HashesAskedFor ==
  ASSUME IInv, InTurn, QueryMerkleRootHashes
  PROVE  /\ session.challengeState = "Challenged"
         /\ session'.challengeState = "QueryMerkleRootHashes"
         /\ SameCounts(session', session) /\ InTurn'
         /\ UNCHANGED <<blocksInfo, outcome>>
<1> DEFINE s == [session EXCEPT !.challengeState = "QueryMerkleRootHashes"]
<1>1. /\ session.challengeState = "Challenged" /\ ChallengerMoves(s)
      /\ UNCHANGED <<blocksInfo, outcome>>
  BY DEF QueryMerkleRootHashes, CanQueryMerkleRootHashes
<1>2. /\ s \in BattleSession /\ s.challengeState = "QueryMerkleRootHashes"
      /\ SameCounts(s, session) /\ SameMoves(s, session)
  <2>1. session \in BattleSession /\ "QueryMerkleRootHashes" \in ChallengeState
    BY DEF IInv, TypeOK, ChallengeState
  <2> QED
    BY <2>1, OtherStateSame
<1> HIDE DEF s
<1>3. InTurn' /\ SameCounts(session', s)
  BY <1>1, <1>2, ChallengerMovesInTurn
<1>4. session'.challengeState = "QueryMerkleRootHashes"
  BY <1>1, <1>2, ChallengerMoved
<1> QED
  BY <1>1, <1>2, <1>3, <1>4 DEF SameCounts

\* requestScryptHashValidation.
LEMMA ValidationAskedFor ==
  ASSUME IInv, InTurn, NEW b \in Blocks, RequestScryptHashValidation(b)
  PROVE  /\ session.challengeState = "VerifyScryptHash"
         /\ session'.challengeState = "RequestScryptVerification"
         /\ SameCounts(session', session) /\ InTurn'
         /\ UNCHANGED <<blocksInfo, outcome>>
<1> DEFINE s == [session EXCEPT !.challengeState = "RequestScryptVerification"]
<1>1. /\ session.challengeState = "VerifyScryptHash" /\ ChallengerMoves(s)
      /\ UNCHANGED <<blocksInfo, outcome>>
  BY DEF RequestScryptHashValidation, CanRequestScryptHashValidation
<1>2. /\ s \in BattleSession /\ s.challengeState = "RequestScryptVerification"
      /\ SameCounts(s, session) /\ SameMoves(s, session)
  <2>1. session \in BattleSession /\ "RequestScryptVerification" \in ChallengeState
    BY DEF IInv, TypeOK, ChallengeState
  <2> QED
    BY <2>1, OtherStateSame
<1> HIDE DEF s
<1>3. InTurn' /\ SameCounts(session', s)
  BY <1>1, <1>2, ChallengerMovesInTurn
<1>4. session'.challengeState = "RequestScryptVerification"
  BY <1>1, <1>2, ChallengerMoved
<1> QED
  BY <1>1, <1>2, <1>3, <1>4 DEF SameCounts

\* scryptSubmitted.
LEMMA ScryptIsSubmitted ==
  ASSUME IInv, InTurn, NEW id, ScryptSubmitted(id)
  PROVE  /\ session.challengeState = "RequestScryptVerification"
         /\ session'.challengeState = "PendingScryptVerification"
         /\ SameCounts(session', session) /\ InTurn'
         /\ UNCHANGED <<blocksInfo, outcome>>
<1> DEFINE s == [session EXCEPT !.challengeState = "PendingScryptVerification"]
<1>1. /\ session.challengeState = "RequestScryptVerification" /\ ClaimantMoves(s)
      /\ UNCHANGED <<blocksInfo, outcome>>
  BY DEF ScryptSubmitted
<1>2. /\ s \in BattleSession /\ s.challengeState = "PendingScryptVerification"
      /\ SameCounts(s, session) /\ SameMoves(s, session)
  <2>1. session \in BattleSession /\ "PendingScryptVerification" \in ChallengeState
    BY DEF IInv, TypeOK, ChallengeState
  <2> QED
    BY <2>1, OtherStateSame
<1> HIDE DEF s
<1>3. InTurn' /\ SameCounts(session', s)
  BY <1>1, <1>2, ClaimantMovesInTurn
<1>4. session'.challengeState = "PendingScryptVerification"
  BY <1>1, <1>2, ClaimantMoved
<1> QED
  BY <1>1, <1>2, <1>3, <1>4 DEF SameCounts

\* What a session is when a scrypt hash is passed over.
LEMMA SkippedSame ==
  ASSUME IInv, Skippable
  PROVE  /\ SkippedSession \in BattleSession
         /\ SkippedSession.challengeState = StateAfterResult(TRUE)
         /\ SameCounts(SkippedSession, session)
         /\ SameMoves(SkippedSession, session)
         /\ \E v \in AskedFor :
              /\ blocksInfo[v] = "ScryptHashPending"
              /\ SkippedBlocks = [blocksInfo EXCEPT ![v] = "ScryptHashVerified"]
<1>1. TypeOK /\ InDispute
  BY DEF IInv
<1> DEFINE id == session.pendingScryptHashId
<1> DEFINE v == scryptHashVerifications[id]
<1> DEFINE st == StateAfterResult(TRUE)
<1>2. id \in Ids /\ v \in Blocks /\ blocksInfo[v] = "ScryptHashPending"
  BY <1>1 DEF Skippable, InDispute
<1>3. VerificationOf(id) = v
  BY <1>1, <1>2 DEF VerificationOf, TypeOK
<1>4. SkippedBlocks = [blocksInfo EXCEPT ![v] = "ScryptHashVerified"]
  BY <1>3, Zenon DEF SkippedBlocks, NotifiedBlocks
<1>5. v \in AskedFor
  BY <1>2 DEF AskedFor
<1>6. SkippedSession = [[session EXCEPT !.challengeState = st] EXCEPT !.pendingScryptHashId = 0]
  BY Zenon DEF SkippedSession, NotifiedSession
<1>7. st \in ChallengeState /\ session \in BattleSession
  BY <1>1 DEF StateAfterResult, ChallengeState, TypeOK
<1> DEFINE s == [session EXCEPT !.challengeState = st]
<1>8. /\ s \in BattleSession /\ s.challengeState = st
      /\ SameCounts(s, session) /\ SameMoves(s, session)
  <2> HIDE DEF st
  <2> QED
    BY <1>7, OtherStateSame
<1>9. SkippedSession = [s EXCEPT !.pendingScryptHashId = 0]
  BY <1>6
<1> HIDE DEF s, st
<1>10. /\ SkippedSession \in BattleSession
       /\ SkippedSession.challengeState = s.challengeState
       /\ SameCounts(SkippedSession, s) /\ SameMoves(SkippedSession, s)
  BY <1>8, <1>9 DEF BattleSession, SameCounts, SameMoves
<1> QED
  BY <1>2, <1>4, <1>5, <1>8, <1>10 DEF SameCounts, SameMoves, st

\* What a query of b makes of a session s that is as the present one, and of
\* statuses info that say the same of what was asked for.
LEMMA QueryMakes ==
  ASSUME IInv, InTurn, NEW s \in BattleSession, NEW b \in Blocks,
         NEW info \in [Blocks -> BlockInfoStatus], Query(s, info, b),
         SameCounts(s, session), SameMoves(s, session),
         \A c \in Blocks :
           /\ info[c] = "Nonexistent" <=> blocksInfo[c] = "Nonexistent"
           /\ info[c] = "Uninitialized" <=> blocksInfo[c] = "Uninitialized"
  PROVE  /\ session'.challengeState = "QueryBlockHeader"
         /\ session'.blockHashes = session.blockHashes
         /\ session'.countBlockHeaderResponses = session.countBlockHeaderResponses
         /\ session'.countBlockHeaderQueries = session.countBlockHeaderQueries + 1
         /\ b \notin AskedFor /\ AskedFor' = AskedFor \cup {b}
         /\ \A c \in Blocks :
              blocksInfo'[c] = "Nonexistent" <=> blocksInfo[c] = "Nonexistent"
         /\ InTurn' /\ outcome' = outcome
<1> DEFINE r == [s EXCEPT !.countBlockHeaderQueries = @ + 1,
                          !.challengeState = "QueryBlockHeader"]
<1>1. /\ ChallengerMoves(r)
      /\ info[b] = "Uninitialized"
      /\ blocksInfo' = [info EXCEPT ![b] = "Requested"]
      /\ outcome' = outcome
  BY DEF Query, CanQuery
<1>2. PICK n \in Nat : n = s.countBlockHeaderQueries + 1
  BY DEF BattleSession
<1>3. r = [[s EXCEPT !.countBlockHeaderQueries = n] EXCEPT !.challengeState = "QueryBlockHeader"]
  BY <1>2
<1> HIDE DEF r
<1>4. /\ r \in BattleSession /\ r.challengeState = "QueryBlockHeader"
      /\ r.blockHashes = s.blockHashes
      /\ r.countBlockHeaderResponses = s.countBlockHeaderResponses
      /\ r.countBlockHeaderQueries = n
      /\ SameMoves(r, s)
  <2>1. "QueryBlockHeader" \in ChallengeState
    BY DEF ChallengeState
  <2> QED
    BY <1>3, <2>1 DEF BattleSession, SameMoves
<1>5. SameMoves(r, session)
  BY <1>4 DEF SameMoves
<1>6. InTurn' /\ SameCounts(session', r)
  BY <1>1, <1>4, <1>5, ChallengerMovesInTurn
<1>7. session'.challengeState = "QueryBlockHeader"
  BY <1>1, <1>4, ChallengerMoved
<1>8. b \notin AskedFor /\ AskedFor' = AskedFor \cup {b}
  BY <1>1 DEF AskedFor
<1>9. \A c \in Blocks :
        blocksInfo'[c] = "Nonexistent" <=> blocksInfo[c] = "Nonexistent"
  BY <1>1
<1> QED
  BY <1>1, <1>2, <1>4, <1>6, <1>7, <1>8, <1>9 DEF SameCounts

\* queryBlockHeader, with or without a hash to pass over.
LEMMA HeaderAskedFor ==
  ASSUME IInv, InTurn, NEW b \in Blocks, QueryBlockHeader(b)
  PROVE  /\ session.challengeState \in
              {"RespondMerkleRootHashes", "RespondBlockHeader", "VerifyScryptHash"}
         /\ session'.challengeState = "QueryBlockHeader"
         /\ session'.blockHashes = session.blockHashes
         /\ session'.countBlockHeaderResponses = session.countBlockHeaderResponses
         /\ session'.countBlockHeaderQueries = session.countBlockHeaderQueries + 1
         /\ b \notin AskedFor /\ AskedFor' = AskedFor \cup {b}
         /\ \A c \in Blocks :
              blocksInfo'[c] = "Nonexistent" <=> blocksInfo[c] = "Nonexistent"
         /\ InTurn' /\ outcome' = outcome
<1>1. session \in BattleSession /\ blocksInfo \in [Blocks -> BlockInfoStatus]
  BY DEF IInv, TypeOK
<1>2. CASE session.challengeState # "VerifyScryptHash"
  <2>1. Query(session, blocksInfo, b)
    BY <1>2 DEF QueryBlockHeader, Skippable
  <2>2. session.challengeState \in {"RespondMerkleRootHashes", "RespondBlockHeader"}
    BY <2>1 DEF Query, CanQuery
  <2>3. SameCounts(session, session) /\ SameMoves(session, session)
    BY DEF SameCounts, SameMoves
  <2> QED
    BY <1>1, <2>1, <2>2, <2>3, QueryMakes
<1>3. CASE session.challengeState = "VerifyScryptHash"
  <2>1. Skippable /\ Query(SkippedSession, SkippedBlocks, b)
    BY <1>3 DEF QueryBlockHeader
  <2>2. PICK v \in AskedFor :
          SkippedBlocks = [blocksInfo EXCEPT ![v] = "ScryptHashVerified"]
    BY <2>1, SkippedSame
  <2>3. SkippedBlocks \in [Blocks -> BlockInfoStatus]
    BY <2>1, Skipping
  <2>4. \A c \in Blocks :
          /\ SkippedBlocks[c] = "Nonexistent" <=> blocksInfo[c] = "Nonexistent"
          /\ SkippedBlocks[c] = "Uninitialized" <=> blocksInfo[c] = "Uninitialized"
    BY <1>1, <2>2 DEF AskedFor
  <2> QED
    BY <1>3, <2>1, <2>3, <2>4, SkippedSame, QueryMakes
<1> QED
  BY <1>2, <1>3

\* respondMerkleRootHashes.
LEMMA HashesShown ==
  ASSUME IInv, InTurn, NEW hashes \in HashLists, RespondMerkleRootHashes(hashes)
  PROVE  /\ session.challengeState = "QueryMerkleRootHashes"
         /\ session'.challengeState = "RespondMerkleRootHashes"
         /\ session'.blockHashes = hashes
         /\ session'.countBlockHeaderResponses = session.countBlockHeaderResponses
         /\ session'.countBlockHeaderQueries = session.countBlockHeaderQueries
         /\ AskedFor' = AskedFor
         /\ \A b \in ToSet(hashes) : blocksInfo'[b] # "Nonexistent"
         /\ InTurn' /\ outcome' = outcome
<1> DEFINE s == [session EXCEPT !.blockHashes = hashes,
                                !.challengeState = "RespondMerkleRootHashes"]
<1>1. /\ session.challengeState = "QueryMerkleRootHashes"
      /\ session.blockHashes = <<>>
      /\ blocksInfo' = [b \in Blocks |-> IF b \in ToSet(hashes) THEN "Uninitialized"
                                                              ELSE blocksInfo[b]]
      /\ ClaimantMoves(s)
      /\ outcome' = outcome
  BY DEF RespondMerkleRootHashes
<1>2. hashes \in Seq(Blocks) /\ session \in BattleSession
  BY DEF IInv, TypeOK
<1>3. /\ s \in BattleSession /\ s.challengeState = "RespondMerkleRootHashes"
      /\ s.blockHashes = hashes
      /\ s.countBlockHeaderResponses = session.countBlockHeaderResponses
      /\ s.countBlockHeaderQueries = session.countBlockHeaderQueries
      /\ SameMoves(s, session)
  <2>1. "RespondMerkleRootHashes" \in ChallengeState
    BY DEF ChallengeState
  <2> QED
    BY <1>2, <2>1 DEF BattleSession, SameMoves
<1> HIDE DEF s
<1>4. InTurn' /\ SameCounts(session', s)
  BY <1>1, <1>3, ClaimantMovesInTurn
<1>5. session'.challengeState = "RespondMerkleRootHashes"
  BY <1>1, <1>3, ClaimantMoved
<1>6. \A b \in Blocks : blocksInfo[b] = "Nonexistent"
  BY <1>1, <1>2, Listing DEF IInv, OnlyListed, Open, ToSet
<1>7. AskedFor' = AskedFor
  BY <1>1, <1>6 DEF AskedFor
<1>8. \A b \in ToSet(hashes) : blocksInfo'[b] # "Nonexistent"
  BY <1>1, <1>2, Listing
<1> QED
  BY <1>1, <1>3, <1>4, <1>5, <1>7, <1>8 DEF SameCounts

\* respondBlockHeader.
LEMMA HeaderShown ==
  ASSUME IInv, InTurn, NEW b \in Blocks, RespondBlockHeader(b)
  PROVE  /\ session.challengeState = "QueryBlockHeader"
         /\ session'.challengeState = "VerifyScryptHash"
         /\ session'.blockHashes = session.blockHashes
         /\ session'.countBlockHeaderResponses
              = session.countBlockHeaderResponses + 1
         /\ session'.countBlockHeaderQueries = session.countBlockHeaderQueries
         /\ AskedFor' = AskedFor
         /\ \A c \in Blocks :
              blocksInfo'[c] = "Nonexistent" <=> blocksInfo[c] = "Nonexistent"
         /\ InTurn' /\ outcome' = outcome
<1> DEFINE id == numScryptHashVerifications + 1
<1> DEFINE s == [session EXCEPT !.countBlockHeaderResponses = @ + 1,
                                !.challengeState = "VerifyScryptHash",
                                !.pendingScryptHashId = id]
<1>1. /\ session.challengeState = "QueryBlockHeader"
      /\ blocksInfo[b] = "Requested"
      /\ blocksInfo' = [blocksInfo EXCEPT ![b] = "ScryptHashPending"]
      /\ ClaimantMoves(s)
      /\ outcome' = outcome
  BY DEF RespondBlockHeader
<1>2. /\ session \in BattleSession /\ blocksInfo \in [Blocks -> BlockInfoStatus]
      /\ id \in Nat
  BY DEF IInv, TypeOK
<1>3. PICK n \in Nat : n = session.countBlockHeaderResponses + 1
  BY <1>2 DEF BattleSession
<1>4. s = [[[session EXCEPT !.countBlockHeaderResponses = n]
              EXCEPT !.challengeState = "VerifyScryptHash"]
              EXCEPT !.pendingScryptHashId = id]
  BY <1>3
<1> HIDE DEF s, id
<1>5. /\ s \in BattleSession /\ s.challengeState = "VerifyScryptHash"
      /\ s.blockHashes = session.blockHashes
      /\ s.countBlockHeaderResponses = n
      /\ s.countBlockHeaderQueries = session.countBlockHeaderQueries
      /\ SameMoves(s, session)
  <2>1. "VerifyScryptHash" \in ChallengeState
    BY DEF ChallengeState
  <2> QED
    BY <1>2, <1>4, <2>1 DEF BattleSession, SameMoves
<1>6. InTurn' /\ SameCounts(session', s)
  BY <1>1, <1>5, ClaimantMovesInTurn
<1>7. session'.challengeState = "VerifyScryptHash"
  BY <1>1, <1>5, ClaimantMoved
<1>8. AskedFor' = AskedFor
  BY <1>1, <1>2 DEF AskedFor
<1>9. \A c \in Blocks :
        blocksInfo'[c] = "Nonexistent" <=> blocksInfo[c] = "Nonexistent"
  BY <1>1, <1>2
<1> QED
  BY <1>1, <1>3, <1>5, <1>6, <1>7, <1>8, <1>9 DEF SameCounts

\* scryptVerified and scryptFailed.
LEMMA ResultIsNotified ==
  ASSUME IInv, InTurn, NEW id, NEW valid \in BOOLEAN, ScryptResult(id, valid)
  PROVE  /\ session.challengeState = "PendingScryptVerification"
         /\ session'.challengeState = StateAfterResult(valid)
         /\ SameCounts(session', session) /\ InTurn'
         /\ AskedFor' = AskedFor
         /\ \A c \in Blocks :
              blocksInfo'[c] = "Nonexistent" <=> blocksInfo[c] = "Nonexistent"
         /\ outcome' = outcome
<1> DEFINE st == StateAfterResult(valid)
<1> DEFINE v == VerificationOf(id)
<1>1. /\ session.challengeState = "PendingScryptVerification"
      /\ v # NoBlock /\ blocksInfo[v] = "ScryptHashPending"
      /\ session' = [session EXCEPT !.challengeState = st]
      /\ blocksInfo' = NotifiedBlocks(v, valid)
      /\ outcome' = outcome
  BY Zenon DEF ScryptResult, NotifiedSession
<1>2. session \in BattleSession /\ blocksInfo \in [Blocks -> BlockInfoStatus]
  BY DEF IInv, TypeOK
<1>3. /\ st \in ChallengeState
      /\ st \in {"SuperblockFailed", "PendingVerification", "RespondBlockHeader"}
  BY DEF StateAfterResult, ChallengeState
<1>4. v \in Blocks
  BY <1>1 DEF IInv, TypeOK, VerificationOf
<1>5. AskedFor' = AskedFor
  BY <1>1, <1>2, <1>4 DEF AskedFor, NotifiedBlocks
<1>6. \A c \in Blocks :
        blocksInfo'[c] = "Nonexistent" <=> blocksInfo[c] = "Nonexistent"
  BY <1>1, <1>2, <1>4 DEF NotifiedBlocks
<1> HIDE DEF st, v
<1>7. /\ session'.challengeState = st
      /\ SameCounts(session', session) /\ SameMoves(session', session)
  BY <1>1, <1>2, <1>3, OtherStateSame
<1>8. InTurn'
  BY <1>3, <1>7 DEF InTurn, SameMoves
<1> QED
  BY <1>1, <1>5, <1>6, <1>7, <1>8 DEF st

\* The counts, as numbers.
LEMMA CountFacts ==
  ASSUME IInv, QueriesCounted, Open
  PROVE  /\ session.countBlockHeaderQueries \in Nat
         /\ session.countBlockHeaderResponses \in Nat
         /\ Len(session.blockHashes) \in Nat
         /\ session.countBlockHeaderResponses <= Len(session.blockHashes)
         /\ AskedFor \subseteq ToSet(session.blockHashes)
<1>1. TypeOK /\ OnlyListed /\ Counted
  BY DEF IInv
<1>2. session.blockHashes \in Seq(Blocks)
  BY <1>1, SessionFacts
<1>3. Answered \in SUBSET ToSet(session.blockHashes)
  BY <1>1 DEF OnlyListed, Answered
<1>4. /\ Cardinality(Answered) <= Cardinality(ToSet(session.blockHashes))
      /\ Cardinality(Answered) \in Nat
      /\ Cardinality(ToSet(session.blockHashes)) \in Nat
  BY <1>2, <1>3, Listing, FS_Subset, FS_CardinalityType
<1> QED
  BY <1>1, <1>2, <1>4, Listing, SessionFacts DEF Counted, OnlyListed, AskedFor

\* A step that asks for nothing new, and does not answer either.
LEMMA QuietPlay ==
  ASSUME IInv, IInv', PlayInv, InTurn', Open,
         SameCounts(session', session), AskedFor' = AskedFor,
         session.challengeState # "QueryBlockHeader",
         session'.challengeState # "QueryBlockHeader",
         \A c \in Blocks :
           blocksInfo'[c] = "Nonexistent" <=> blocksInfo[c] = "Nonexistent",
         session'.challengeState # "Unchallenged",
         session'.challengeState # "RespondMerkleRootHashes",
         session'.challengeState \in {"Challenged", "QueryMerkleRootHashes"} =>
           session.challengeState = "Challenged",
         session'.challengeState = "RespondBlockHeader" =>
           /\ session.countBlockHeaderResponses > 0
           /\ session.countBlockHeaderResponses # Len(session.blockHashes)
  PROVE  PlayInv'
<1>1. QueriesCounted /\ InOrder
  BY DEF PlayInv
<1>2. ToSet(session.blockHashes) \subseteq Blocks
  BY SessionFacts, Listing DEF IInv
<1>3. QueriesCounted'
  BY <1>1, <1>2 DEF QueriesCounted, SameCounts
<1>4. InOrder'
  BY <1>1, CountFacts DEF InOrder, SameCounts
<1>5. AliveIsOpen'
  BY DEF AliveIsOpen, Open
<1> QED
  BY <1>3, <1>4, <1>5 DEF PlayInv

\* A header is asked for.
LEMMA QueryPlay ==
  ASSUME IInv, PlayInv, NEW b \in Blocks, QueryBlockHeader(b)
  PROVE  PlayInv'
<1>1. QueriesCounted /\ InTurn
  BY DEF PlayInv
<1>2. /\ session.challengeState \in
           {"RespondMerkleRootHashes", "RespondBlockHeader", "VerifyScryptHash"}
      /\ session'.challengeState = "QueryBlockHeader"
      /\ session'.blockHashes = session.blockHashes
      /\ session'.countBlockHeaderResponses = session.countBlockHeaderResponses
      /\ session'.countBlockHeaderQueries = session.countBlockHeaderQueries + 1
      /\ b \notin AskedFor /\ AskedFor' = AskedFor \cup {b}
      /\ \A c \in Blocks :
           blocksInfo'[c] = "Nonexistent" <=> blocksInfo[c] = "Nonexistent"
      /\ InTurn'
  BY <1>1, HeaderAskedFor
<1>3. Open /\ ToSet(session.blockHashes) \subseteq Blocks
  BY <1>2, SessionFacts, Listing DEF IInv, Open
<1>4. /\ IsFiniteSet(AskedFor')
      /\ Cardinality(AskedFor') = session.countBlockHeaderQueries + 1
  BY <1>1, <1>2, <1>3, FS_AddElement DEF QueriesCounted
<1>5. session.countBlockHeaderQueries = session.countBlockHeaderResponses
  BY <1>1, <1>2, <1>3, CountFacts DEF QueriesCounted
<1>6. QueriesCounted'
  BY <1>1, <1>2, <1>3, <1>4, <1>5 DEF QueriesCounted
<1> QED
  BY <1>2, <1>6 DEF PlayInv, InOrder, AliveIsOpen, Open

\* The hashes are shown.
LEMMA HashesPlay ==
  ASSUME IInv, PlayInv, NEW hashes \in HashLists, RespondMerkleRootHashes(hashes)
  PROVE  PlayInv'
<1>1. QueriesCounted /\ InTurn /\ InOrder
  BY DEF PlayInv
<1>2. /\ session.challengeState = "QueryMerkleRootHashes"
      /\ session'.challengeState = "RespondMerkleRootHashes"
      /\ session'.blockHashes = hashes
      /\ session'.countBlockHeaderResponses = session.countBlockHeaderResponses
      /\ session'.countBlockHeaderQueries = session.countBlockHeaderQueries
      /\ AskedFor' = AskedFor
      /\ \A b \in ToSet(hashes) : blocksInfo'[b] # "Nonexistent"
      /\ InTurn'
  BY <1>1, HashesShown
<1>3. Open /\ hashes # <<>>
  BY <1>2 DEF Open
<1>4. QueriesCounted'
  BY <1>1, <1>2, <1>3, CountFacts DEF QueriesCounted
<1>5. InOrder'
  BY <1>1, <1>2, <1>3 DEF InOrder
<1> QED
  BY <1>2, <1>4, <1>5 DEF PlayInv, AliveIsOpen, Open

\* A header is shown.
LEMMA HeaderPlay ==
  ASSUME IInv, PlayInv, NEW b \in Blocks, RespondBlockHeader(b)
  PROVE  PlayInv'
<1>1. QueriesCounted /\ InTurn
  BY DEF PlayInv
<1>2. /\ session.challengeState = "QueryBlockHeader"
      /\ session'.challengeState = "VerifyScryptHash"
      /\ session'.blockHashes = session.blockHashes
      /\ session'.countBlockHeaderResponses
           = session.countBlockHeaderResponses + 1
      /\ session'.countBlockHeaderQueries = session.countBlockHeaderQueries
      /\ AskedFor' = AskedFor
      /\ \A c \in Blocks :
           blocksInfo'[c] = "Nonexistent" <=> blocksInfo[c] = "Nonexistent"
      /\ InTurn'
  BY <1>1, HeaderShown
<1>3. Open /\ ToSet(session.blockHashes) \subseteq Blocks
  BY <1>2, SessionFacts, Listing DEF IInv, Open
<1>4. QueriesCounted'
  BY <1>1, <1>2, <1>3, CountFacts DEF QueriesCounted
<1> QED
  BY <1>2, <1>4 DEF PlayInv, InOrder, AliveIsOpen, Open

\* After a battle is decided nothing is left to keep.
LEMMA ConvictPlay ==
  ASSUME NEW party \in {"submitter", "challenger"}, Convict(party)
  PROVE  PlayInv'
<1>1. /\ session'.challengeState = "Unchallenged"
      /\ session'.actionsCounter = 0
      /\ session'.lastActionClaimant = 0 /\ session'.lastActionChallenger = 0
      /\ outcome' # "none"
  BY DEF Convict, Deleted
<1> QED
  BY <1>1
  DEF PlayInv, QueriesCounted, InTurn, InOrder, AliveIsOpen, Alive, Open,
      ChallengersTurn

\* A pending hash has been answered for.
LEMMA DisputeIsAnswered ==
  ASSUME IInv, session.challengeState = "PendingScryptVerification"
  PROVE  session.countBlockHeaderResponses > 0
<1>1. Counted /\ InDispute /\ Open
  BY DEF IInv, Open
<1>2. PICK v \in Blocks : blocksInfo[v] = "ScryptHashPending"
  BY <1>1 DEF InDispute
<1>3. v \in Answered /\ IsFiniteSet(Answered)
  BY <1>1, <1>2 DEF Answered, Counted
<1>4. Cardinality(Answered) \in Nat /\ Cardinality(Answered) # 0
  BY <1>3, FS_CardinalityType, FS_EmptySet
<1> QED
  BY <1>1, <1>4 DEF Counted

\* Each step keeps the invariant.
LEMMA PlayStep ==
  ASSUME IInv, PlayInv, [Next]_vars
  PROVE  PlayInv'
<1>1. IInv' /\ InTurn
  BY Step DEF PlayInv
<1>2. CASE QueryMerkleRootHashes
  <2>1. /\ session.challengeState = "Challenged"
        /\ session'.challengeState = "QueryMerkleRootHashes"
        /\ SameCounts(session', session) /\ InTurn'
        /\ blocksInfo' = blocksInfo
    BY <1>1, <1>2, HashesAskedFor
  <2> QED
    BY <1>1, <2>1, QuietPlay DEF Open, AskedFor
<1>3. ASSUME NEW b \in Blocks, QueryBlockHeader(b)
      PROVE  PlayInv'
  BY <1>3, QueryPlay
<1>4. ASSUME NEW b \in Blocks, RequestScryptHashValidation(b)
      PROVE  PlayInv'
  <2>1. /\ session.challengeState = "VerifyScryptHash"
        /\ session'.challengeState = "RequestScryptVerification"
        /\ SameCounts(session', session) /\ InTurn'
        /\ blocksInfo' = blocksInfo
    BY <1>1, <1>4, ValidationAskedFor
  <2> QED
    BY <1>1, <2>1, QuietPlay DEF Open, AskedFor
<1>5. ASSUME NEW hashes \in HashLists, RespondMerkleRootHashes(hashes)
      PROVE  PlayInv'
  BY <1>5, HashesPlay
<1>6. ASSUME NEW b \in Blocks, RespondBlockHeader(b)
      PROVE  PlayInv'
  BY <1>6, HeaderPlay
<1>7. ASSUME NEW id \in Ids, ScryptSubmitted(id)
      PROVE  PlayInv'
  <2>1. /\ session.challengeState = "RequestScryptVerification"
        /\ session'.challengeState = "PendingScryptVerification"
        /\ SameCounts(session', session) /\ InTurn'
        /\ blocksInfo' = blocksInfo
    BY <1>1, <1>7, ScryptIsSubmitted
  <2> QED
    BY <1>1, <2>1, QuietPlay DEF Open, AskedFor
<1>8. ASSUME NEW id \in Ids, NEW valid \in BOOLEAN, ScryptResult(id, valid)
      PROVE  PlayInv'
  <2>1. /\ session.challengeState = "PendingScryptVerification"
        /\ session'.challengeState = StateAfterResult(valid)
        /\ SameCounts(session', session) /\ InTurn'
        /\ AskedFor' = AskedFor
        /\ \A c \in Blocks :
             blocksInfo'[c] = "Nonexistent" <=> blocksInfo[c] = "Nonexistent"
    BY <1>1, <1>8, ResultIsNotified
  <2>2. /\ StateAfterResult(valid) \in
             {"SuperblockFailed", "PendingVerification", "RespondBlockHeader"}
        /\ StateAfterResult(valid) = "RespondBlockHeader" =>
             session.countBlockHeaderResponses # Len(session.blockHashes)
    BY DEF StateAfterResult
  <2>3. session.countBlockHeaderResponses > 0 /\ Open
    BY <2>1, DisputeIsAnswered DEF Open
  <2> QED
    BY <1>1, <2>1, <2>2, <2>3, QuietPlay
<1>9. CASE VerifySuperblock
  <2>1. PICK party \in {"submitter", "challenger"} : Convict(party)
    BY <1>9 DEF VerifySuperblock, FinalVerdict
  <2> QED
    BY <2>1, ConvictPlay
<1>10. CASE Timeout
  <2>1. PICK party \in {"submitter", "challenger"} : Convict(party)
    BY <1>10 DEF Timeout
  <2> QED
    BY <2>1, ConvictPlay
<1>11. CASE Tick \/ DepositChanges \/ UNCHANGED vars
  <2>1. session' = session /\ blocksInfo' = blocksInfo /\ outcome' = outcome
    BY <1>11 DEF Tick, DepositChanges, vars
  <2> QED
    BY <2>1
    DEF PlayInv, QueriesCounted, InTurn, InOrder, AliveIsOpen, Alive, Open,
        ChallengersTurn, AskedFor
<1> QED
  BY <1>2, <1>3, <1>4, <1>5, <1>6, <1>7, <1>8, <1>9, <1>10, <1>11
  DEF Next, ChallengerMove, ClaimantMove, AnyScryptResult

\* A list without repetitions has as many blocks as it is long.
LEMMA Distinct ==
  ASSUME NEW s \in Seq(Blocks), IsInjective(s)
  PROVE  Cardinality(ToSet(s)) = Len(s)
<1>1. DOMAIN s = 1 .. Len(s) /\ Len(s) \in Nat
  BY LenProperties
<1>2. s \in Bijection(1 .. Len(s), ToSet(s))
  <2>1. s = [i \in 1 .. Len(s) |-> s[i]]
    BY <1>1
  <2>2. \A i \in 1 .. Len(s) : s[i] \in ToSet(s)
    BY <1>1 DEF ToSet
  <2>3. s \in [1 .. Len(s) -> ToSet(s)]
    BY <2>1, <2>2
  <2>4. \A t \in ToSet(s) : \E i \in 1 .. Len(s) : s[i] = t
    BY <1>1 DEF ToSet
  <2>5. \A i, j \in 1 .. Len(s) : s[i] = s[j] => i = j
    BY <1>1 DEF IsInjective
  <2> QED
    BY <2>3, <2>4, <2>5 DEF Bijection, Injection, Surjection
<1>3. PICK n \in Nat : n = Len(s)
  BY <1>1
<1>4. IsFiniteSet(1 .. n) /\ Cardinality(1 .. n) = n
  BY FS_Interval
<1> QED
  BY <1>2, <1>3, <1>4, FS_Bijection DEF ExistsBijection

\* While not every block of the list was asked for, one can be.
LEMMA OneIsLeft ==
  ASSUME IInv, QueriesCounted, Open, IsInjective(session.blockHashes),
         session.countBlockHeaderQueries < Len(session.blockHashes)
  PROVE  \E b \in Blocks : blocksInfo[b] = "Uninitialized"
<1> DEFINE S == ToSet(session.blockHashes)
<1>1. session.blockHashes \in Seq(Blocks) /\ S \subseteq Blocks
  BY SessionFacts, Listing DEF IInv
<1>2. Cardinality(S) = Len(session.blockHashes)
  BY <1>1, Distinct
<1>3. AskedFor # S
  BY <1>2, CountFacts DEF QueriesCounted
<1>4. PICK b \in S : b \notin AskedFor
  BY <1>3, CountFacts
<1>5. blocksInfo[b] # "Nonexistent"
  BY <1>4 DEF QueriesCounted
<1> QED
  BY <1>1, <1>4, <1>5 DEF AskedFor

\* The states in which it is the challenger's turn, and its move in each.
LEMMA MoveExists ==
  ASSUME IInv, PlayInv
  PROVE  ChallengerCanMove
<1> SUFFICES ASSUME Alive, ChallengersTurn, CanBond,
                    IsInjective(session.blockHashes)
             PROVE  \/ CanQueryMerkleRootHashes
                    \/ \E b \in Blocks : CanQueryBlockHeader(b)
                    \/ \E b \in Blocks : CanRequestScryptHashValidation(b)
                    \/ CanVerifySuperblock
                    \/ session.challengeState = "PendingScryptVerification"
  BY DEF ChallengerCanMove
<1>1. /\ QueriesCounted /\ InTurn /\ InOrder /\ TypeOK /\ InDispute
      /\ hasDeposit(respondMerkleRootHashesCost)
      /\ hasDeposit(respondBlockHeaderCost)
      /\ hasDeposit(queryMerkleRootHashesCost)
  BY DEF PlayInv, IInv, CanBond
<1>2. session.challengeState \in
        {"Challenged", "RespondMerkleRootHashes", "RespondBlockHeader",
         "VerifyScryptHash", "PendingScryptVerification", "PendingVerification",
         "SuperblockFailed"}
  BY <1>1, SessionFacts DEF InTurn, ChallengeState
<1>3. Open
  BY <1>2 DEF Open
<1>4. CASE session.challengeState = "Challenged"
  BY <1>1, <1>4 DEF CanQueryMerkleRootHashes
<1>5. CASE session.challengeState = "RespondMerkleRootHashes"
  <2>1. session.countBlockHeaderQueries = 0 /\ Len(session.blockHashes) > 0
    BY <1>1, <1>3, <1>5, SessionFacts, CountFacts, EmptySeq DEF InOrder
  <2>2. PICK b \in Blocks : blocksInfo[b] = "Uninitialized"
    BY <1>1, <1>3, <2>1, OneIsLeft
  <2>3. CanQueryBlockHeader(b)
    BY <1>1, <1>5, <2>1, <2>2 DEF CanQueryBlockHeader, CanQuery
  <2> QED
    BY <2>3
<1>6. CASE session.challengeState = "RespondBlockHeader"
  <2>1. /\ session.countBlockHeaderQueries > 0
        /\ session.countBlockHeaderQueries < Len(session.blockHashes)
    BY <1>1, <1>3, <1>6, CountFacts DEF InOrder, QueriesCounted
  <2>2. PICK b \in Blocks : blocksInfo[b] = "Uninitialized"
    BY <1>1, <1>3, <2>1, OneIsLeft
  <2>3. CanQueryBlockHeader(b)
    BY <1>1, <1>6, <2>1, <2>2 DEF CanQueryBlockHeader, CanQuery
  <2> QED
    BY <2>3
<1>7. CASE session.challengeState = "VerifyScryptHash"
  BY <1>1, <1>7 DEF InDispute, CanRequestScryptHashValidation
<1>8. CASE session.challengeState \in {"PendingVerification", "SuperblockFailed"}
  BY <1>8 DEF CanVerifySuperblock, IsFinal
<1> QED
  BY <1>2, <1>4, <1>5, <1>6, <1>7, <1>8

\* The invariant at the beginning of a battle.
LEMMA PlayInit == Init => PlayInv
<1> SUFFICES ASSUME Init
             PROVE  PlayInv
  OBVIOUS
<1>1. /\ session.challengeState = "Challenged" /\ session.blockHashes = <<>>
      /\ session.countBlockHeaderQueries = 0
      /\ session.countBlockHeaderResponses = 0
      /\ session.actionsCounter = 1
      /\ session.lastActionClaimant = 1 /\ session.lastActionChallenger = 0
  BY DEF Init, Begun, Deleted
<1>2. AskedFor = {}
  BY DEF Init, AskedFor
<1>3. QueriesCounted
  <2>1. ToSet(session.blockHashes) = {}
    BY <1>1 DEF ToSet
  <2> QED
    BY <1>1, <1>2, <2>1, FS_EmptySet DEF QueriesCounted
<1> QED
  BY <1>1, <1>3 DEF PlayInv, InTurn, InOrder, AliveIsOpen, Open

\* Every move of a party and every result leaves the counts, the turns and the
\* order of the session as PlayInv says.
LEMMA PlayInvariance == Spec => [](IInv /\ PlayInv)
<1>1. Init => IInv /\ PlayInv
  BY InitInvariant, PlayInit
<1>2. IInv /\ PlayInv /\ [Next]_vars => (IInv /\ PlayInv)'
  BY Step, PlayStep
<1> QED
  BY <1>1, <1>2, PTL DEF Spec

\* For lists of any length and any time limit: a challenger whose turn it is
\* has a call that is accepted, or anyone can call verifySuperblock, or the
\* game of ScryptClaims is on, whatever was queried, shown, disputed and passed
\* over before.  Each header can be asked for once, so this needs a list that
\* repeats no hash.
THEOREM ChallengerCanMoveHolds == Spec => []ChallengerCanMove
BY PlayInvariance, MoveExists, PTL

-----------------------------------------------------------------------------
(* The driver.                                                             *)

\* The hashes that the driver queries are blocks, and the next is one of them.
DriverInv ==
  /\ firstHashes \in Seq(Blocks) /\ queried \in Nat
  /\ firstHashes = <<>> => queried = 0
  /\ pc = "hashes" => firstHashes = <<>>
  /\ pc \in {"query", "receipt"} /\ firstHashes # <<>> =>
       queried < Len(firstHashes)

\* The next query of the driver is a move of the challenger.
LEMMA NextQueryIsMove ==
  ASSUME DriverInv, pc = "receipt", NextQuery
  PROVE  ChallengerMove
<1>1. CASE firstHashes = <<>>
  BY <1>1 DEF NextQuery, ChallengerMove
<1>2. CASE firstHashes # <<>>
  <2>1. queried \in Nat /\ queried < Len(firstHashes) /\ Len(firstHashes) \in Nat
    BY <1>2, LenProperties DEF DriverInv
  <2>2. queried + 1 \in 1 .. Len(firstHashes)
    BY <2>1
  <2>3. NextHash \in Blocks
    BY <2>2, ElementOfSeq DEF DriverInv, NextHash
  <2> QED
    BY <1>2, <2>3 DEF NextQuery, ChallengerMove
<1> QED
  BY <1>1, <1>2

\* What the driver and the accounts beside it do is a step of the battle.
LEMMA DriverStep ==
  ASSUME DriverInv, [DriverNext]_allVars
  PROVE  [Next]_vars
<1>1. CASE SendQuery
  BY <1>1 DEF SendQuery
<1>2. CASE IncludeQuery
  <2>1. pc = "receipt" /\ (NextQuery \/ UNCHANGED vars)
    BY <1>2 DEF IncludeQuery
  <2> QED
    BY <2>1, NextQueryIsMove DEF Next
<1>3. CASE NextResponse \/ ReadHashes \/ NewBlock
  BY <1>3 DEF NextResponse, ReadHashes, NewBlock
<1>4. CASE Response
  BY <1>4 DEF Response, Next, ClaimantMove
<1>5. CASE OwnMove
  BY <1>5 DEF OwnMove, Next
<1>6. CASE SilentMove
  BY <1>6 DEF SilentMove, Next, ClaimantMove
<1>7. CASE TimePasses
  BY <1>7 DEF TimePasses, Next
<1>8. CASE UNCHANGED allVars
  BY <1>8 DEF allVars
<1> QED
  BY <1>1, <1>2, <1>3, <1>4, <1>5, <1>6, <1>7, <1>8 DEF DriverNext

\* The first hashes of a list of blocks are blocks.
LEMMA FirstHashes ==
  ASSUME NEW s \in Seq(Blocks), NEW n \in Nat, n <= Len(s)
  PROVE  SubSeq(s, 1, n) \in Seq(Blocks) /\ Len(SubSeq(s, 1, n)) = n
<1>1. Len(s) \in Nat /\ DOMAIN s = 1 .. Len(s)
  BY LenProperties
<1>2. \A i \in 1 .. n : s[i] \in Blocks
  BY <1>1, ElementOfSeq
<1> QED
  BY <1>1, <1>2, SubSeqProperties

\* The driver keeps to the hashes it has read.
LEMMA DriverInvStep ==
  ASSUME IInv, DriverInv, [DriverNext]_allVars
  PROVE  DriverInv'
<1>1. CASE SendQuery
  <2>1. /\ pc = "query" /\ pc' \in {"repeated", "receipt", "refused"}
        /\ firstHashes' = firstHashes /\ queried' = queried
    BY <1>1 DEF SendQuery
  <2> QED
    BY <2>1 DEF DriverInv
<1>2. CASE IncludeQuery
  <2>1. /\ pc' \in {"response", "refused"} /\ firstHashes' = firstHashes
        /\ \/ queried' = queried
           \/ queried' = IF firstHashes = <<>> THEN 0 ELSE queried + 1
    BY <1>2 DEF IncludeQuery
  <2> QED
    BY <2>1 DEF DriverInv
<1>3. CASE NextResponse
  <2>1. /\ pc' \in {AfterResponse, "timedOut"}
        /\ firstHashes' = firstHashes /\ queried' = queried
    BY <1>3 DEF NextResponse
  <2> QED
    BY <2>1 DEF DriverInv, AfterResponse
<1>4. CASE ReadHashes
  <2> DEFINE n == IF Len(session.blockHashes) < maxHashes
                    THEN Len(session.blockHashes) ELSE maxHashes
  <2>1. /\ firstHashes' = SubSeq(session.blockHashes, 1, n)
        /\ pc' = IF firstHashes' = <<>> THEN "abandoned" ELSE "query"
        /\ queried' = queried /\ pc = "hashes"
    BY <1>4 DEF ReadHashes
  <2>2. session.blockHashes \in Seq(Blocks) /\ Len(session.blockHashes) \in Nat
    BY SessionFacts, LenProperties DEF IInv
  <2>3. n \in Nat /\ n <= Len(session.blockHashes)
    BY <2>2, MaxHashesAssumption
  <2> HIDE DEF n
  <2>4. firstHashes' \in Seq(Blocks) /\ Len(firstHashes') = n
    BY <2>1, <2>2, <2>3, FirstHashes
  <2>5. firstHashes' # <<>> => n > 0
    BY <2>3, <2>4, EmptySeq
  <2>6. queried = 0
    BY <2>1 DEF DriverInv
  <2> QED
    BY <2>1, <2>3, <2>4, <2>5, <2>6 DEF DriverInv
<1>5. CASE NewBlock \/ Response \/ OwnMove \/ SilentMove \/ TimePasses
             \/ UNCHANGED allVars
  <2>1. firstHashes' = firstHashes /\ queried' = queried /\ pc' = pc
    BY <1>5
    DEF NewBlock, Response, OwnMove, SilentMove, TimePasses, driverVars, allVars
  <2> QED
    BY <2>1 DEF DriverInv
<1> QED
  BY <1>1, <1>2, <1>3, <1>4, <1>5 DEF DriverNext

\* The driver of tasks/battle.ts and the accounts beside it make the moves of
\* a battle and no others: what holds of every battle holds of theirs.
THEOREM DriverFightsBattle == DriverSpec => FairSpec
<1>1. DriverInit => Init /\ IInv /\ DriverInv
  <2>1. ASSUME DriverInit
        PROVE  DriverInv
    BY <2>1 DEF DriverInit, DriverInv
  <2> QED
    BY <2>1, InitInvariant DEF DriverInit
<1>2. IInv /\ DriverInv /\ [DriverNext]_allVars =>
        [Next]_vars /\ IInv' /\ DriverInv'
  BY DriverStep, DriverInvStep, Step
<1> QED
  BY <1>1, <1>2, PTL DEF DriverSpec, Spec, FairSpec

-----------------------------------------------------------------------------
(* The queries of the driver.                                              *)

\* The driver still makes the moves of the challenger, in a battle that lasts.
Driving ==
  /\ alone /\ funded /\ Alive
  /\ pc \in {"query", "receipt", "response", "hashes"}

\* The state of the session that belongs to where the driver is; while it waits
\* for a response that it has not heard, the one before or the one after it.
StateIsDue ==
  /\ pc \in {"query", "receipt"} =>
       session.challengeState =
         IF firstHashes = <<>> THEN "Challenged"
         ELSE IF queried = 0 THEN "RespondMerkleRootHashes" ELSE "VerifyScryptHash"
  /\ pc = "receipt" => ~Repeated
  /\ pc = "response" /\ firstHashes = <<>> =>
       \/ session.challengeState = "RespondMerkleRootHashes"
       \/ session.challengeState = "QueryMerkleRootHashes" /\ ~heard
  /\ pc = "response" /\ firstHashes # <<>> =>
       \/ session.challengeState = "VerifyScryptHash"
       \/ session.challengeState = "QueryBlockHeader" /\ ~heard
  /\ pc = "hashes" => session.challengeState = "RespondMerkleRootHashes"

\* The headers asked for are those that the driver has queried.
Tracked ==
  /\ session.countBlockHeaderQueries = queried
  /\ pc = "response" /\ firstHashes # <<>> => queried > 0
  /\ firstHashes # <<>> =>
       /\ queried <= Len(firstHashes)
       /\ Len(firstHashes) <= Len(session.blockHashes)
       /\ \A i \in 1 .. Len(firstHashes) : firstHashes[i] \in ToSet(session.blockHashes)
       /\ \A b \in AskedFor : \E i \in 1 .. queried : firstHashes[i] = b

\* What the queries cost of the headers that are left after the first k.
CostAfter(k) == (maxHashes - k) * respondBlockHeaderCost

\* The deposit covers the queries that the driver has yet to make.
Covered ==
  /\ pc \in {"query", "receipt"} /\ firstHashes = <<>> =>
       deposit >= respondMerkleRootHashesCost + CostAfter(0)
  /\ pc \in {"response", "hashes"} \/ firstHashes # <<>> =>
       deposit >= CostAfter(queried)
  /\ firstHashes # <<>> => Len(firstHashes) <= maxHashes

InStep == QueriesAccepted /\ (Driving => StateIsDue /\ Tracked /\ Covered)

BattleInv == IInv /\ PlayInv /\ DriverInv

\* One time more is one more of it.
LEMMA OneMore ==
  ASSUME NEW m \in Int, NEW c \in Nat
  PROVE  /\ m * c \in Int /\ (m + 1) * c = m * c + c
         /\ m \in Nat => m * c \in Nat
OBVIOUS

\* One query more costs its bond.
LEMMA OneCost ==
  ASSUME NEW k \in Nat
  PROVE  /\ CostAfter(0) \in Nat /\ CostAfter(k) \in Int
         /\ k < maxHashes =>
              /\ CostAfter(k) = CostAfter(k + 1) + respondBlockHeaderCost
              /\ CostAfter(k + 1) \in Nat
<1>1. respondBlockHeaderCost \in Nat /\ maxHashes \in Nat
  BY CostsAssumption, MaxHashesAssumption
<1>2. CostAfter(0) \in Nat
  <2>1. maxHashes - 0 \in Nat
    BY <1>1
  <2> QED
    BY <1>1, <2>1, OneMore DEF CostAfter
<1>3. CostAfter(k) \in Int
  <2>1. maxHashes - k \in Int
    BY <1>1
  <2> QED
    BY <1>1, <2>1, OneMore DEF CostAfter
<1>4. ASSUME k < maxHashes
      PROVE  /\ CostAfter(k) = CostAfter(k + 1) + respondBlockHeaderCost
             /\ CostAfter(k + 1) \in Nat
  <2>1. PICK m \in Nat : m = maxHashes - (k + 1)
    BY <1>1, <1>4
  <2>2. maxHashes - k = m + 1
    BY <1>1, <2>1
  <2>3. /\ CostAfter(k) = (m + 1) * respondBlockHeaderCost
        /\ CostAfter(k + 1) = m * respondBlockHeaderCost
    BY <2>1, <2>2, Zenon DEF CostAfter
  <2> QED
    BY <1>1, <2>3, OneMore
<1> QED
  BY <1>2, <1>3, <1>4

\* The deposit covers the next query, and after it those that are left.
LEMMA NextCost ==
  ASSUME TypeOK, DriverInv, Covered, pc \in {"query", "receipt"}
  PROVE  /\ firstHashes = <<>> =>
              /\ hasDeposit(respondMerkleRootHashesCost)
              /\ deposit - respondMerkleRootHashesCost >= CostAfter(0)
         /\ firstHashes # <<>> =>
              /\ hasDeposit(respondBlockHeaderCost)
              /\ deposit - respondBlockHeaderCost >= CostAfter(queried + 1)
<1>1. /\ deposit \in Nat /\ queried \in Nat
      /\ respondMerkleRootHashesCost \in Nat /\ respondBlockHeaderCost \in Nat
  BY CostsAssumption DEF TypeOK, DriverInv
<1>2. CASE firstHashes = <<>>
  BY <1>1, <1>2, OneCost DEF Covered, hasDeposit
<1>3. CASE firstHashes # <<>>
  <2>1. queried < maxHashes
    BY <1>1, <1>3, LenProperties, MaxHashesAssumption DEF Covered, DriverInv
  <2>2. deposit >= CostAfter(queried)
    BY <1>3 DEF Covered
  <2> QED
    BY <1>1, <1>3, <2>1, <2>2, OneCost DEF hasDeposit
<1> QED
  BY <1>2, <1>3

\* The next query is accepted, with a scrypt hash to pass over or without.
LEMMA NextQueryAccepted ==
  ASSUME BattleInv, InStep, alone, funded, Alive, pc \in {"query", "receipt"},
         ~Repeated
  PROVE  CanMakeNextQuery
<1>1. /\ StateIsDue /\ Tracked /\ Covered /\ Open
      /\ QueriesCounted /\ DriverInv /\ TypeOK /\ InDispute
  BY DEF InStep, Driving, BattleInv, PlayInv, AliveIsOpen, IInv
<1>2. CASE firstHashes = <<>>
  BY <1>1, <1>2, NextCost
  DEF StateIsDue, CanMakeNextQuery, CanQueryMerkleRootHashes
<1>3. CASE firstHashes # <<>>
  <2> DEFINE b == NextHash
  <2>1. /\ queried \in Nat /\ Len(firstHashes) \in Nat
        /\ queried < Len(firstHashes)
    BY <1>1, <1>3, LenProperties DEF DriverInv
  <2>2. queried + 1 \in 1 .. Len(firstHashes)
    BY <2>1
  <2>3. b \in ToSet(session.blockHashes)
    BY <1>1, <1>3, <2>2 DEF Tracked, NextHash
  <2>4. b \notin AskedFor
    BY <1>1, <1>3 DEF Tracked, Repeated
  <2>5. b \in Blocks
    BY <1>1, <2>3, SessionFacts, Listing
  <2>6. blocksInfo[b] = "Uninitialized"
    BY <1>1, <2>3, <2>4, <2>5 DEF QueriesCounted, AskedFor
  <2>7. /\ session.countBlockHeaderQueries = queried
        /\ queried < Len(session.blockHashes)
    BY <1>1, <1>3, <2>1, CountFacts DEF Tracked, BattleInv
  <2>0. hasDeposit(respondBlockHeaderCost)
    BY <1>1, <1>3, NextCost
  <2> HIDE DEF b
  <2>8. CanQueryBlockHeader(b)
    <3>1. CASE queried = 0
      BY <1>1, <1>3, <2>0, <2>6, <2>7, <3>1
      DEF StateIsDue, CanQueryBlockHeader, CanQuery
    <3>2. CASE queried # 0
      <4>1. session.challengeState = "VerifyScryptHash"
        BY <1>1, <1>3, <3>2 DEF StateIsDue
      <4>2. Skippable
        <5> DEFINE id == session.pendingScryptHashId
        <5>1. id \in Ids /\ scryptHashVerifications[id] \in Blocks
          BY <1>1, <4>1 DEF InDispute
        <5>2. VerificationOf(id) # NoBlock /\ id # 0
          BY <1>1, <5>1 DEF VerificationOf, TypeOK, Ids
        <5> QED
          BY <4>1, <5>2 DEF Skippable
      <4>3. session.countBlockHeaderResponses # Len(session.blockHashes)
        BY <1>1, <2>7, <4>1, CountFacts DEF QueriesCounted, BattleInv
      <4>4. SkippedSession.challengeState = "RespondBlockHeader"
        BY <4>2, <4>3, SkippedSame DEF StateAfterResult, BattleInv
      <4>5. SameCounts(SkippedSession, session)
        BY <4>2, SkippedSame DEF BattleInv
      <4>6. SkippedBlocks[b] = "Uninitialized"
        <5>1. PICK v \in AskedFor :
                SkippedBlocks = [blocksInfo EXCEPT ![v] = "ScryptHashVerified"]
          BY <4>2, SkippedSame DEF BattleInv
        <5>2. blocksInfo \in [Blocks -> BlockInfoStatus] /\ v # b
          BY <1>1, <2>4 DEF TypeOK
        <5> QED
          BY <2>5, <2>6, <5>1, <5>2
      <4>7. CanQuery(SkippedSession, SkippedBlocks, b)
        BY <2>0, <2>1, <2>7, <3>2, <4>4, <4>5, <4>6 DEF CanQuery, SameCounts
      <4> QED
        BY <4>2, <4>7 DEF CanQueryBlockHeader
    <3> QED
      BY <3>1, <3>2
  <2> QED
    BY <1>3, <2>8 DEF CanMakeNextQuery, b
<1> QED
  BY <1>2, <1>3

\* The driver sends its next query.
LEMMA SendQueryInStep ==
  ASSUME BattleInv, InStep, SendQuery
  PROVE  InStep'
<1>1. /\ pc = "query"
      /\ pc' = IF Repeated THEN "repeated"
               ELSE IF CanMakeNextQuery THEN "receipt" ELSE "refused"
      /\ UNCHANGED <<session, blocksInfo, outcome, deposit, firstHashes, queried,
                     heard, alone, funded>>
  BY DEF SendQuery, vars
<1>2. CASE ~(alone /\ funded /\ Alive)
  BY <1>1, <1>2 DEF InStep, QueriesAccepted, Driving, Alive
<1>3. CASE alone /\ funded /\ Alive /\ Repeated
  BY <1>1, <1>3 DEF InStep, QueriesAccepted, Driving
<1>4. CASE alone /\ funded /\ Alive /\ ~Repeated
  <2>1. StateIsDue /\ Tracked /\ Covered
    BY <1>1, <1>4 DEF InStep, Driving
  <2>2. pc' = "receipt"
    BY <1>1, <1>4, NextQueryAccepted
  <2>3. StateIsDue'
    BY <1>1, <1>4, <2>1, <2>2 DEF StateIsDue, Repeated, NextHash
  <2>4. Tracked'
    BY <1>1, <2>1, <2>2 DEF Tracked, AskedFor
  <2>5. Covered'
    BY <1>1, <2>1, <2>2 DEF Covered
  <2> QED
    BY <2>2, <2>3, <2>4, <2>5 DEF InStep, QueriesAccepted
<1> QED
  BY <1>2, <1>3, <1>4

\* Its query is included, in the state it was sent in but for the time.
LEMMA IncludeQueryInStep ==
  ASSUME BattleInv, InStep, IncludeQuery
  PROVE  InStep'
<1>1. pc = "receipt" /\ UNCHANGED <<firstHashes, alone, funded>>
  BY DEF IncludeQuery
<1>2. IInv /\ InTurn /\ DriverInv /\ TypeOK
  BY DEF BattleInv, PlayInv, IInv
<1>3. CASE ~(alone /\ funded)
  BY <1>1, <1>3 DEF InStep, QueriesAccepted, Driving
<1>4. CASE alone /\ funded /\ ~Alive
  <2>1. outcome' = outcome
    BY DEF IncludeQuery, NextQuery, QueryMerkleRootHashes, QueryBlockHeader, Query,
           vars
  <2> QED
    BY <1>4, <2>1 DEF InStep, QueriesAccepted, Driving, Alive
<1>5. CASE alone /\ funded /\ Alive
  <2>1. StateIsDue /\ Tracked /\ Covered
    BY <1>1, <1>5 DEF InStep, Driving
  <2>2. CanMakeNextQuery
    BY <1>1, <1>5, <2>1, NextQueryAccepted DEF StateIsDue
  <2>3. /\ NextQuery /\ pc' = "response" /\ ~heard'
        /\ queried' = IF firstHashes = <<>> THEN 0 ELSE queried + 1
    BY <2>2 DEF IncludeQuery
  <2>4. CASE firstHashes = <<>>
    <3>1. /\ session'.challengeState = "QueryMerkleRootHashes"
          /\ SameCounts(session', session)
      BY <1>2, <2>3, <2>4, HashesAskedFor DEF NextQuery
    <3>2. StateIsDue'
      BY <1>1, <2>3, <2>4, <3>1 DEF StateIsDue
    <3>3. Tracked'
      BY <1>1, <1>2, <2>1, <2>3, <2>4, <3>1 DEF Tracked, SameCounts, DriverInv
    <3>4. Covered'
      <4>1. QueryMerkleRootHashes /\ queried' = 0 /\ queried = 0
        BY <1>2, <2>3, <2>4 DEF NextQuery, DriverInv
      <4>2. deposit' = deposit - respondMerkleRootHashesCost
        BY <1>2, <4>1, MoveBonds
      <4>3. deposit' >= CostAfter(0)
        BY <1>1, <1>2, <2>1, <2>4, <4>2, NextCost
      <4> QED
        BY <1>1, <2>3, <2>4, <4>1, <4>3 DEF Covered, CostAfter
    <3> QED
      BY <2>3, <3>2, <3>3, <3>4 DEF InStep, QueriesAccepted
  <2>5. CASE firstHashes # <<>>
    <3>1. /\ queried \in Nat /\ Len(firstHashes) \in Nat
          /\ queried < Len(firstHashes)
      BY <1>1, <1>2, <2>5, LenProperties DEF DriverInv
    <3>2. NextHash \in Blocks
      BY <1>2, <3>1, ElementOfSeq DEF DriverInv, NextHash
    <3>3. /\ session'.challengeState = "QueryBlockHeader"
          /\ session'.blockHashes = session.blockHashes
          /\ session'.countBlockHeaderQueries = session.countBlockHeaderQueries + 1
          /\ AskedFor' = AskedFor \cup {NextHash}
      BY <1>2, <2>3, <2>5, <3>2, HeaderAskedFor DEF NextQuery
    <3>4. StateIsDue'
      BY <1>1, <2>3, <2>5, <3>3 DEF StateIsDue
    <3>5. Tracked'
      <4> DEFINE k == queried + 1
      <4>1. k \in Nat /\ k > 0 /\ k <= Len(firstHashes) /\ 1 .. queried \subseteq 1 .. k
        BY <3>1
      <4>2. \A b \in AskedFor' : \E i \in 1 .. k : firstHashes[i] = b
        BY <2>1, <2>5, <3>3, <4>1 DEF Tracked, NextHash
      <4>3. session'.countBlockHeaderQueries = k /\ queried' = k
        BY <2>1, <2>3, <2>5, <3>3 DEF Tracked
      <4> HIDE DEF k
      <4> QED
        BY <1>1, <2>1, <2>5, <3>3, <4>1, <4>2, <4>3 DEF Tracked
    <3>6. Covered'
      <4>1. QueryBlockHeader(NextHash) /\ queried' = queried + 1
        BY <2>3, <2>5 DEF NextQuery
      <4>2. deposit' = deposit - respondBlockHeaderCost
        BY <1>2, <4>1, MoveBonds DEF QueryBlockHeader
      <4>3. deposit' >= CostAfter(queried')
        BY <1>1, <1>2, <2>1, <2>5, <4>1, <4>2, NextCost
      <4> QED
        BY <1>1, <2>1, <2>3, <2>5, <4>3 DEF Covered, CostAfter
    <3> QED
      BY <2>3, <3>4, <3>5, <3>6 DEF InStep, QueriesAccepted
  <2> QED
    BY <2>4, <2>5
<1> QED
  BY <1>3, <1>4, <1>5

\* It has heard a response, or gives up.
LEMMA NextResponseInStep ==
  ASSUME BattleInv, InStep, NextResponse
  PROVE  InStep'
<1>1. /\ pc = "response"
      /\ (heard /\ pc' = AfterResponse) \/ pc' = "timedOut"
      /\ UNCHANGED <<session, blocksInfo, outcome, deposit, firstHashes, queried,
                     heard, alone, funded>>
  BY DEF NextResponse, vars
<1>2. pc' # "refused"
  BY <1>1 DEF AfterResponse
<1>3. ASSUME Driving'
      PROVE  StateIsDue' /\ Tracked' /\ Covered'
  <2>1. StateIsDue /\ Tracked /\ Covered /\ heard /\ pc' = AfterResponse
    BY <1>1, <1>3 DEF InStep, Driving, Alive
  <2>2. CASE firstHashes = <<>>
    BY <1>1, <2>1, <2>2 DEF StateIsDue, Tracked, Covered, AfterResponse
  <2>3. CASE firstHashes # <<>>
    <3>1. pc' = "query" /\ queried # 0
      BY <1>1, <1>3, <2>1, <2>3 DEF AfterResponse, Driving, Tracked
    <3>2. StateIsDue'
      BY <1>1, <2>1, <2>3, <3>1 DEF StateIsDue
    <3>3. Tracked'
      BY <1>1, <2>1, <2>3, <3>1 DEF Tracked, AskedFor
    <3>4. Covered'
      BY <1>1, <2>1, <2>3, <3>1 DEF Covered
    <3> QED
      BY <3>2, <3>3, <3>4
  <2> QED
    BY <2>2, <2>3
<1> QED
  BY <1>2, <1>3 DEF InStep, QueriesAccepted

\* It reads the hashes; no header was asked for yet.
LEMMA ReadHashesInStep ==
  ASSUME BattleInv, InStep, ReadHashes
  PROVE  InStep'
<1> DEFINE n == IF Len(session.blockHashes) < maxHashes
                  THEN Len(session.blockHashes) ELSE maxHashes
<1>1. /\ pc = "hashes"
      /\ firstHashes' = SubSeq(session.blockHashes, 1, n)
      /\ pc' = IF firstHashes' = <<>> THEN "abandoned" ELSE "query"
      /\ UNCHANGED <<session, blocksInfo, outcome, deposit, queried, heard, alone,
                     funded>>
  BY DEF ReadHashes, vars
<1>2. pc' # "refused"
  BY <1>1
<1>3. ASSUME Driving'
      PROVE  StateIsDue' /\ Tracked' /\ Covered'
  <2>1. /\ Driving /\ StateIsDue /\ Tracked /\ Covered
        /\ firstHashes' # <<>> /\ pc' = "query"
    BY <1>1, <1>3 DEF InStep, Driving, Alive
  <2>2. /\ session.blockHashes \in Seq(Blocks) /\ Len(session.blockHashes) \in Nat
        /\ queried = 0
    BY <1>1, SessionFacts, LenProperties DEF BattleInv, IInv, DriverInv
  <2>3. n \in Nat /\ n <= Len(session.blockHashes) /\ n <= maxHashes
    BY <2>2, MaxHashesAssumption
  <2> HIDE DEF n
  <2>4. Len(firstHashes') = n
    BY <1>1, <2>2, <2>3, FirstHashes
  <2>5. \A i \in 1 .. n : firstHashes'[i] \in ToSet(session.blockHashes)
    <3>1. \A i \in 1 .. n : i \in DOMAIN session.blockHashes
      BY <2>2, <2>3, LenProperties
    <3>2. \A i \in 1 .. n : firstHashes'[i] = session.blockHashes[i]
      BY <1>1, <2>2, <2>3, SubSeqProperties
    <3> QED
      BY <3>1, <3>2 DEF ToSet
  <2>6. AskedFor = {}
    <3>1. QueriesCounted /\ Open
      BY <2>1 DEF BattleInv, PlayInv, AliveIsOpen, Driving
    <3> QED
      BY <2>1, <2>2, <3>1, FS_EmptySet DEF QueriesCounted, Tracked
  <2>7. StateIsDue'
    BY <1>1, <2>1, <2>2 DEF StateIsDue
  <2>8. Tracked'
    <3>1. AskedFor' = {}
      BY <1>1, <2>6 DEF AskedFor
    <3> QED
      BY <1>1, <2>1, <2>2, <2>3, <2>4, <2>5, <3>1 DEF Tracked
  <2>9. Covered'
    BY <1>1, <2>1, <2>2, <2>4, <2>3 DEF Covered, CostAfter
  <2> QED
    BY <2>7, <2>8, <2>9
<1> QED
  BY <1>2, <1>3 DEF InStep, QueriesAccepted

\* The submitter responds.
LEMMA ResponseInStep ==
  ASSUME BattleInv, InStep, Response
  PROVE  InStep'
<1>1. UNCHANGED <<pc, firstHashes, queried, sameBlock, alone, funded>>
  BY DEF Response
<1>2. IInv /\ InTurn /\ DriverInv
  BY DEF BattleInv, PlayInv
<1>3. ASSUME NEW hashes \in HashLists, RespondMerkleRootHashes(hashes)
      PROVE  InStep'
  <2>0. deposit' = deposit
    BY <1>3 DEF RespondMerkleRootHashes
  <2>1. /\ session.challengeState = "QueryMerkleRootHashes"
        /\ session'.challengeState = "RespondMerkleRootHashes"
        /\ session'.countBlockHeaderQueries = session.countBlockHeaderQueries
        /\ outcome' = outcome
    BY <1>2, <1>3, HashesShown
  <2>2. ASSUME Driving
        PROVE  StateIsDue' /\ Tracked' /\ Covered'
    <3>1. StateIsDue /\ Tracked /\ Covered
      BY <2>2 DEF InStep
    <3>2. pc = "response" /\ firstHashes = <<>>
      BY <2>1, <2>2, <3>1 DEF StateIsDue, Driving
    <3> QED
      BY <1>1, <2>0, <2>1, <3>1, <3>2 DEF StateIsDue, Tracked, Covered, CostAfter
  <2> QED
    BY <1>1, <2>1, <2>2 DEF InStep, QueriesAccepted, Driving, Alive
<1>4. ASSUME NEW b \in Blocks, RespondBlockHeader(b)
      PROVE  InStep'
  <2>0. deposit' = deposit
    BY <1>4 DEF RespondBlockHeader
  <2>1. /\ session.challengeState = "QueryBlockHeader"
        /\ session'.challengeState = "VerifyScryptHash"
        /\ session'.blockHashes = session.blockHashes
        /\ session'.countBlockHeaderQueries = session.countBlockHeaderQueries
        /\ AskedFor' = AskedFor
        /\ outcome' = outcome
    BY <1>2, <1>4, HeaderShown
  <2>2. ASSUME Driving
        PROVE  StateIsDue' /\ Tracked' /\ Covered'
    <3>1. StateIsDue /\ Tracked /\ Covered
      BY <2>2 DEF InStep
    <3>2. pc = "response" /\ firstHashes # <<>>
      BY <2>1, <2>2, <3>1 DEF StateIsDue, Driving
    <3> QED
      BY <1>1, <2>0, <2>1, <3>1, <3>2 DEF StateIsDue, Tracked, Covered, CostAfter
  <2> QED
    BY <1>1, <2>1, <2>2 DEF InStep, QueriesAccepted, Driving, Alive
<1>5. ASSUME NEW id \in Ids, NEW valid \in BOOLEAN, ScryptResult(id, valid)
      PROVE  InStep'
  <2>1. session.challengeState = "PendingScryptVerification" /\ outcome' = outcome
    BY <1>5 DEF ScryptResult
  <2>2. ~Driving
    BY <2>1 DEF InStep, StateIsDue, Driving
  <2> QED
    BY <1>1, <2>1, <2>2 DEF InStep, QueriesAccepted, Driving, Alive
<1> QED
  BY <1>3, <1>4, <1>5 DEF Response, AnyScryptResult

\* What strangers and the submitter do unheard, time and blocks.
LEMMA OthersInStep ==
  ASSUME BattleInv, InStep, NewBlock \/ OwnMove \/ SilentMove \/ TimePasses \/ UNCHANGED allVars
  PROVE  InStep'
<1>1. CASE NewBlock \/ TimePasses \/ UNCHANGED allVars
  <2>1. UNCHANGED <<session, blocksInfo, outcome, deposit, pc, firstHashes, queried,
                    heard, alone, funded>>
    BY <1>1 DEF NewBlock, TimePasses, Tick, allVars, vars, driverVars
  <2> QED
    BY <2>1
    DEF InStep, QueriesAccepted, Driving, Alive, StateIsDue, Tracked, Covered,
        CostAfter, AskedFor, Repeated, NextHash
<1>2. CASE OwnMove
  BY <1>2 DEF OwnMove, InStep, QueriesAccepted, Driving
<1>3. CASE SilentMove
  <2>1. UNCHANGED driverVars
    BY <1>3 DEF SilentMove
  <2>2. ASSUME NEW id \in Ids, ScryptSubmitted(id)
        PROVE  InStep'
    <3>1. session.challengeState = "RequestScryptVerification" /\ outcome' = outcome
      BY <2>2 DEF ScryptSubmitted
    <3>2. ~Driving
      BY <3>1 DEF InStep, StateIsDue, Driving
    <3> QED
      BY <2>1, <3>1, <3>2 DEF InStep, QueriesAccepted, Driving, Alive, driverVars
  <2>3. CASE VerifySuperblock \/ Timeout
    <3>1. outcome' \in {"submitter", "challenger"}
      BY <2>3 DEF VerifySuperblock, FinalVerdict, Timeout, Convict
    <3> QED
      BY <3>1 DEF InStep, QueriesAccepted, Driving, Alive
  <2>4. CASE DepositChanges /\ deposit' > deposit
    <3>1. UNCHANGED <<session, blocksInfo, outcome>> /\ deposit' \in Nat
      BY <2>4, DepositsAssumption DEF DepositChanges
    <3>2. UNCHANGED <<pc, firstHashes, queried, heard, alone, funded>>
      BY <2>1 DEF driverVars
    <3>3. QueriesAccepted' /\ (Driving' => Driving)
      BY <3>1, <3>2 DEF InStep, QueriesAccepted, Driving, Alive
    <3>4. StateIsDue /\ Tracked => StateIsDue' /\ Tracked'
      BY <3>1, <3>2 DEF StateIsDue, Tracked, AskedFor, Repeated, NextHash
    <3>5. Covered => Covered'
      <4>1. /\ deposit \in Nat /\ respondMerkleRootHashesCost \in Nat
            /\ CostAfter(0) \in Nat /\ CostAfter(queried) \in Int
        BY CostsAssumption, OneCost DEF BattleInv, IInv, TypeOK, DriverInv
      <4>2. CostAfter(queried)' = CostAfter(queried)
        BY <3>2 DEF CostAfter
      <4> QED
        BY <2>4, <3>1, <3>2, <4>1, <4>2 DEF Covered
    <3> QED
      BY <3>3, <3>4, <3>5 DEF InStep
  <2> QED
    BY <1>3, <2>2, <2>3, <2>4 DEF SilentMove
<1> QED
  BY <1>1, <1>2, <1>3

\* However many headers the driver queries and whatever the submitter and
\* strangers do between its steps: a challenger that leaves its moves to the
\* driver is refused none while the battle lasts (queryMerkleRootHashes and
\* queryBlockHeader of tasks/battle.ts, nextResponse between them).
THEOREM QueriesAcceptedHolds == DriverSpec => []QueriesAccepted
<1>1. DriverInit => BattleInv /\ InStep
  <2>1. ASSUME DriverInit
        PROVE  DriverInv /\ InStep
    <3>1. /\ Init /\ pc = "query" /\ firstHashes = <<>> /\ queried = 0
      BY <2>1 DEF DriverInit
    <3>0. funded => deposit >= respondMerkleRootHashesCost + CostAfter(0)
      <4>1. maxHashes - 0 = maxHashes
        BY MaxHashesAssumption
      <4> QED
        BY <2>1, <4>1 DEF DriverInit, hasDeposit, CostAfter
    <3>2. /\ session.challengeState = "Challenged"
          /\ session.countBlockHeaderQueries = 0
      BY <3>1 DEF Init, Begun, Deleted
    <3> QED
      BY <3>0, <3>1, <3>2
      DEF DriverInv, InStep, QueriesAccepted, Driving, StateIsDue, Tracked, Covered
  <2> QED
    BY <2>1, InitInvariant, PlayInit DEF DriverInit, BattleInv
<1>2. BattleInv /\ InStep /\ [DriverNext]_allVars => BattleInv' /\ InStep'
  <2> SUFFICES ASSUME BattleInv, InStep, [DriverNext]_allVars
               PROVE  BattleInv' /\ InStep'
    OBVIOUS
  <2>1. BattleInv'
    BY DriverStep, DriverInvStep, Step, PlayStep DEF BattleInv
  <2>2. InStep'
    BY SendQueryInStep, IncludeQueryInStep, NextResponseInStep, ReadHashesInStep,
       ResponseInStep, OthersInStep DEF DriverNext
  <2> QED
    BY <2>1, <2>2
<1>3. InStep => QueriesAccepted
  BY DEF InStep
<1> QED
  BY <1>1, <1>2, <1>3, PTL DEF DriverSpec
=============================================================================
