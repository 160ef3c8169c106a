-------------------------- MODULE DogeBattleManager --------------------------
(***************************************************************************)
(* contracts/DogeBattleManager.sol: one battle session, in which the       *)
(* challenger of a superblock makes its submitter show the hashes and the  *)
(* headers of its blocks and defend their scrypt hashes, each party within *)
(* superblockTimeout of the other's last move, until one is convicted.     *)
(*                                                                         *)
(* Headers, hashes and proofs of work appear by what decides the battle:   *)
(* facts says which headers the submitter can answer and whether the       *)
(* headers together bear out the superblock.  ScryptClaims, which is told  *)
(* of a scrypt hash by the submitter and reports how its own game ended,   *)
(* is the environment.  The moves of the challenger are bonded from its    *)
(* deposit in SuperblockClaims, which its account also uses elsewhere; a   *)
(* submitter without the deposit that a move needs does not move.          *)
(***************************************************************************)
EXTENDS Integers, Sequences, FiniteSets, SequencesExt

CONSTANTS
  Blocks,              \* hashes of Dogecoin blocks
  NoBlock,             \* the hash 0
  HashLists,           \* lists of hashes with the Merkle root and the last
                       \* hash of the superblock
  superblockTimeout,   \* time a party has for its move
  respondMerkleRootHashesCost, respondBlockHeaderCost, queryMerkleRootHashesCost,
                       \* what the challenger bonds for a move
  Deposits             \* what its deposit may be made elsewhere

ASSUME NoBlockAssumption == NoBlock \notin Blocks
ASSUME HashListsAssumption == HashLists \subseteq Seq(Blocks) \ {<<>>}
ASSUME TimeoutAssumption == superblockTimeout \in Nat
ASSUME CostsAssumption ==
  {respondMerkleRootHashesCost, respondBlockHeaderCost,
   queryMerkleRootHashesCost} \subseteq Nat
ASSUME DepositsAssumption == Deposits \subseteq Nat

VARIABLES
  session,                     \* the BattleSession; zeros once it is deleted
  blocksInfo,                  \* block -> BlockInfoStatus
  scryptHashVerifications,     \* id of a scrypt verification -> its block
  numScryptHashVerifications,  \* the last id given
  idle,      \* block.timestamp - lastActionTimestamp, up to the first overdue
  outcome,   \* which party was convicted: the call made to SuperblockClaims
  deposit,   \* deposits of the challenger in SuperblockClaims, unbonded
  facts      \* what the blocks and the superblock are, fixed

vars == <<session, blocksInfo, scryptHashVerifications,
          numScryptHashVerifications, idle, outcome, deposit, facts>>

ChallengeState ==
  {"Unchallenged", "Challenged", "QueryMerkleRootHashes",
   "RespondMerkleRootHashes", "QueryBlockHeader", "RespondBlockHeader",
   "VerifyScryptHash", "RequestScryptVerification",
   "PendingScryptVerification", "PendingVerification", "SuperblockFailed"}

BlockInfoStatus ==
  {"Nonexistent", "Uninitialized", "Requested", "ScryptHashPending",
   "ScryptHashVerified", "ScryptHashFailed"}

BattleSession ==
  [challengeState : ChallengeState, blockHashes : Seq(Blocks),
   countBlockHeaderQueries : Nat, countBlockHeaderResponses : Nat,
   pendingScryptHashId : Nat, actionsCounter : Nat,
   lastActionClaimant : Nat, lastActionChallenger : Nat]

Deleted ==
  [challengeState |-> "Unchallenged", blockHashes |-> <<>>,
   countBlockHeaderQueries |-> 0, countBlockHeaderResponses |-> 0,
   pendingScryptHashId |-> 0, actionsCounter |-> 0,
   lastActionClaimant |-> 0, lastActionChallenger |-> 0]

Facts ==
  [answerable : SUBSET Blocks,   \* headers that pass verifyTimestamp and AuxPoW
   consistent : BOOLEAN]         \* validateLastBlocks and validateProofOfWork

verificationVars == <<scryptHashVerifications, numScryptHashVerifications>>

\* beginBattleSession.  The submitter counts as having moved last.
Begun == [Deleted EXCEPT !.challengeState = "Challenged",
                         !.lastActionClaimant = 1, !.actionsCounter = 1]

Init ==
  /\ session = Begun
  /\ blocksInfo = [b \in Blocks |-> "Nonexistent"]
  /\ scryptHashVerifications = [id \in {} |-> NoBlock]
  /\ numScryptHashVerifications = 0
  /\ idle = 0
  /\ outcome = "none"
  /\ deposit \in Deposits
  /\ facts \in Facts

-----------------------------------------------------------------------------
Overdue == idle > superblockTimeout
ChallengersTurn == session.lastActionClaimant > session.lastActionChallenger
SubmittersTurn == session.lastActionChallenger > session.lastActionClaimant

\* A move of a party: the session s as the move leaves it, with the mover's
\* number and the time of the move.
ChallengerMoves(s) ==
  LET n == s.actionsCounter + 1
  IN  /\ session' = [s EXCEPT !.actionsCounter = n, !.lastActionChallenger = n]
      /\ idle' = 0

ClaimantMoves(s) ==
  LET n == s.actionsCounter + 1
  IN  /\ session' = [s EXCEPT !.actionsCounter = n, !.lastActionClaimant = n]
      /\ idle' = 0

\* The end of a session: SuperblockClaims is told, the session deleted.
Convict(party) ==
  /\ outcome' = party
  /\ session' = Deleted
  /\ UNCHANGED <<idle, deposit, facts>>

\* The id under which a scrypt hash is verified: deleted ids read as NoBlock.
VerificationOf(id) ==
  IF id \in DOMAIN scryptHashVerifications THEN scryptHashVerifications[id]
                                           ELSE NoBlock

Recorded(id, b) ==
  [i \in DOMAIN scryptHashVerifications \cup {id} |->
     IF i = id THEN b ELSE scryptHashVerifications[i]]

\* Mutants: the final verdict is due at once; or one response too late.
StateAfterAnyResult(valid) ==
  IF ~valid THEN "SuperblockFailed" ELSE "PendingVerification"
StateAfterLateResult(valid) ==
  IF ~valid THEN "SuperblockFailed"
  ELSE IF session.countBlockHeaderResponses = Len(session.blockHashes) + 1
         THEN "PendingVerification" ELSE "RespondBlockHeader"

\* notifyScryptHashResult: the session and the statuses after a result for b.
StateAfterResult(valid) ==
  IF ~valid THEN "SuperblockFailed"
  ELSE IF session.countBlockHeaderResponses = Len(session.blockHashes)
         THEN "PendingVerification" ELSE "RespondBlockHeader"

NotifiedSession(valid) ==
  [session EXCEPT !.challengeState = StateAfterResult(valid)]

NotifiedBlocks(b, valid) ==
  [blocksInfo EXCEPT ![b] = IF valid THEN "ScryptHashVerified"
                                     ELSE "ScryptHashFailed"]

\* skipScryptHashVerification, when a hash could still be disputed: it counts
\* as verified and its id is forgotten.
Skippable ==
  /\ session.challengeState = "VerifyScryptHash"
  /\ session.pendingScryptHashId # 0
  /\ VerificationOf(session.pendingScryptHashId) # NoBlock
SkippedSession == [NotifiedSession(TRUE) EXCEPT !.pendingScryptHashId = 0]
SkippedBlocks ==
  NotifiedBlocks(VerificationOf(session.pendingScryptHashId), TRUE)
ForgetVerification ==
  scryptHashVerifications' =
    [scryptHashVerifications EXCEPT ![session.pendingScryptHashId] = NoBlock]

-----------------------------------------------------------------------------
(* Moves of the challenger.                                                *)

hasDeposit(amount) == deposit >= amount
bondDeposit(amount) == deposit' = deposit - amount

CanQueryMerkleRootHashes ==
  /\ hasDeposit(respondMerkleRootHashesCost)
  /\ session.challengeState = "Challenged"

QueryMerkleRootHashes ==
  /\ CanQueryMerkleRootHashes
  /\ bondDeposit(respondMerkleRootHashesCost)
  /\ ChallengerMoves([session EXCEPT !.challengeState = "QueryMerkleRootHashes"])
  /\ UNCHANGED <<blocksInfo, verificationVars, outcome, facts>>

\* The query of header b, on a session s and statuses info.
CanQuery(s, info, b) ==
  /\ hasDeposit(respondBlockHeaderCost)
  /\ \/ /\ s.countBlockHeaderQueries = 0
        /\ s.challengeState = "RespondMerkleRootHashes"
     \/ /\ s.countBlockHeaderQueries > 0
        /\ s.challengeState = "RespondBlockHeader"
  /\ s.countBlockHeaderQueries < Len(s.blockHashes)
  /\ info[b] = "Uninitialized"

Query(s, info, b) ==
  /\ CanQuery(s, info, b)
  /\ bondDeposit(respondBlockHeaderCost)
  /\ blocksInfo' = [info EXCEPT ![b] = "Requested"]
  /\ ChallengerMoves([s EXCEPT !.countBlockHeaderQueries = @ + 1,
                               !.challengeState = "QueryBlockHeader"])
  /\ UNCHANGED <<numScryptHashVerifications, outcome, facts>>

\* Asking for the next header passes over the scrypt hash of the last one.
CanQueryBlockHeader(b) ==
  \/ /\ session.challengeState # "VerifyScryptHash"
     /\ CanQuery(session, blocksInfo, b)
  \/ /\ Skippable
     /\ CanQuery(SkippedSession, SkippedBlocks, b)

QueryBlockHeader(b) ==
  \/ /\ session.challengeState # "VerifyScryptHash"
     /\ Query(session, blocksInfo, b)
     /\ UNCHANGED scryptHashVerifications
  \/ /\ Skippable
     /\ Query(SkippedSession, SkippedBlocks, b)
     /\ ForgetVerification

CanRequestScryptHashValidation(b) ==
  /\ hasDeposit(queryMerkleRootHashesCost)
  /\ session.challengeState = "VerifyScryptHash"
  /\ blocksInfo[b] = "ScryptHashPending"

RequestScryptHashValidation(b) ==
  /\ CanRequestScryptHashValidation(b)
  /\ bondDeposit(queryMerkleRootHashesCost)
  /\ ChallengerMoves(
       [session EXCEPT !.challengeState = "RequestScryptVerification"])
  /\ UNCHANGED <<blocksInfo, verificationVars, outcome, facts>>

-----------------------------------------------------------------------------
(* Moves of the submitter.                                                 *)

RespondMerkleRootHashes(hashes) ==
  /\ session.challengeState = "QueryMerkleRootHashes"
  /\ session.blockHashes = <<>>
  /\ blocksInfo' = [b \in Blocks |-> IF b \in ToSet(hashes) THEN "Uninitialized"
                                                          ELSE blocksInfo[b]]
  /\ ClaimantMoves(
       [session EXCEPT !.blockHashes = hashes,
                       !.challengeState = "RespondMerkleRootHashes"])
  /\ UNCHANGED <<verificationVars, outcome, deposit, facts>>

\* Mutant: numScryptHashVerifications is not advanced.
RespondBlockHeaderUncounted(b) ==
  LET id == numScryptHashVerifications + 1
  IN  /\ session.challengeState = "QueryBlockHeader"
      /\ blocksInfo[b] = "Requested"
      /\ b \in facts.answerable
      /\ blocksInfo' = [blocksInfo EXCEPT ![b] = "ScryptHashPending"]
      /\ scryptHashVerifications' = Recorded(id, b)
      /\ ClaimantMoves(
           [session EXCEPT !.countBlockHeaderResponses = @ + 1,
                           !.challengeState = "VerifyScryptHash",
                           !.pendingScryptHashId = id])
      /\ UNCHANGED <<numScryptHashVerifications, outcome, deposit, facts>>

RespondBlockHeader(b) ==
  LET id == numScryptHashVerifications + 1
  IN  /\ session.challengeState = "QueryBlockHeader"
      /\ blocksInfo[b] = "Requested"
      /\ b \in facts.answerable
      /\ blocksInfo' = [blocksInfo EXCEPT ![b] = "ScryptHashPending"]
      /\ numScryptHashVerifications' = id
      /\ scryptHashVerifications' = Recorded(id, b)
      /\ ClaimantMoves(
           [session EXCEPT !.countBlockHeaderResponses = @ + 1,
                           !.challengeState = "VerifyScryptHash",
                           !.pendingScryptHashId = id])
      /\ UNCHANGED <<outcome, deposit, facts>>

\* The submitter has put the hash to ScryptClaims, which calls back at once.
ScryptSubmitted(id) ==
  /\ session.pendingScryptHashId = id
  /\ session.challengeState = "RequestScryptVerification"
  /\ VerificationOf(id) # NoBlock
  /\ blocksInfo[VerificationOf(id)] = "ScryptHashPending"
  /\ ClaimantMoves(
       [session EXCEPT !.challengeState = "PendingScryptVerification"])
  /\ UNCHANGED <<blocksInfo, verificationVars, outcome, deposit, facts>>

-----------------------------------------------------------------------------
(* Calls by others.                                                        *)

\* scryptVerified and scryptFailed, the report of ScryptClaims; nobody moves,
\* but the challenger's time starts again.
ScryptResult(id, valid) ==
  /\ session.pendingScryptHashId = id
  /\ session.challengeState = "PendingScryptVerification"
  /\ VerificationOf(id) # NoBlock
  /\ blocksInfo[VerificationOf(id)] = "ScryptHashPending"
  /\ session' = NotifiedSession(valid)
  /\ blocksInfo' = NotifiedBlocks(VerificationOf(id), valid)
  /\ idle' = 0
  /\ UNCHANGED <<verificationVars, outcome, deposit, facts>>

\* The final verdict on the headers; anyone may ask for it.
IsFinal(state) == state \in {"SuperblockFailed", "PendingVerification"}

FinalVerdict(state) ==
  /\ IsFinal(state)
  /\ Convict(IF state = "PendingVerification" /\ facts.consistent
               THEN "challenger" ELSE "submitter")

CanVerifySuperblock ==
  \/ session.challengeState # "VerifyScryptHash" /\ IsFinal(session.challengeState)
  \/ Skippable /\ IsFinal(SkippedSession.challengeState)

VerifySuperblock ==
  \/ /\ session.challengeState # "VerifyScryptHash"
     /\ FinalVerdict(session.challengeState)
     /\ UNCHANGED <<blocksInfo, verificationVars>>
  \/ /\ Skippable
     /\ FinalVerdict(SkippedSession.challengeState)
     /\ blocksInfo' = SkippedBlocks
     /\ ForgetVerification
     /\ UNCHANGED numScryptHashVerifications

\* Mutant: only the submitter can be late.
TimeoutOfSubmitter ==
  /\ session.challengeState # "PendingScryptVerification"
  /\ \/ session.challengeState = "SuperblockFailed"
     \/ SubmittersTurn /\ Overdue
  /\ Convict("submitter")
  /\ UNCHANGED <<blocksInfo, verificationVars>>

Timeout ==
  /\ session.challengeState # "PendingScryptVerification"
  /\ \/ /\ \/ session.challengeState = "SuperblockFailed"
           \/ SubmittersTurn /\ Overdue
        /\ Convict("submitter")
     \/ /\ session.challengeState # "SuperblockFailed"
        /\ ChallengersTurn /\ Overdue
        /\ Convict("challenger")
  /\ UNCHANGED <<blocksInfo, verificationVars>>

Tick ==
  /\ outcome = "none"
  /\ ~Overdue
  /\ idle' = idle + 1
  /\ UNCHANGED <<session, blocksInfo, verificationVars, outcome, deposit, facts>>

\* The challenger deposits, withdraws, is paid or bonds for another claim.
DepositChanges ==
  /\ deposit' \in Deposits
  /\ UNCHANGED <<session, blocksInfo, verificationVars, idle, outcome, facts>>

Ids == 1 .. numScryptHashVerifications

ChallengerMove ==
  \/ QueryMerkleRootHashes
  \/ \E b \in Blocks : QueryBlockHeader(b)
  \/ \E b \in Blocks : RequestScryptHashValidation(b)

ClaimantMove ==
  \/ \E hashes \in HashLists : RespondMerkleRootHashes(hashes)
  \/ \E b \in Blocks : RespondBlockHeader(b)
  \/ \E id \in Ids : ScryptSubmitted(id)

AnyScryptResult == \E id \in Ids, valid \in BOOLEAN : ScryptResult(id, valid)

Next ==
  \/ ChallengerMove
  \/ ClaimantMove
  \/ AnyScryptResult
  \/ VerifySuperblock
  \/ Timeout
  \/ Tick
  \/ DepositChanges

Spec == Init /\ [][Next]_vars

\* Time passes, and anyone may call timeout; the party that waits will.  Nothing
\* is assumed of the moves of the parties, nor that ScryptClaims ever reports.
Fairness == WF_vars(Tick) /\ WF_vars(Timeout)

FairSpec == Spec /\ Fairness

-----------------------------------------------------------------------------
(* Properties.                                                             *)

Alive == outcome = "none"

\* The deposit covers any one move of the challenger.
CanBond ==
  \A cost \in {respondMerkleRootHashesCost, respondBlockHeaderCost,
               queryMerkleRootHashesCost} : hasDeposit(cost)

\* The session keeps its shape, and the ids of scrypt verifications are those
\* numScryptHashVerifications has counted.
TypeOK ==
  /\ session \in BattleSession
  /\ blocksInfo \in [Blocks -> BlockInfoStatus]
  /\ numScryptHashVerifications \in Nat
  /\ scryptHashVerifications \in [Ids -> Blocks \cup {NoBlock}]
  /\ idle \in 0 .. superblockTimeout + 1
  /\ outcome \in {"none", "submitter", "challenger"}
  /\ deposit \in Nat
  /\ facts \in Facts

\* A submitter loses only for being late, for a scrypt hash that failed, or
\* for headers that do not bear out the superblock; a challenger only for
\* being late, or when every header was received, no scrypt hash failed and
\* the headers bear out the superblock.  However the calls of the parties, of
\* ScryptClaims and of strangers interleave.
RightVerdict ==
  [][LET Listed(statuses) ==
           \A b \in ToSet(session.blockHashes) : blocksInfo[b] \in statuses
     IN  /\ outcome' = "submitter" =>
              \/ SubmittersTurn /\ Overdue
              \/ \E b \in Blocks : blocksInfo[b] = "ScryptHashFailed"
              \/ /\ Listed({"ScryptHashPending", "ScryptHashVerified"})
                 /\ ~facts.consistent
         /\ outcome' = "challenger" =>
              \/ ChallengersTurn /\ Overdue
              \/ /\ Listed({"ScryptHashPending", "ScryptHashVerified"})
                 /\ facts.consistent]_outcome

\* When it is the challenger's turn it has a move, or the final verdict can be
\* asked for: it never loses by a timeout it could not avoid.  This supposes
\* a deposit that covers any one move, and a list of distinct hashes, which
\* respondMerkleRootHashes does not check.
ChallengerCanMove ==
  Alive /\ ChallengersTurn /\ CanBond /\ IsInjective(session.blockHashes)
    => \/ CanQueryMerkleRootHashes
       \/ \E b \in Blocks : CanQueryBlockHeader(b)
       \/ \E b \in Blocks : CanRequestScryptHashValidation(b)
       \/ CanVerifySuperblock
       \/ session.challengeState = "PendingScryptVerification"

\* A party that stops moving at any point loses in the end, so every battle is
\* decided.  It can be held up in one state only, by a game of ScryptClaims
\* without end (GameEnds in module ScryptClaims).
BattleEnds ==
  \/ <>(outcome # "none")
  \/ <>[](session.challengeState = "PendingScryptVerification")
=============================================================================
