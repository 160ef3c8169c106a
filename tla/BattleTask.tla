------------------------------ MODULE BattleTask ------------------------------
(***************************************************************************)
(* tasks/battle.ts and the loop of tasks/superblock-cli.ts that drives it: *)
(* a challenger that queries the hashes of the superblock and the headers  *)
(* of the first few, waits for each response, and abandons the battle.     *)
(* Its account may make other moves meanwhile, or bond or withdraw the     *)
(* deposit that the queries need, and so may everybody else move.          *)
(*                                                                         *)
(* A query that would revert is refused when it is sent; one that was sent *)
(* may still revert when it is included.  Responses are looked for from    *)
(* the block after the query's on, for some time that has nothing to do    *)
(* with superblockTimeout.                                                 *)
(***************************************************************************)
EXTENDS DogeBattleManager

CONSTANTS maxHashes   \* how many headers are queried at most, 5 in the code

ASSUME MaxHashesAssumption == maxHashes \in Nat

VARIABLES
  pc,            \* the await the driver is at
  firstHashes,   \* the hashes it queries, empty until it has them
  queried,       \* how many of them it has queried
  sameBlock,     \* no block was mined after that of its last query
  heard,         \* a response to it was found
  alone,         \* the driver made every move of the challenger, and its
                 \* account used its deposit for nothing else
  funded         \* the deposit covered all the queries when the battle began

driverVars == <<pc, firstHashes, queried, sameBlock, heard, alone, funded>>
allVars == <<vars, driverVars>>

DriverInit ==
  /\ Init
  /\ pc = "query"
  /\ firstHashes = <<>>
  /\ queried = 0
  /\ sameBlock = FALSE
  /\ heard = FALSE
  /\ alone = TRUE
  /\ funded = hasDeposit(
       respondMerkleRootHashesCost + maxHashes * respondBlockHeaderCost)

-----------------------------------------------------------------------------
(* The driver.                                                             *)

NextHash == firstHashes[queried + 1]

\* queryMerkleRootHashes first, then queryBlockHeader of each hash in turn.
CanMakeNextQuery ==
  IF firstHashes = <<>> THEN CanQueryMerkleRootHashes
                        ELSE CanQueryBlockHeader(NextHash)

NextQuery ==
  IF firstHashes = <<>> THEN QueryMerkleRootHashes ELSE QueryBlockHeader(NextHash)

\* The driver refuses by itself to query a header again.
Repeated == \E i \in 1 .. queried : firstHashes[i] = NextHash

SendQuery ==
  /\ pc = "query"
  /\ pc' = IF Repeated THEN "repeated"
           ELSE IF CanMakeNextQuery THEN "receipt" ELSE "refused"
  /\ UNCHANGED <<vars, firstHashes, queried, sameBlock, heard, alone, funded>>

IncludeQuery ==
  /\ pc = "receipt"
  /\ \/ /\ NextQuery
        /\ pc' = "response"
        /\ queried' = IF firstHashes = <<>> THEN 0 ELSE queried + 1
        /\ sameBlock' = TRUE
        /\ heard' = FALSE
     \/ /\ ~CanMakeNextQuery
        /\ pc' = "refused"
        /\ UNCHANGED <<vars, queried, sameBlock, heard>>
  /\ UNCHANGED <<firstHashes, alone, funded>>

\* What follows a response: the list of hashes is read, or the next is queried.
AfterResponse ==
  IF firstHashes = <<>> THEN "hashes"
  ELSE IF queried < Len(firstHashes) THEN "query" ELSE "abandoned"

\* Mutant: the response is not awaited.
NextResponseAtOnce ==
  /\ pc = "response"
  /\ pc' = AfterResponse
  /\ UNCHANGED <<vars, firstHashes, queried, sameBlock, heard, alone, funded>>

\* nextResponse finds a response, or gives up: the time runs out, be the
\* response there or not.
NextResponse ==
  /\ pc = "response"
  /\ \/ heard /\ pc' = AfterResponse
     \/ pc' = "timedOut"
  /\ UNCHANGED <<vars, firstHashes, queried, sameBlock, heard, alone, funded>>

\* getBlockHashes: an ended session has none.
ReadHashes ==
  /\ pc = "hashes"
  /\ firstHashes' = SubSeq(session.blockHashes, 1,
                      IF Len(session.blockHashes) < maxHashes
                        THEN Len(session.blockHashes) ELSE maxHashes)
  /\ pc' = IF firstHashes' = <<>> THEN "abandoned" ELSE "query"
  /\ UNCHANGED <<vars, queried, sameBlock, heard, alone, funded>>

-----------------------------------------------------------------------------
(* The others.                                                             *)

NewBlock == sameBlock /\ sameBlock' = FALSE
              /\ UNCHANGED <<vars, pc, firstHashes, queried, heard, alone, funded>>

\* A response in the block of the query is not found.
Response ==
  /\ \/ \E hashes \in HashLists : RespondMerkleRootHashes(hashes)
     \/ \E b \in Blocks : RespondBlockHeader(b)
     \/ AnyScryptResult
  /\ heard' = (heard \/ (pc = "response" /\ ~sameBlock))
  /\ UNCHANGED <<pc, firstHashes, queried, sameBlock, alone, funded>>

OwnMove ==
  /\ ChallengerMove \/ (DepositChanges /\ deposit' < deposit)
  /\ alone' = FALSE
  /\ UNCHANGED <<pc, firstHashes, queried, sameBlock, heard, funded>>

SilentMove ==
  /\ \/ \E id \in Ids : ScryptSubmitted(id)
     \/ VerifySuperblock
     \/ Timeout
     \/ DepositChanges /\ deposit' > deposit
  /\ UNCHANGED driverVars

TimePasses ==
  /\ Tick
  /\ sameBlock' = FALSE
  /\ UNCHANGED <<pc, firstHashes, queried, heard, alone, funded>>

DriverNext ==
  \/ SendQuery
  \/ IncludeQuery
  \/ NextResponse
  \/ ReadHashes
  \/ NewBlock
  \/ Response
  \/ OwnMove
  \/ SilentMove
  \/ TimePasses

\* The driver may stop at any point.
DriverSpec == DriverInit /\ [][DriverNext]_allVars /\ Fairness

-----------------------------------------------------------------------------
(* Properties.                                                             *)

\* A challenger that leaves its moves to the driver is never refused one while
\* the battle lasts: each response that the driver hears is the one to its
\* query, and leaves the session in a state where its next query is accepted,
\* although the scrypt hash of the header just answered is still open then.
\* This supposes a deposit that covers all its queries when the battle begins:
\* the task deposits before the challenge and never again, and each query bonds
\* some of it.
QueriesAccepted ==
  alone /\ funded /\ outcome = "none" => pc # "refused"
=============================================================================
