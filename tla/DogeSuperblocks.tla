--------------------------- MODULE DogeSuperblocks ---------------------------
(***************************************************************************)
(* contracts/DogeSuperblocks.sol: the tree of superblocks kept on          *)
(* Ethereum, their status transitions, the heaviest approved superblock    *)
(* and the skip list by which the main chain is read.                      *)
(*                                                                         *)
(* A superblock's id is the hash of its data, its parent and its           *)
(* accumulated work among them.  Here an id is a value of Superblocks      *)
(* whose data is chosen when it is registered, which happens at most once  *)
(* per id.  Every status transition is reserved to the SuperblockClaims    *)
(* contract; this module lets that contract call any of them at any time.  *)
(***************************************************************************)
EXTENDS Integers

CONSTANTS
  Superblocks,        \* superblock ids
  NoSuperblock,       \* the id 0, which is never registered
  Works,              \* the values accumulatedWork takes
  AncestorStep,       \* ANCESTOR_STEP, 5 in the contract
  NumAncestorDepths   \* NUM_ANCESTOR_DEPTHS, 8 in the contract

ASSUME NoSuperblockAssumption == NoSuperblock \notin Superblocks
ASSUME WorksAssumption == Works \subseteq Nat
ASSUME AncestorStepAssumption == AncestorStep \in Nat /\ AncestorStep > 1
ASSUME NumAncestorDepthsAssumption ==
  NumAncestorDepths \in Nat /\ NumAncestorDepths > 0

VARIABLES
  superblocks,                  \* id -> data of the superblock
  indexSuperblock,              \* index -> id, indexes in registration order
  indexNextSuperblock,          \* the next free index
  bestSuperblock,               \* the approved superblock with the most work
  bestSuperblockAccumulatedWork

vars == <<superblocks, indexSuperblock, indexNextSuperblock, bestSuperblock,
          bestSuperblockAccumulatedWork>>
indexVars == <<indexSuperblock, indexNextSuperblock>>
bestVars == <<bestSuperblock, bestSuperblockAccumulatedWork>>

Ids == Superblocks \cup {NoSuperblock}
Depths == 0 .. NumAncestorDepths - 1
Status == {"Uninitialized", "New", "InBattle", "SemiApproved", "Approved",
           "Invalid"}

SuperblockInfo ==
  [status : Status, parentId : Ids, accumulatedWork : Nat, index : Nat,
   height : Nat, ancestors : [Depths -> Nat]]

Blank == [status |-> "Uninitialized", parentId |-> NoSuperblock,
          accumulatedWork |-> 0, index |-> 0, height |-> 0,
          ancestors |-> [i \in Depths |-> 0]]

StatusOf(b) == superblocks[b].status
ParentOf(b) == superblocks[b].parentId
WorkOf(b) == superblocks[b].accumulatedWork
HeightOf(b) == superblocks[b].height
Registered == {b \in Superblocks : StatusOf(b) # "Uninitialized"}
Approved == {b \in Superblocks : StatusOf(b) = "Approved"}

-----------------------------------------------------------------------------
(* The skip list.  The ancestors word of a superblock holds one index per  *)
(* depth: its slot i names an ancestor up to getAncDepth[i] below it.      *)

\* The powers of AncestorStep.
getAncDepth[i \in Nat] == IF i = 0 THEN 1 ELSE AncestorStep * getAncDepth[i - 1]

\* Mutant: the parent taken on the wrong heights.
updateAncestorsOffByOne(ancestors, index, height) ==
  [i \in Depths |->
     IF \A j \in 1 .. i : height % getAncDepth[j] = 0 THEN index
                                                         ELSE ancestors[i]]

\* Slot 0 takes the parent; slot i takes it when the parent's height is 1
\* modulo getAncDepth[i] and the slots below it took it too.
updateAncestors(ancestors, index, height) ==
  [i \in Depths |->
     IF \A j \in 1 .. i : height % getAncDepth[j] = 1 THEN index
                                                         ELSE ancestors[i]]

getSuperblockAncestor(b, i) == indexSuperblock[superblocks[b].ancestors[i]]

\* The walk down from the best superblock: at b, with depths up to i left,
\* take the deepest jump that does not pass below the height asked for.
getSuperblockAt(height) ==
  LET jump(b, i) ==
        CHOOSE k \in 0 .. i :
          /\ k = 0 \/ HeightOf(b) - height >= getAncDepth[k]
          /\ \A j \in k + 1 .. i : HeightOf(b) - height < getAncDepth[j]
      walk[b \in Ids] ==
        [i \in Depths |->
           IF HeightOf(b) <= height THEN b
           ELSE walk[getSuperblockAncestor(b, jump(b, i))][jump(b, i)]]
  IN  walk[bestSuperblock][NumAncestorDepths - 1]

inMainChain(b) == HeightOf(b) # 0 /\ getSuperblockAt(HeightOf(b)) = b

isApproved(b) == StatusOf(b) = "Approved"

getChainHeight == HeightOf(bestSuperblock)

\* The locator an agent starts from: the best superblock, then the id behind
\* each slot of its ancestors.
getSuperblockLocator ==
  [i \in 0 .. NumAncestorDepths |->
     IF i = 0 THEN bestSuperblock
              ELSE getSuperblockAncestor(bestSuperblock, i - 1)]

-----------------------------------------------------------------------------
Init ==
  /\ superblocks = [b \in Ids |-> Blank]
  /\ indexSuperblock = [i \in {} |-> NoSuperblock]
  /\ indexNextSuperblock = 0
  /\ bestSuperblock = NoSuperblock
  /\ bestSuperblockAccumulatedWork = 0

\* Mutant: the next free index is not advanced.
RegisterUncounted(b, info) ==
  /\ StatusOf(b) = "Uninitialized"
  /\ superblocks' = [superblocks EXCEPT ![b] = info]
  /\ indexSuperblock' = [i \in 0 .. indexNextSuperblock |->
                           IF i = indexNextSuperblock THEN b
                                                      ELSE indexSuperblock[i]]
  /\ UNCHANGED indexNextSuperblock

\* The data of b is written once, under the next free index.
Register(b, info) ==
  /\ StatusOf(b) = "Uninitialized"
  /\ superblocks' = [superblocks EXCEPT ![b] = info]
  /\ indexSuperblock' = [i \in 0 .. indexNextSuperblock |->
                           IF i = indexNextSuperblock THEN b
                                                      ELSE indexSuperblock[i]]
  /\ indexNextSuperblock' = indexNextSuperblock + 1

\* The genesis superblock is approved at once.
Initialize(b, work) ==
  /\ bestSuperblock = NoSuperblock
  /\ Register(b, [status |-> "Approved", parentId |-> NoSuperblock,
                  accumulatedWork |-> work, index |-> indexNextSuperblock,
                  height |-> 1, ancestors |-> [i \in Depths |-> 0]])
  /\ bestSuperblock' = b
  /\ bestSuperblockAccumulatedWork' = work

Propose(b, parent, work) ==
  /\ StatusOf(parent) \in {"SemiApproved", "Approved"}
  /\ Register(b, [status |-> "New", parentId |-> parent,
                  accumulatedWork |-> work, index |-> indexNextSuperblock,
                  height |-> HeightOf(parent) + 1,
                  ancestors |-> updateAncestors(superblocks[parent].ancestors,
                                                superblocks[parent].index,
                                                HeightOf(parent))])
  /\ UNCHANGED bestVars

\* Mutants: the parent not looked at; the work not compared.
ConfirmAllOrphans(S) ==
  /\ \A b \in S : StatusOf(b) \in {"New", "SemiApproved"}
  /\ superblocks' = [b \in Ids |-> IF b \in S
                       THEN [superblocks[b] EXCEPT !.status = "Approved"]
                       ELSE superblocks[b]]
  /\ UNCHANGED <<indexVars, bestVars>>

ConfirmAllAlways(S) ==
  /\ \A b \in S : /\ StatusOf(b) \in {"New", "SemiApproved"}
                  /\ ParentOf(b) \in S \/ StatusOf(ParentOf(b)) = "Approved"
  /\ superblocks' = [b \in Ids |-> IF b \in S
                       THEN [superblocks[b] EXCEPT !.status = "Approved"]
                       ELSE superblocks[b]]
  /\ \E b \in S : /\ bestSuperblock' = b
                  /\ bestSuperblockAccumulatedWork' = WorkOf(b)
  /\ UNCHANGED indexVars

\* confirm() of every superblock of S, parents first, within one transaction.
\* The best superblock moves only to strictly more work, so of several with
\* the same work it stops at the lowest.
ConfirmAll(S) ==
  /\ \A b \in S : /\ StatusOf(b) \in {"New", "SemiApproved"}
                  /\ ParentOf(b) \in S \/ StatusOf(ParentOf(b)) = "Approved"
  /\ superblocks' = [b \in Ids |-> IF b \in S
                       THEN [superblocks[b] EXCEPT !.status = "Approved"]
                       ELSE superblocks[b]]
  /\ \/ /\ \A b \in S : WorkOf(b) <= bestSuperblockAccumulatedWork
        /\ UNCHANGED bestVars
     \/ \E b \in S :
          /\ WorkOf(b) > bestSuperblockAccumulatedWork
          /\ \A c \in S : \/ WorkOf(c) < WorkOf(b)
                          \/ WorkOf(c) = WorkOf(b) /\ HeightOf(b) <= HeightOf(c)
          /\ bestSuperblock' = b
          /\ bestSuperblockAccumulatedWork' = WorkOf(b)
  /\ UNCHANGED indexVars

Confirm(b) == ConfirmAll({b})

SetStatus(b, status) ==
  /\ superblocks' = [superblocks EXCEPT ![b].status = status]
  /\ UNCHANGED <<indexVars, bestVars>>

\* Mutant: any registered superblock can be challenged.
ChallengeDecided(b) ==
  /\ StatusOf(b) # "Uninitialized"
  /\ SetStatus(b, "InBattle")

Challenge(b) ==
  /\ StatusOf(b) \in {"New", "InBattle"}
  /\ SetStatus(b, "InBattle")

SemiApprove(b) ==
  /\ StatusOf(b) \in {"InBattle", "New"}
  /\ SetStatus(b, "SemiApproved")

\* Mutant: one in battle cannot be invalidated.
InvalidateSemiApproved(b) ==
  /\ StatusOf(b) = "SemiApproved"
  /\ SetStatus(b, "Invalid")

Invalidate(b) ==
  /\ StatusOf(b) \in {"InBattle", "SemiApproved"}
  /\ SetStatus(b, "Invalid")

\* The superblocks above a, up to d, and a itself: a path of the tree.
IsPath(S) ==
  \E top \in S : \A b \in S : /\ HeightOf(b) <= HeightOf(top)
                              /\ b # top => \E c \in S : ParentOf(c) = b

\* SuperblockClaims confirms a superblock alone or with a run of descendants.
ConfirmPath ==
  \E S \in SUBSET Superblocks : S # {} /\ ConfirmAll(S) /\ IsPath(S)

Next ==
  \/ \E b \in Superblocks, w \in Works : Initialize(b, w)
  \/ \E b, p \in Superblocks, w \in Works : Propose(b, p, w)
  \/ ConfirmPath
  \/ \E b \in Superblocks : Challenge(b)
  \/ \E b \in Superblocks : SemiApprove(b)
  \/ \E b \in Superblocks : Invalidate(b)

Spec == Init /\ [][Next]_vars

-----------------------------------------------------------------------------
(* Properties                                                              *)

\* Every stored value has its type; indexes and superblocks correspond.
TypeOK ==
  /\ superblocks \in [Ids -> SuperblockInfo]
  /\ indexNextSuperblock \in Nat
  /\ indexSuperblock \in [0 .. indexNextSuperblock - 1 -> Superblocks]
  /\ bestSuperblock \in Ids
  /\ bestSuperblockAccumulatedWork \in Nat

\* A superblock is approved only on top of approved superblocks, down to the
\* genesis: the approved superblocks are closed under parents.  confirm() looks
\* at the parent only when it is called and nothing takes an approval back.
ApprovedClosed ==
  \A b \in Approved : ParentOf(b) # NoSuperblock => ParentOf(b) \in Approved

\* The best superblock, from which transactions are verified and rejections are
\* judged, is approved and no approved superblock has more work; it is missing
\* exactly while nothing is approved.
BestIsHeaviest ==
  /\ bestSuperblock # NoSuperblock <=> Approved # {}
  /\ bestSuperblock # NoSuperblock => bestSuperblock \in Approved
  /\ bestSuperblockAccumulatedWork = WorkOf(bestSuperblock)
  /\ \A b \in Approved : WorkOf(b) <= bestSuperblockAccumulatedWork

\* The ancestor of b at a height, by its parents alone.
AncestorAt(b, height) ==
  LET up[c \in Ids] == IF HeightOf(c) <= height \/ c = NoSuperblock
                         THEN c ELSE up[ParentOf(c)]
  IN  up[b]

\* getSuperblockAt, which jumps by the skip list, finds what a walk over the
\* parents of the best superblock finds.
MainChainSound ==
  \A h \in 1 .. getChainHeight :
    getSuperblockAt(h) = AncestorAt(bestSuperblock, h)

\* The locator is what its comment says: the best superblock, then, with n the
\* number of superblocks below the best one, those at distance n-1 from the
\* genesis, (n-1) - (n-1) % step, (n-1) - (n-1) % step^2, ...
LocatorAsDocumented ==
  LET n == getChainHeight - 1
  IN  n > 0 =>
        /\ getSuperblockLocator[0] = bestSuperblock
        /\ \A i \in Depths :
             getSuperblockLocator[i + 1] =
               AncestorAt(bestSuperblock,
                          (n - 1) - ((n - 1) % getAncDepth[i]) + 1)

\* The skip list serves those who use it, on every fork and whatever the order
\* in which forks are registered: inMainChain holds of exactly the best
\* superblock and its ancestors, and agents get the locator they are promised.
SkipListServes == MainChainSound /\ LocatorAsDocumented

\* No call changes the verdict on a superblock once it is approved or invalid,
\* nor anything but the status of a registered superblock: what was verified
\* against one stays true of it.
VerdictsAreFinal ==
  [][\A b \in Registered :
       /\ StatusOf(b) \in {"Approved", "Invalid"} =>
            StatusOf(b)' = StatusOf(b)
       /\ superblocks'[b] = [superblocks[b] EXCEPT !.status = StatusOf(b)']
    ]_vars

\* The main chain is left for another fork only for strictly more work, so no
\* sequence of confirmations brings an old best superblock back.
BestOnlyImproves ==
  [][bestSuperblock' # bestSuperblock /\ bestSuperblock # NoSuperblock
       => WorkOf(bestSuperblock') > WorkOf(bestSuperblock)]_vars

\* The verdict of the tree that a status stands for.
VerdictOf(status) ==
  CASE status = "Uninitialized" -> "none"
    [] status = "Approved" -> "accepted"
    [] status = "Invalid" -> "rejected"
    [] OTHER -> "pending"

Tree == INSTANCE SuperblockTree WITH
  verdict <- [b \in Ids |-> VerdictOf(StatusOf(b))],
  parent <- [b \in Ids |-> ParentOf(b)],
  work <- [b \in Ids |-> WorkOf(b)],
  head <- bestSuperblock

\* The contract implements the tree of final verdicts: challenges and
\* semi-approvals leave it as it is, and the comparison with a remembered
\* accumulated work picks a head that is heaviest in the tree.
TreeSpec == Tree!Spec
=============================================================================
