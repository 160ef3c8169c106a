------------------------ MODULE DogeSuperblocks_proofs ------------------------
(***************************************************************************)
(* Proofs about DogeSuperblocks, for any number of superblocks, any works  *)
(* and any shape of the skip list.                                         *)
(***************************************************************************)
EXTENDS DogeSuperblocks, SumLemmas, TLAPS

\* The id 0 is never registered, so reading its data gives zeros.
NullIsBlank == superblocks[NoSuperblock] = Blank

\* Nothing is registered before the genesis, which is approved.
GenesisFirst == Approved = {} => Registered = {}

\* The parents of a registered superblock are registered, down to the genesis,
\* and its height counts them.
Rooted ==
  \A b \in Registered :
    /\ ParentOf(b) \in Registered \cup {NoSuperblock}
    /\ HeightOf(b) = HeightOf(ParentOf(b)) + 1

\* The inductive invariant.
IInv == /\ TypeOK /\ NullIsBlank /\ GenesisFirst /\ Rooted
        /\ ApprovedClosed /\ BestIsHeaviest

USE NoSuperblockAssumption, WorksAssumption, AncestorStepAssumption,
    NumAncestorDepthsAssumption

-----------------------------------------------------------------------------
\* Changing the status of a superblock keeps the rest of its data.
LEMMA StatusUpdate ==
  ASSUME NEW r \in SuperblockInfo, NEW s \in Status
  PROVE  LET q == [r EXCEPT !.status = s]
         IN  /\ q \in SuperblockInfo
             /\ q.status = s
             /\ q.parentId = r.parentId
             /\ q.accumulatedWork = r.accumulatedWork
             /\ q.height = r.height
             /\ q.index = r.index
             /\ q.ancestors = r.ancestors
<1> DEFINE q == [r EXCEPT !.status = s]
<1>1. q \in SuperblockInfo
  BY DEF SuperblockInfo
<1>2. q.status = s /\ q.parentId = r.parentId
  BY DEF SuperblockInfo
<1>3. q.accumulatedWork = r.accumulatedWork /\ q.height = r.height
  BY DEF SuperblockInfo
<1>4. q.index = r.index /\ q.ancestors = r.ancestors
  BY DEF SuperblockInfo
<1> QED
  BY <1>1, <1>2, <1>3, <1>4

\* The ancestors word of a child is a word of indexes.
LEMMA UpdateAncestorsType ==
  ASSUME NEW anc \in [Depths -> Nat], NEW index \in Nat, NEW height \in Nat
  PROVE  updateAncestors(anc, index, height) \in [Depths -> Nat]
BY DEF updateAncestors

\* Registering a superblock keeps the types.
LEMMA RegisterType ==
  ASSUME TypeOK, NEW b \in Superblocks, NEW info \in SuperblockInfo,
         Register(b, info)
  PROVE  /\ superblocks' \in [Ids -> SuperblockInfo]
         /\ indexNextSuperblock' \in Nat
         /\ indexSuperblock' \in [0 .. indexNextSuperblock' - 1 -> Superblocks]
BY DEF TypeOK, Register, Ids

\* Types are preserved by every action.
LEMMA TypeStep ==
  ASSUME TypeOK, [Next]_vars
  PROVE  TypeOK'
<1>1. CASE UNCHANGED vars
  BY <1>1 DEF TypeOK, vars
<1>2. ASSUME NEW b \in Superblocks, NEW w \in Works, Initialize(b, w)
      PROVE  TypeOK'
  <2> DEFINE info == [status |-> "Approved", parentId |-> NoSuperblock,
                  accumulatedWork |-> w, index |-> indexNextSuperblock,
                  height |-> 1, ancestors |-> [i \in Depths |-> 0]]
  <2>1. info \in SuperblockInfo
    BY DEF SuperblockInfo, TypeOK, Status, Ids
  <2>2. Register(b, info)
    BY <1>2 DEF Initialize
  <2>3. w \in Nat /\ b \in Ids
    BY DEF Ids
  <2> QED
    BY <1>2, <2>1, <2>2, <2>3, RegisterType DEF Initialize, TypeOK
<1>3. ASSUME NEW b \in Superblocks, NEW p \in Superblocks, NEW w \in Works,
             Propose(b, p, w)
      PROVE  TypeOK'
  <2> DEFINE anc == updateAncestors(superblocks[p].ancestors,
                                    superblocks[p].index, HeightOf(p))
  <2> DEFINE info == [status |-> "New", parentId |-> p,
                  accumulatedWork |-> w, index |-> indexNextSuperblock,
                  height |-> HeightOf(p) + 1, ancestors |-> anc]
  <2>1. superblocks[p] \in SuperblockInfo
    BY DEF TypeOK, Ids
  <2>2. anc \in [Depths -> Nat]
    BY <2>1, UpdateAncestorsType DEF SuperblockInfo, HeightOf
  <2>3. HeightOf(p) + 1 \in Nat
    BY <2>1 DEF SuperblockInfo, HeightOf
  <2>4. info \in SuperblockInfo
    <3> HIDE DEF anc
    <3> QED BY <2>2, <2>3 DEF SuperblockInfo, TypeOK, Status, Ids
  <2>5. Register(b, info)
    BY <1>3 DEF Propose
  <2>6. UNCHANGED bestVars
    BY <1>3 DEF Propose
  <2> HIDE DEF info
  <2> QED
    BY <2>4, <2>5, <2>6, RegisterType DEF TypeOK, bestVars
<1>4. ASSUME NEW S \in SUBSET Superblocks, ConfirmAll(S)
      PROVE  TypeOK'
  <2>1. superblocks' \in [Ids -> SuperblockInfo]
    <3>1. superblocks' = [b \in Ids |-> IF b \in S
                       THEN [superblocks[b] EXCEPT !.status = "Approved"]
                       ELSE superblocks[b]]
      BY <1>4 DEF ConfirmAll
    <3>2. ASSUME NEW b \in Ids
          PROVE  [superblocks[b] EXCEPT !.status = "Approved"] \in SuperblockInfo
      <4>1. superblocks[b] \in SuperblockInfo /\ "Approved" \in Status
        BY DEF TypeOK, Status
      <4> QED
        BY <4>1, StatusUpdate
    <3> QED
      BY <3>1, <3>2 DEF TypeOK
  <2>2. bestSuperblock' \in Ids /\ bestSuperblockAccumulatedWork' \in Nat
    <3>1. \A b \in S : b \in Ids /\ WorkOf(b) \in Nat
      BY DEF TypeOK, SuperblockInfo, Ids, WorkOf
    <3> QED
      BY <1>4, <3>1 DEF ConfirmAll, TypeOK, bestVars
  <2> QED
    BY <1>4, <2>1, <2>2 DEF ConfirmAll, TypeOK, indexVars
<1>5. ASSUME NEW b \in Superblocks, NEW s \in Status, SetStatus(b, s)
      PROVE  TypeOK'
  <2>1. [superblocks[b] EXCEPT !.status = s] \in SuperblockInfo
    <3>1. superblocks[b] \in SuperblockInfo
      BY DEF TypeOK, Ids
    <3> QED
      BY <3>1, StatusUpdate
  <2> QED
    BY <1>5, <2>1 DEF SetStatus, TypeOK, indexVars, bestVars, Ids
<1>6. {"InBattle", "SemiApproved", "Invalid"} \subseteq Status
  BY DEF Status
<1> QED
  BY <1>1, <1>2, <1>3, <1>4, <1>5, <1>6
  DEF Next, ConfirmPath, Challenge, SemiApprove, Invalidate

-----------------------------------------------------------------------------
\* What registering b does to the data of every superblock.
LEMMA RegisterEffect ==
  ASSUME TypeOK, NEW b \in Superblocks, NEW info, Register(b, info)
  PROVE  /\ superblocks'[b] = info
         /\ \A c \in Ids : c # b => superblocks'[c] = superblocks[c]
BY DEF TypeOK, Register, Ids

\* What confirming the superblocks of S does to the data of every superblock.
LEMMA ConfirmEffect ==
  ASSUME TypeOK, NEW S \in SUBSET Superblocks, ConfirmAll(S)
  PROVE  /\ \A c \in S : StatusOf(c)' = "Approved"
         /\ \A c \in Ids \ S : superblocks'[c] = superblocks[c]
         /\ \A c \in Ids : /\ ParentOf(c)' = ParentOf(c)
                           /\ WorkOf(c)' = WorkOf(c)
                           /\ HeightOf(c)' = HeightOf(c)
                           /\ superblocks'[c] =
                                [superblocks[c] EXCEPT !.status = StatusOf(c)']
<1>1. \A c \in Ids : superblocks'[c] =
        IF c \in S THEN [superblocks[c] EXCEPT !.status = "Approved"]
                   ELSE superblocks[c]
  BY DEF ConfirmAll
<1>2. ASSUME NEW c \in Ids
      PROVE  LET q == [superblocks[c] EXCEPT !.status = "Approved"]
             IN  /\ q.status = "Approved"
                 /\ q.parentId = superblocks[c].parentId
                 /\ q.accumulatedWork = superblocks[c].accumulatedWork
                 /\ q.height = superblocks[c].height
  <2>1. superblocks[c] \in SuperblockInfo /\ "Approved" \in Status
    BY DEF TypeOK, Status
  <2> QED
    BY <2>1, StatusUpdate
<1>3. ASSUME NEW c \in Ids
      PROVE  superblocks[c] = [superblocks[c] EXCEPT !.status = StatusOf(c)]
  <2>1. superblocks[c] \in SuperblockInfo
    BY DEF TypeOK
  <2> QED
    BY <2>1 DEF SuperblockInfo, StatusOf
<1>4. ASSUME NEW c \in S
      PROVE  c \in Ids
  BY DEF Ids
<1> QED
  BY <1>1, <1>2, <1>3, <1>4 DEF StatusOf, ParentOf, WorkOf, HeightOf

\* What a status change does to the data of every superblock.
LEMMA SetStatusEffect ==
  ASSUME TypeOK, NEW b \in Superblocks, NEW s \in Status, SetStatus(b, s)
  PROVE  /\ StatusOf(b)' = s
         /\ \A c \in Ids : c # b => superblocks'[c] = superblocks[c]
         /\ \A c \in Ids : /\ ParentOf(c)' = ParentOf(c)
                           /\ WorkOf(c)' = WorkOf(c)
                           /\ HeightOf(c)' = HeightOf(c)
                           /\ superblocks'[c] =
                                [superblocks[c] EXCEPT !.status = StatusOf(c)']
         /\ UNCHANGED bestVars
<1>1. b \in Ids
  BY DEF Ids
<1>2. \A c \in Ids : superblocks[c] \in SuperblockInfo
  BY DEF TypeOK
<1>3. /\ superblocks'[b] = [superblocks[b] EXCEPT !.status = s]
      /\ \A c \in Ids : c # b => superblocks'[c] = superblocks[c]
      /\ UNCHANGED bestVars
  BY <1>1 DEF SetStatus, TypeOK
<1>4. LET q == [superblocks[b] EXCEPT !.status = s]
      IN  /\ q.status = s
          /\ q.parentId = superblocks[b].parentId
          /\ q.accumulatedWork = superblocks[b].accumulatedWork
          /\ q.height = superblocks[b].height
  BY <1>1, <1>2, StatusUpdate
<1>5. ASSUME NEW c \in Ids
      PROVE  superblocks[c] = [superblocks[c] EXCEPT !.status = StatusOf(c)]
  BY <1>2 DEF SuperblockInfo, StatusOf
<1> QED
  BY <1>1, <1>3, <1>4, <1>5 DEF StatusOf, ParentOf, WorkOf, HeightOf

-----------------------------------------------------------------------------
\* The inductive invariant holds initially.
LEMMA InitIInv == Init => IInv
<1> SUFFICES ASSUME Init PROVE IInv
  OBVIOUS
<1>1. Blank \in SuperblockInfo
  BY DEF Blank, SuperblockInfo, Status, Ids
<1>2. /\ superblocks = [b \in Ids |-> Blank]
      /\ indexNextSuperblock = 0
      /\ bestSuperblock = NoSuperblock
      /\ bestSuperblockAccumulatedWork = 0
      /\ indexSuperblock = [i \in {} |-> NoSuperblock]
  BY DEF Init
<1>3. 0 .. 0 - 1 = {}
  OBVIOUS
<1>4. TypeOK
  <2>1. indexSuperblock \in [0 .. indexNextSuperblock - 1 -> Superblocks]
    BY <1>2, <1>3
  <2> QED
    BY <1>1, <1>2, <2>1 DEF TypeOK, Ids
<1>5. \A b \in Ids : superblocks[b] = Blank
  BY <1>2
<1>6. NullIsBlank /\ Approved = {} /\ Registered = {} /\ WorkOf(NoSuperblock) = 0
  BY <1>5 DEF NullIsBlank, Blank, Ids, Approved, Registered, StatusOf, WorkOf
<1> QED
  BY <1>2, <1>4, <1>6 DEF IInv, GenesisFirst, Rooted, ApprovedClosed,
                          BestIsHeaviest

\* The tree stays as it is when parents, heights and what is registered do.
LEMMA RootedKept ==
  ASSUME IInv, Registered' = Registered,
         \A c \in Ids : ParentOf(c)' = ParentOf(c) /\ HeightOf(c)' = HeightOf(c)
  PROVE  Rooted'
<1> SUFFICES ASSUME NEW c \in Registered
             PROVE  /\ ParentOf(c)' \in Registered \cup {NoSuperblock}
                    /\ HeightOf(c)' = HeightOf(ParentOf(c))' + 1
  BY DEF Rooted
<1>1. c \in Ids /\ ParentOf(c) \in Ids /\ ParentOf(c)' = ParentOf(c)
  BY DEF Registered, Ids, IInv, Rooted
<1>2. HeightOf(ParentOf(c))' = HeightOf(ParentOf(c))
  BY <1>1 DEF HeightOf, ParentOf
<1> QED
  BY <1>1, <1>2 DEF IInv, Rooted

\* A registration of an approved superblock without parent, when nothing is
\* approved yet.
LEMMA InitializeStep ==
  ASSUME IInv, TypeOK', NEW b \in Superblocks, NEW w \in Works, Initialize(b, w)
  PROVE  IInv'
<1> DEFINE info == [status |-> "Approved", parentId |-> NoSuperblock,
                  accumulatedWork |-> w, index |-> indexNextSuperblock,
                  height |-> 1, ancestors |-> [i \in Depths |-> 0]]
<1>1. Register(b, info)
  BY DEF Initialize
<1>2. /\ superblocks'[b] = info
      /\ \A c \in Ids : c # b => superblocks'[c] = superblocks[c]
  BY <1>1, RegisterEffect DEF IInv
<1>3. Approved = {} /\ b # NoSuperblock
  BY DEF IInv, BestIsHeaviest, Initialize
<1>4. Approved' = {b}
  BY <1>2, <1>3 DEF Approved, StatusOf, Ids
<1>5. ParentOf(b)' = NoSuperblock /\ WorkOf(b)' = w /\ w \in Nat
  BY <1>2 DEF ParentOf, WorkOf
<1>6. NullIsBlank'
  BY <1>2, <1>3 DEF NullIsBlank, IInv, Ids
<1>7. ApprovedClosed'
  BY <1>4, <1>5 DEF ApprovedClosed
<1>8. bestSuperblock' = b /\ bestSuperblockAccumulatedWork' = w
  BY DEF Initialize
<1>9. BestIsHeaviest'
  BY <1>3, <1>4, <1>5, <1>8 DEF BestIsHeaviest
<1>10. Rooted'
  <2>1. Registered' = {b}
    BY <1>2, <1>3 DEF IInv, GenesisFirst, Registered, StatusOf, Ids
  <2>2. HeightOf(b)' = 1 /\ HeightOf(NoSuperblock)' = 0
    BY <1>2, <1>6 DEF HeightOf, NullIsBlank, Blank
  <2> QED
    BY <1>5, <2>1, <2>2 DEF Rooted
<1> QED
  BY <1>4, <1>6, <1>7, <1>9, <1>10 DEF IInv, GenesisFirst

\* A proposal approves nothing, and touches no registered superblock.
LEMMA ProposeStep ==
  ASSUME IInv, TypeOK', NEW b \in Superblocks, NEW p \in Superblocks,
         NEW w \in Works, Propose(b, p, w)
  PROVE  IInv'
<1> DEFINE info == [status |-> "New", parentId |-> p,
                  accumulatedWork |-> w, index |-> indexNextSuperblock,
                  height |-> HeightOf(p) + 1,
                  ancestors |-> updateAncestors(superblocks[p].ancestors,
                                                superblocks[p].index,
                                                HeightOf(p))]
<1>1. Register(b, info) /\ UNCHANGED bestVars
  BY DEF Propose
<1>2. /\ superblocks'[b] = info
      /\ \A c \in Ids : c # b => superblocks'[c] = superblocks[c]
  BY <1>1, RegisterEffect DEF IInv
<1>3. b # NoSuperblock /\ b \notin Approved /\ StatusOf(b) = "Uninitialized"
  BY <1>1 DEF Register, Approved
<1>4. Approved' = Approved
  BY <1>2, <1>3 DEF Approved, StatusOf, Ids
<1>5. \A c \in Ids : c # b => ParentOf(c)' = ParentOf(c) /\ WorkOf(c)' = WorkOf(c)
  BY <1>2 DEF ParentOf, WorkOf
<1>6. NullIsBlank'
  BY <1>2, <1>3 DEF NullIsBlank, IInv, Ids
<1>7. ApprovedClosed'
  BY <1>3, <1>4, <1>5 DEF ApprovedClosed, IInv, Approved, Ids
<1>8. /\ bestSuperblock # b
      /\ bestSuperblock \in Ids
  BY <1>3 DEF IInv, BestIsHeaviest, TypeOK
<1>9. BestIsHeaviest'
  BY <1>1, <1>3, <1>4, <1>5, <1>8 DEF BestIsHeaviest, IInv, Approved, Ids, bestVars
<1>10. Approved # {}
  BY DEF Propose, IInv, GenesisFirst, Registered
<1>11. Rooted'
  <2>1. Registered' = Registered \cup {b}
    BY <1>2, <1>3 DEF Registered, StatusOf, Ids
  <2>2. /\ p \in Registered /\ p # b
        /\ ParentOf(b)' = p /\ HeightOf(b)' = HeightOf(p) + 1
        /\ HeightOf(p)' = HeightOf(p)
    BY <1>2, <1>3 DEF Propose, Registered, ParentOf, HeightOf, Ids
  <2>3. ASSUME NEW c \in Registered
        PROVE  /\ ParentOf(c)' = ParentOf(c) /\ HeightOf(c)' = HeightOf(c)
               /\ HeightOf(ParentOf(c))' = HeightOf(ParentOf(c))
    <3>1. c # b /\ ParentOf(c) # b /\ c \in Ids /\ ParentOf(c) \in Ids
      BY <1>3 DEF IInv, Rooted, Registered, Ids
    <3> QED
      BY <1>2, <3>1 DEF ParentOf, HeightOf
  <2> QED
    BY <2>1, <2>2, <2>3 DEF IInv, Rooted, HeightOf, ParentOf
<1> QED
  BY <1>4, <1>6, <1>7, <1>9, <1>10, <1>11 DEF IInv, GenesisFirst

\* A confirmation keeps the approved set closed and the best one heaviest.
LEMMA ConfirmStep ==
  ASSUME IInv, TypeOK', NEW S \in SUBSET Superblocks, S # {}, ConfirmAll(S)
  PROVE  IInv'
<1>1. /\ \A c \in S : StatusOf(c)' = "Approved"
      /\ \A c \in Ids \ S : superblocks'[c] = superblocks[c]
      /\ \A c \in Ids : ParentOf(c)' = ParentOf(c) /\ WorkOf(c)' = WorkOf(c)
  BY ConfirmEffect DEF IInv
<1>2. NullIsBlank'
  BY <1>1 DEF NullIsBlank, IInv, Ids
<1>3. Approved' = Approved \cup S
  BY <1>1 DEF Approved, StatusOf, Ids
<1>4. \A c \in S : ParentOf(c) \in S \/ StatusOf(ParentOf(c)) = "Approved"
  BY DEF ConfirmAll
<1>5. \A c \in S : ParentOf(c) \in Ids
  BY DEF IInv, TypeOK, SuperblockInfo, ParentOf, Ids
<1>6. StatusOf(NoSuperblock) = "Uninitialized"
  BY DEF IInv, NullIsBlank, Blank, StatusOf
<1>7. \A c \in S : ParentOf(c) \in Approved \cup S
  BY <1>4, <1>5, <1>6 DEF Approved, Ids
<1>8. ApprovedClosed'
  BY <1>1, <1>3, <1>7 DEF ApprovedClosed, IInv, Approved, Ids
<1>9. BestIsHeaviest'
  <2>1. \A c \in Superblocks : WorkOf(c) \in Nat /\ c # NoSuperblock /\ c \in Ids
    BY DEF IInv, TypeOK, SuperblockInfo, WorkOf, Ids
  <2>2. /\ bestSuperblockAccumulatedWork = WorkOf(bestSuperblock)
        /\ bestSuperblockAccumulatedWork \in Nat
        /\ bestSuperblock \in Ids
        /\ \A c \in Approved : WorkOf(c) <= bestSuperblockAccumulatedWork
        /\ bestSuperblock # NoSuperblock <=> Approved # {}
        /\ bestSuperblock # NoSuperblock => bestSuperblock \in Approved
    BY DEF IInv, BestIsHeaviest, TypeOK
  <2>3. Approved # {}
    BY DEF ConfirmAll, IInv, GenesisFirst, Registered
  <2>4. CASE /\ \A c \in S : WorkOf(c) <= bestSuperblockAccumulatedWork
             /\ UNCHANGED bestVars
    <3>1. /\ bestSuperblock' = bestSuperblock
          /\ bestSuperblockAccumulatedWork' = bestSuperblockAccumulatedWork
      BY <2>4 DEF bestVars
    <3>2. bestSuperblock \in Approved /\ bestSuperblock \in Approved'
      BY <1>3, <2>2, <2>3
    <3>3. WorkOf(bestSuperblock)' = WorkOf(bestSuperblock)
      BY <1>1, <2>2, <3>1
    <3>4. \A c \in Approved' : WorkOf(c)' <= bestSuperblockAccumulatedWork
      BY <1>1, <1>3, <2>1, <2>2, <2>4 DEF Approved
    <3> QED
      BY <2>2, <3>1, <3>2, <3>3, <3>4 DEF BestIsHeaviest
  <2>5. ASSUME NEW c \in S,
               WorkOf(c) > bestSuperblockAccumulatedWork,
               \A d \in S : WorkOf(d) < WorkOf(c) \/ WorkOf(d) = WorkOf(c),
               bestSuperblock' = c,
               bestSuperblockAccumulatedWork' = WorkOf(c)
        PROVE  BestIsHeaviest'
    <3>1. c \in Approved' /\ c # NoSuperblock /\ WorkOf(c)' = WorkOf(c)
      BY <1>1, <1>3, <2>1
    <3>2. \A d \in Approved' : WorkOf(d)' = WorkOf(d) /\ WorkOf(d) <= WorkOf(c)
      BY <1>1, <1>3, <2>1, <2>2, <2>5 DEF Approved
    <3> QED
      BY <2>5, <3>1, <3>2 DEF BestIsHeaviest
  <2> QED
    BY <2>4, <2>5 DEF ConfirmAll
<1>10. Rooted'
  <2>1. Registered' = Registered
    BY <1>1 DEF ConfirmAll, Registered, StatusOf, Ids
  <2> QED
    BY <2>1, ConfirmEffect, RootedKept DEF IInv
<1> QED
  BY <1>2, <1>3, <1>8, <1>9, <1>10 DEF IInv, GenesisFirst

\* A status change other than to or from approved leaves the approved set and
\* everything the invariant reads of it.
LEMMA SetStatusStep ==
  ASSUME IInv, TypeOK', NEW b \in Superblocks,
         NEW s \in {"InBattle", "SemiApproved", "Invalid"}, SetStatus(b, s),
         StatusOf(b) \in {"New", "InBattle", "SemiApproved"}
  PROVE  IInv'
<1>1. s \in Status
  BY DEF Status
<1>2. /\ StatusOf(b)' = s
      /\ \A c \in Ids : c # b => superblocks'[c] = superblocks[c]
      /\ \A c \in Ids : /\ ParentOf(c)' = ParentOf(c)
                        /\ HeightOf(c)' = HeightOf(c)
                        /\ WorkOf(c)' = WorkOf(c)
      /\ UNCHANGED bestVars
  BY <1>1, SetStatusEffect DEF IInv
<1>3. Approved' = Approved /\ Registered' = Registered
  BY <1>2 DEF Approved, Registered, StatusOf, Ids
<1>4. NullIsBlank'
  BY <1>2 DEF NullIsBlank, IInv, Ids
<1>5. ApprovedClosed'
  BY <1>2, <1>3 DEF ApprovedClosed, IInv, Approved, Ids
<1>6. BestIsHeaviest'
  BY <1>2, <1>3 DEF BestIsHeaviest, IInv, TypeOK, Approved, Ids, bestVars
<1>7. Rooted'
  BY <1>2, <1>3, RootedKept
<1> QED
  BY <1>3, <1>4, <1>5, <1>6, <1>7 DEF IInv, GenesisFirst

\* The invariant is inductive.
LEMMA IInvStep ==
  ASSUME IInv, [Next]_vars
  PROVE  IInv'
<1>1. TypeOK'
  BY TypeStep DEF IInv
<1>2. CASE UNCHANGED vars
  BY <1>2 DEF vars, IInv, TypeOK, NullIsBlank, GenesisFirst, Rooted,
              ApprovedClosed, BestIsHeaviest, Approved, Registered, StatusOf,
              ParentOf, HeightOf, WorkOf
<1>3. ASSUME NEW b \in Superblocks, NEW w \in Works, Initialize(b, w)
      PROVE  IInv'
  BY <1>1, <1>3, InitializeStep
<1>4. ASSUME NEW b \in Superblocks, NEW p \in Superblocks, NEW w \in Works,
             Propose(b, p, w)
      PROVE  IInv'
  BY <1>1, <1>4, ProposeStep
<1>5. CASE ConfirmPath
  BY <1>1, <1>5, ConfirmStep DEF ConfirmPath
<1>6. ASSUME NEW b \in Superblocks, Challenge(b)
      PROVE  IInv'
  BY <1>1, <1>6, SetStatusStep DEF Challenge
<1>7. ASSUME NEW b \in Superblocks, SemiApprove(b)
      PROVE  IInv'
  BY <1>1, <1>7, SetStatusStep DEF SemiApprove
<1>8. ASSUME NEW b \in Superblocks, Invalidate(b)
      PROVE  IInv'
  BY <1>1, <1>8, SetStatusStep DEF Invalidate
<1> QED
  BY <1>2, <1>3, <1>4, <1>5, <1>6, <1>7, <1>8 DEF Next

\* The inductive invariant holds in every reachable state.
THEOREM Invariance == Spec => []IInv
<1>1. IInv /\ [Next]_vars => IInv'
  BY IInvStep
<1> QED
  BY <1>1, InitIInv, PTL DEF Spec

-----------------------------------------------------------------------------
\* Type correctness: Propose, Confirm and the status changes store data of the
\* declared types and indexes below the next free one.
THEOREM TypeCorrect == Spec => []TypeOK
<1>1. IInv => TypeOK
  BY DEF IInv
<1> QED
  BY <1>1, Invariance, PTL

\* The approved superblocks are closed under parents in every reachable state.
THEOREM ApprovedClosedHolds == Spec => []ApprovedClosed
<1>1. IInv => ApprovedClosed
  BY DEF IInv
<1> QED
  BY <1>1, Invariance, PTL

\* The best superblock is approved and heaviest in every reachable state.
THEOREM BestIsHeaviestHolds == Spec => []BestIsHeaviest
<1>1. IInv => BestIsHeaviest
  BY DEF IInv
<1> QED
  BY <1>1, Invariance, PTL

-----------------------------------------------------------------------------
\* What any step does to a registered superblock: its data stays, but for a
\* status that is no verdict yet.
LEMMA RegisteredStep ==
  ASSUME IInv, Next, NEW b \in Registered
  PROVE  /\ StatusOf(b) \in {"Approved", "Invalid"} =>
              StatusOf(b)' = StatusOf(b)
         /\ superblocks'[b] = [superblocks[b] EXCEPT !.status = StatusOf(b)']
<1> DEFINE Kept ==
      /\ StatusOf(b) \in {"Approved", "Invalid"} => StatusOf(b)' = StatusOf(b)
      /\ superblocks'[b] = [superblocks[b] EXCEPT !.status = StatusOf(b)']
<1>1. b \in Superblocks /\ b \in Ids /\ StatusOf(b) # "Uninitialized"
  BY DEF Registered, Ids
<1>2. superblocks[b] = [superblocks[b] EXCEPT !.status = StatusOf(b)]
  <2>1. superblocks[b] \in SuperblockInfo
    BY <1>1 DEF IInv, TypeOK
  <2> QED
    BY <2>1 DEF SuperblockInfo, StatusOf
<1>3. ASSUME NEW c \in Superblocks, NEW info, Register(c, info)
      PROVE  Kept
  <2>1. b # c
    BY <1>1, <1>3 DEF Register
  <2>2. superblocks'[b] = superblocks[b]
    BY <1>1, <1>3, <2>1, RegisterEffect DEF IInv
  <2> QED
    BY <1>2, <2>2 DEF StatusOf
<1>4. ASSUME NEW S \in SUBSET Superblocks, ConfirmAll(S)
      PROVE  Kept
  <2>1. /\ superblocks'[b] = [superblocks[b] EXCEPT !.status = StatusOf(b)']
        /\ b \notin S => superblocks'[b] = superblocks[b]
    BY <1>1, <1>4, ConfirmEffect DEF IInv
  <2>2. b \in S => StatusOf(b) \notin {"Approved", "Invalid"}
    BY <1>4 DEF ConfirmAll
  <2> QED
    BY <2>1, <2>2 DEF StatusOf
<1>5. ASSUME NEW c \in Superblocks,
             NEW s \in {"InBattle", "SemiApproved", "Invalid"}, SetStatus(c, s),
             StatusOf(c) \in {"New", "InBattle", "SemiApproved"}
      PROVE  Kept
  <2>1. s \in Status
    BY DEF Status
  <2>2. /\ superblocks'[b] = [superblocks[b] EXCEPT !.status = StatusOf(b)']
        /\ b # c => superblocks'[b] = superblocks[b]
    BY <1>1, <1>5, <2>1, SetStatusEffect DEF IInv
  <2> QED
    BY <1>5, <2>2 DEF StatusOf
<1>6. ASSUME NEW c \in Superblocks, NEW w \in Works, Initialize(c, w)
      PROVE  Kept
  BY <1>3, <1>6 DEF Initialize
<1>7. ASSUME NEW c \in Superblocks, NEW p \in Superblocks, NEW w \in Works,
             Propose(c, p, w)
      PROVE  Kept
  BY <1>3, <1>7 DEF Propose
<1>8. CASE ConfirmPath
  BY <1>4, <1>8 DEF ConfirmPath
<1>9. ASSUME NEW c \in Superblocks, Challenge(c) \/ SemiApprove(c) \/ Invalidate(c)
      PROVE  Kept
  BY <1>5, <1>9 DEF Challenge, SemiApprove, Invalidate
<1> QED
  BY <1>6, <1>7, <1>8, <1>9 DEF Next

\* Verdicts and the data of registered superblocks are final.
THEOREM VerdictsAreFinalHolds == Spec => VerdictsAreFinal
<1> DEFINE Kept(b) ==
      /\ StatusOf(b) \in {"Approved", "Invalid"} => StatusOf(b)' = StatusOf(b)
      /\ superblocks'[b] = [superblocks[b] EXCEPT !.status = StatusOf(b)']
<1>1. IInv /\ [Next]_vars => [\A b \in Registered : Kept(b)]_vars
  BY RegisteredStep
<1> QED
  BY <1>1, Invariance, PTL DEF Spec, VerdictsAreFinal

\* The best superblock is left only for one with strictly more work.
THEOREM BestOnlyImprovesHolds == Spec => BestOnlyImproves
<1> DEFINE Improves ==
      bestSuperblock' # bestSuperblock /\ bestSuperblock # NoSuperblock
        => WorkOf(bestSuperblock') > WorkOf(bestSuperblock)
<1>1. ASSUME IInv, Next
      PROVE  Improves
  <2>1. bestSuperblockAccumulatedWork = WorkOf(bestSuperblock)
    BY <1>1 DEF IInv, BestIsHeaviest
  <2>2. ASSUME NEW S, ConfirmAll(S)
        PROVE  Improves
    BY <2>1, <2>2 DEF ConfirmAll, bestVars
  <2> QED
    BY <1>1, <2>2 DEF Next, Initialize, Propose, ConfirmPath, Challenge,
                      SemiApprove, Invalidate, SetStatus, bestVars
<1>2. IInv /\ [Next]_vars => [Improves]_vars
  BY <1>1
<1> QED
  BY <1>2, Invariance, PTL DEF Spec, BestOnlyImproves

-----------------------------------------------------------------------------
(* Refinement of SuperblockTree.                                           *)

\* The three functions of the tree that the contract's state stands for.
treeVerdict == [b \in Ids |-> VerdictOf(StatusOf(b))]
treeParent == [b \in Ids |-> ParentOf(b)]
treeWork == [b \in Ids |-> WorkOf(b)]

\* Statuses and verdicts correspond.
LEMMA Verdicts ==
  ASSUME TypeOK, NEW b \in Ids
  PROVE  /\ VerdictOf(StatusOf(b)) = "none" <=> StatusOf(b) = "Uninitialized"
         /\ VerdictOf(StatusOf(b)) = "accepted" <=> StatusOf(b) = "Approved"
         /\ VerdictOf(StatusOf(b)) = "pending" <=>
              StatusOf(b) \in {"New", "InBattle", "SemiApproved"}
<1>1. StatusOf(b) \in Status
  BY DEF TypeOK, SuperblockInfo, StatusOf
<1> QED
  BY <1>1 DEF Status, VerdictOf

\* The accepted superblocks of the tree are the approved ones.
LEMMA AcceptedIsApproved ==
  ASSUME TypeOK
  PROVE  Tree!Accepted = Approved
<1>1. \A b \in Superblocks : b \in Ids
  BY DEF Ids
<1> QED
  BY <1>1, Verdicts DEF Tree!Accepted, Approved

\* The empty contract is the empty tree.
LEMMA TreeInit == Init => Tree!Init
<1> SUFFICES ASSUME Init PROVE Tree!Init
  OBVIOUS
<1>1. \A b \in Ids : /\ VerdictOf(StatusOf(b)) = "none"
                     /\ ParentOf(b) = NoSuperblock
                     /\ WorkOf(b) = 0
  BY DEF Init, StatusOf, ParentOf, WorkOf, Blank, VerdictOf
<1> QED
  BY <1>1 DEF Init, Tree!Init, Tree!Ids, Ids

\* Registering a superblock enters it into the tree.
LEMMA RegisterEnters ==
  ASSUME TypeOK, NEW b \in Superblocks, NEW info \in SuperblockInfo,
         Register(b, info)
  PROVE  Tree!Enter(b, info.parentId, info.accumulatedWork,
                    VerdictOf(info.status))
<1>1. b \in Ids
  BY DEF Ids
<1>2. /\ superblocks'[b] = info
      /\ \A c \in Ids : c # b => superblocks'[c] = superblocks[c]
  BY RegisterEffect
<1>3. VerdictOf(StatusOf(b)) = "none"
  BY <1>1, Verdicts DEF Register
<1>4. treeVerdict' = [treeVerdict EXCEPT ![b] = VerdictOf(info.status)]
  BY <1>1, <1>2 DEF treeVerdict, StatusOf, VerdictOf
<1>5. treeParent' = [treeParent EXCEPT ![b] = info.parentId]
  BY <1>1, <1>2 DEF treeParent, ParentOf
<1>6. treeWork' = [treeWork EXCEPT ![b] = info.accumulatedWork]
  BY <1>1, <1>2 DEF treeWork, WorkOf
<1> QED
  BY <1>1, <1>3, <1>4, <1>5, <1>6
  DEF Tree!Enter, treeVerdict, treeParent, treeWork

\* Initialize starts the tree.
LEMMA InitializeRefines ==
  ASSUME IInv, NEW b \in Superblocks, NEW w \in Works, Initialize(b, w)
  PROVE  Tree!Start(b, w)
<1> DEFINE info == [status |-> "Approved", parentId |-> NoSuperblock,
                  accumulatedWork |-> w, index |-> indexNextSuperblock,
                  height |-> 1, ancestors |-> [i \in Depths |-> 0]]
<1>1. info \in SuperblockInfo /\ Register(b, info)
  BY DEF SuperblockInfo, IInv, TypeOK, Status, Ids, Initialize
<1>2. Tree!Enter(b, NoSuperblock, w, "accepted")
  <2>1. Tree!Enter(b, info.parentId, info.accumulatedWork, VerdictOf(info.status))
    BY <1>1, RegisterEnters DEF IInv
  <2>2. VerdictOf("Approved") = "accepted"
    BY DEF VerdictOf
  <2> QED
    BY <2>1, <2>2
<1>3. Tree!Accepted = {}
  BY AcceptedIsApproved DEF IInv, BestIsHeaviest, Initialize
<1> QED
  BY <1>2, <1>3 DEF Tree!Start, Initialize

\* Propose submits to the tree.
LEMMA ProposeRefines ==
  ASSUME IInv, NEW b \in Superblocks, NEW p \in Superblocks, NEW w \in Works,
         Propose(b, p, w)
  PROVE  Tree!Submit(b, p, w)
<1> DEFINE anc == updateAncestors(superblocks[p].ancestors,
                                  superblocks[p].index, HeightOf(p))
<1> DEFINE info == [status |-> "New", parentId |-> p,
                  accumulatedWork |-> w, index |-> indexNextSuperblock,
                  height |-> HeightOf(p) + 1, ancestors |-> anc]
<1>1. superblocks[p] \in SuperblockInfo /\ p \in Ids
  BY DEF IInv, TypeOK, Ids
<1>2. anc \in [Depths -> Nat]
  BY <1>1, UpdateAncestorsType DEF SuperblockInfo, HeightOf
<1>3. Register(b, info)
  BY DEF Propose
<1>4. info \in SuperblockInfo
  <2> HIDE DEF anc
  <2> QED
    BY <1>1, <1>2 DEF SuperblockInfo, IInv, TypeOK, Status, Ids, HeightOf
<1>5. Tree!Enter(b, p, w, "pending")
  <2>1. Tree!Enter(b, info.parentId, info.accumulatedWork, VerdictOf(info.status))
    <3> HIDE DEF info
    <3> QED
      BY <1>3, <1>4, RegisterEnters DEF IInv
  <2>2. info.parentId = p /\ info.accumulatedWork = w /\ info.status = "New"
    OBVIOUS
  <2>3. VerdictOf("New") = "pending"
    BY DEF VerdictOf
  <2> HIDE DEF info
  <2> QED
    BY <2>1, <2>2, <2>3
<1>6. VerdictOf(StatusOf(p)) \in {"pending", "accepted"}
  BY <1>1, Verdicts DEF Propose, IInv
<1> QED
  BY <1>1, <1>5, <1>6 DEF Tree!Submit, Propose, bestVars

\* A confirmation accepts the confirmed superblocks.
LEMMA ConfirmRefines ==
  ASSUME IInv, NEW S \in SUBSET Superblocks, S # {}, ConfirmAll(S)
  PROVE  Tree!Accept(S)
<1>1. /\ \A c \in S : StatusOf(c)' = "Approved"
      /\ \A c \in Ids \ S : superblocks'[c] = superblocks[c]
      /\ \A c \in Ids : ParentOf(c)' = ParentOf(c) /\ WorkOf(c)' = WorkOf(c)
  BY ConfirmEffect DEF IInv
<1>2. \A c \in S : c \in Ids /\ c \in Superblocks
  BY DEF Ids
<1>3. StatusOf(NoSuperblock) = "Uninitialized"
  BY DEF IInv, NullIsBlank, Blank, StatusOf
<1>4. ASSUME NEW c \in S
      PROVE  /\ treeVerdict[c] = "pending"
             /\ treeParent[c] \in S \cup Approved
  <2>1. ParentOf(c) \in Ids
    BY <1>2 DEF IInv, TypeOK, SuperblockInfo, ParentOf
  <2>2. ParentOf(c) \in S \cup Approved
    BY <1>3, <2>1 DEF ConfirmAll, Approved, Ids
  <2> QED
    BY <1>2, <2>2, Verdicts DEF ConfirmAll, IInv, treeVerdict, treeParent
<1>5. treeVerdict' = [b \in Ids |-> IF b \in S THEN "accepted" ELSE treeVerdict[b]]
  BY <1>1 DEF treeVerdict, StatusOf, VerdictOf
<1>6. treeParent' = treeParent /\ treeWork' = treeWork
  BY <1>1 DEF treeParent, treeWork
<1>7. /\ bestSuperblock \in Ids
      /\ WorkOf(bestSuperblock) = bestSuperblockAccumulatedWork
      /\ \A c \in Ids : WorkOf(c) \in Nat
  BY DEF IInv, TypeOK, BestIsHeaviest, SuperblockInfo, WorkOf
<1>8. /\ bestSuperblock' \in S \cup {bestSuperblock}
      /\ \/ bestSuperblock' = bestSuperblock
         \/ WorkOf(bestSuperblock') > WorkOf(bestSuperblock)
      /\ \A c \in S : WorkOf(c) <= WorkOf(bestSuperblock')
  BY <1>2, <1>7 DEF ConfirmAll, bestVars
<1>9. bestSuperblock' \in Ids
  BY <1>2, <1>7, <1>8
<1>10. /\ bestSuperblock' = bestSuperblock \/ treeWork'[bestSuperblock'] > treeWork[bestSuperblock]
       /\ \A c \in S : treeWork[c] <= treeWork'[bestSuperblock']
  BY <1>2, <1>6, <1>7, <1>8, <1>9 DEF treeWork
<1> QED
  BY <1>4, <1>5, <1>6, <1>8, <1>10, AcceptedIsApproved
  DEF Tree!Accept, Tree!Ids, Ids, IInv, treeVerdict, treeParent, treeWork

\* Challenging and semi-approving leave the tree alone; invalidating rejects.
LEMMA SetStatusRefines ==
  ASSUME IInv, NEW b \in Superblocks,
         NEW s \in {"InBattle", "SemiApproved", "Invalid"}, SetStatus(b, s),
         StatusOf(b) \in {"New", "InBattle", "SemiApproved"}
  PROVE  IF s = "Invalid" THEN Tree!Reject(b) ELSE UNCHANGED Tree!vars
<1>1. s \in Status /\ b \in Ids
  BY DEF Status, Ids
<1>2. /\ StatusOf(b)' = s
      /\ \A c \in Ids : c # b => superblocks'[c] = superblocks[c]
      /\ \A c \in Ids : ParentOf(c)' = ParentOf(c) /\ WorkOf(c)' = WorkOf(c)
      /\ UNCHANGED bestVars
  BY <1>1, SetStatusEffect DEF IInv
<1>3. treeParent' = treeParent /\ treeWork' = treeWork
  BY <1>2 DEF treeParent, treeWork
<1>4. VerdictOf(StatusOf(b)) = "pending"
  BY <1>1, Verdicts DEF IInv
<1>5. treeVerdict' = [treeVerdict EXCEPT ![b] = VerdictOf(s)]
  BY <1>1, <1>2 DEF treeVerdict, StatusOf, VerdictOf
<1>6. CASE s = "Invalid"
  <2>1. VerdictOf(s) = "rejected"
    BY <1>6 DEF VerdictOf
  <2> QED
    BY <1>1, <1>2, <1>3, <1>4, <1>5, <1>6, <2>1
    DEF Tree!Reject, treeVerdict, treeParent, treeWork, bestVars
<1>7. CASE s # "Invalid"
  <2>1. VerdictOf(s) = "pending"
    BY <1>7 DEF VerdictOf
  <2>2. treeVerdict' = treeVerdict
    BY <1>1, <1>4, <1>5, <2>1 DEF treeVerdict
  <2> QED
    BY <1>2, <1>3, <1>7, <2>2
    DEF Tree!vars, treeVerdict, treeParent, treeWork, bestVars
<1> QED
  BY <1>6, <1>7

\* Every step of the contract is a step of the tree or leaves it alone.
LEMMA TreeStep ==
  ASSUME IInv, [Next]_vars
  PROVE  [Tree!Next]_Tree!vars
<1>1. CASE UNCHANGED vars
  BY <1>1 DEF vars, Tree!vars, StatusOf, ParentOf, WorkOf, VerdictOf
<1>2. ASSUME NEW b \in Superblocks, NEW w \in Works, Initialize(b, w)
      PROVE  Tree!Next
  BY <1>2, InitializeRefines DEF Tree!Next
<1>3. ASSUME NEW b \in Superblocks, NEW p \in Superblocks, NEW w \in Works,
             Propose(b, p, w)
      PROVE  Tree!Next
  BY <1>3, ProposeRefines DEF Tree!Next
<1>4. CASE ConfirmPath
  <2>1. PICK S \in SUBSET Superblocks : S # {} /\ ConfirmAll(S)
    BY <1>4 DEF ConfirmPath
  <2>2. Tree!Accept(S)
    BY <2>1, ConfirmRefines
  <2>3. S \in SUBSET Tree!Pending
    BY <2>2 DEF Tree!Accept, Tree!Pending
  <2> QED
    BY <2>1, <2>2, <2>3 DEF Tree!Next
<1>5. ASSUME NEW b \in Superblocks, Challenge(b) \/ SemiApprove(b)
      PROVE  UNCHANGED Tree!vars
  <2>1. PICK s \in {"InBattle", "SemiApproved"} :
          /\ SetStatus(b, s)
          /\ StatusOf(b) \in {"New", "InBattle", "SemiApproved"}
    BY <1>5 DEF Challenge, SemiApprove
  <2> QED
    BY <2>1, SetStatusRefines
<1>6. ASSUME NEW b \in Superblocks, Invalidate(b)
      PROVE  Tree!Next
  BY <1>6, SetStatusRefines DEF Invalidate, Tree!Next
<1> QED
  BY <1>1, <1>2, <1>3, <1>4, <1>5, <1>6 DEF Next

\* DogeSuperblocks implements SuperblockTree.
THEOREM Refinement == Spec => TreeSpec
<1>1. IInv /\ [Next]_vars => [Tree!Next]_Tree!vars
  BY TreeStep
<1> QED
  BY <1>1, Invariance, TreeInit, PTL DEF Spec, TreeSpec, Tree!Spec

-----------------------------------------------------------------------------
(* Powers and division: a skip-list slot points to the height one above a  *)
(* multiple of a power of AncestorStep.                                    *)

\* Division with a rest, and that there is one way to do it.
LEMMA Euclid ==
  ASSUME NEW n \in Nat, NEW c \in Nat \ {0}
  PROVE  /\ n \div c \in Nat
         /\ n % c \in 0 .. c - 1
         /\ n = c * (n \div c) + (n % c)
  OBVIOUS

\* What \div and % are, as a quotient and a rest.
LEMMA Division ==
  \A n \in Nat, c \in Nat \ {0} :
    \E q \in Nat, r \in 0 .. c - 1 : n = c * q + r /\ r = n % c
<1> SUFFICES ASSUME NEW n \in Nat, NEW c \in Nat \ {0}
             PROVE  \E q \in Nat, r \in 0 .. c - 1 : n = c * q + r /\ r = n % c
  OBVIOUS
<1> DEFINE p == n \div c
<1> DEFINE s == n % c
<1>1. p \in Nat /\ s \in 0 .. c - 1 /\ n = c * p + s
  BY Euclid
<1>2. s = n % c
  OBVIOUS
<1> HIDE DEF p, s
<1> QED BY <1>1, <1>2

\* A product with a positive number is no less than the other factor.
LEMMA AtLeast ==
  ASSUME NEW c \in Nat, NEW d \in Nat, d >= 1
  PROVE  c * d >= c
<1>1. PICK e \in Nat : d = e + 1
  <2>1. d = (d - 1) + 1 /\ d - 1 \in Nat
    OBVIOUS
  <2> QED BY <2>1
<1>2. c * d = c * e + c
  BY <1>1
<1>3. c * e >= 0 /\ c * e \in Nat
  OBVIOUS
<1> QED
  BY <1>2, <1>3

\* Quotient and rest are determined.
LEMMA RestUnique ==
  ASSUME NEW c \in Nat \ {0}, NEW q \in Nat, NEW p \in Nat,
         NEW r \in 0 .. c - 1, NEW s \in 0 .. c - 1, c * q + r = c * p + s
  PROVE  q = p /\ r = s
<1>1. ASSUME NEW x \in Nat, NEW y \in Nat, NEW t \in 0 .. c - 1, NEW u \in 0 .. c - 1,
             c * x + t = c * y + u, x > y
      PROVE  FALSE
  <2>1. x - y \in Nat /\ x - y >= 1
    BY <1>1
  <2>2. c * (x - y) >= c
    BY <2>1, AtLeast
  <2>3. c * (x - y) = c * x - c * y
    OBVIOUS
  <2>4. c * x \in Nat /\ c * y \in Nat
    OBVIOUS
  <2> QED
    BY <1>1, <2>2, <2>3, <2>4
<1>2. ~(q > p) /\ ~(p > q)
  BY <1>1
<1>3. q = p
  BY <1>2
<1> QED BY <1>3

\* So a number that is written with a rest has that rest.
LEMMA RestIs ==
  ASSUME NEW n \in Nat, NEW c \in Nat \ {0}, NEW q \in Nat, NEW r \in 0 .. c - 1,
         n = c * q + r
  PROVE  n % c = r
<1> DEFINE p == n \div c
<1> DEFINE s == n % c
<1>1. p \in Nat /\ s \in 0 .. c - 1 /\ n = c * p + s
  BY Euclid
<1>2. s = n % c
  OBVIOUS
<1> HIDE DEF p, s
<1>3. c * p + s = c * q + r
  BY <1>1
<1>4. r = s
  BY <1>1, <1>3, RestUnique
<1> QED
  BY <1>2, <1>4

\* A multiple of a product is one of its factor.
LEMMA Divides ==
  ASSUME NEW n \in Nat, NEW a \in Nat \ {0}, NEW c \in Nat \ {0}, n % (a * c) = 0
  PROVE  n % c = 0
<1>1. a * c \in Nat \ {0}
  <2>1. c * a >= c /\ a * c = c * a /\ c * a \in Nat
    BY AtLeast
  <2> QED BY <2>1
<1>2. PICK q \in Nat : n = (a * c) * q + 0
  BY <1>1, Euclid
<1>3. n = c * (a * q) + 0 /\ a * q \in Nat
  BY <1>2
<1> QED
  BY <1>3, RestIs

\* After a multiple comes a rest of one.
LEMMA OneMore ==
  ASSUME NEW n \in Nat, NEW c \in Nat, c > 1
  PROVE  n % c = 0 <=> (n + 1) % c = 1
<1>1. PICK q \in Nat, r \in 0 .. c - 1 : n = c * q + r /\ r = n % c
  BY c \in Nat \ {0}, Division
<1>2. c * q \in Nat
  OBVIOUS
<1>3. CASE r + 1 < c
  <2>1. r + 1 \in 0 .. c - 1 /\ n + 1 = c * q + (r + 1) /\ n + 1 \in Nat
    BY <1>1, <1>2, <1>3
  <2>2. (n + 1) % c = r + 1
    <3> DEFINE m == n + 1
    <3> DEFINE t == r + 1
    <3>1. m \in Nat /\ t \in 0 .. c - 1 /\ m = c * q + t /\ c \in Nat \ {0}
      BY <2>1
    <3> HIDE DEF m, t
    <3>2. m % c = t
      BY <3>1, RestIs
    <3> QED BY <3>2 DEF m, t
  <2> QED
    BY <1>1, <2>2
<1>4. CASE r + 1 = c
  <2>1. n + 1 = c * (q + 1) + 0 /\ q + 1 \in Nat /\ 0 \in 0 .. c - 1 /\ n + 1 \in Nat
    BY <1>1, <1>2, <1>4
  <2>2. (n + 1) % c = 0
    <3> DEFINE m == n + 1
    <3> DEFINE p == q + 1
    <3>1. m \in Nat /\ p \in Nat /\ m = c * p + 0 /\ c \in Nat \ {0} /\ 0 \in 0 .. c - 1
      BY <2>1
    <3> HIDE DEF m, p
    <3>2. m % c = 0
      BY <3>1, RestIs
    <3> QED BY <3>2 DEF m
  <2> QED
    BY <1>1, <1>4, <2>2
<1> QED
  BY <1>1, <1>3, <1>4

\* The largest multiple up to a number that is none is that of its predecessor.
LEMMA SameMultiple ==
  ASSUME NEW n \in Nat, NEW c \in Nat \ {0}, (n + 1) % c # 0
  PROVE  n - (n % c) = (n + 1) - ((n + 1) % c)
<1>1. PICK q \in Nat, r \in 0 .. c - 1 : n + 1 = c * q + r /\ r = (n + 1) % c
  BY n + 1 \in Nat, Division
<1>2. c * q \in Nat
  OBVIOUS
<1>3. r - 1 \in 0 .. c - 1 /\ n = c * q + (r - 1)
  BY <1>1, <1>2
<1>4. n % c = r - 1
  BY <1>3, RestIs
<1> QED
  BY <1>1, <1>4
\* The recursive function of getAncDepth.
IsPowers(f) ==
  f = [i \in Nat |-> IF i = 0 THEN 1 ELSE AncestorStep * f[i - 1]]

\* It is defined up to each number, and so on all of them.
LEMMA PowersExist == \E f : IsPowers(f)
<1> DEFINE Up(g, n) ==
      g = [i \in 0 .. n |-> IF i = 0 THEN 1 ELSE AncestorStep * g[i - 1]]
<1> DEFINE Good == {n \in Nat : \E g : Up(g, n)}
<1>1. 0 \in Good
  <2>1. Up([i \in 0 .. 0 |-> 1], 0)
    OBVIOUS
  <2> QED
    BY <2>1
<1>2. ASSUME NEW n \in Good
      PROVE  n + 1 \in Good
  <2>1. PICK g : Up(g, n)
    OBVIOUS
  <2> DEFINE h == [i \in 0 .. n + 1 |-> IF i = 0 THEN 1 ELSE AncestorStep * g[i - 1]]
  <2>2. \A i \in 0 .. n : h[i] = g[i]
    BY <2>1
  <2>3. \A i \in 1 .. n + 1 : i - 1 \in 0 .. n
    OBVIOUS
  <2>4. Up(h, n + 1)
    <3>1. ASSUME NEW i \in 0 .. n + 1
          PROVE  h[i] = IF i = 0 THEN 1 ELSE AncestorStep * h[i - 1]
      <4>1. i # 0 => h[i - 1] = g[i - 1]
        <5>1. i # 0 => i - 1 \in 0 .. n
          BY n \in Nat
        <5> HIDE DEF h
        <5> QED
          BY <2>2, <5>1
      <4>2. h[i] = IF i = 0 THEN 1 ELSE AncestorStep * g[i - 1]
        OBVIOUS
      <4> HIDE DEF h
      <4> QED
        BY <4>1, <4>2
    <3>2. h = [i \in 0 .. n + 1 |-> h[i]]
      OBVIOUS
    <3> HIDE DEF h
    <3> QED
      BY <3>1, <3>2
  <2> HIDE DEF Up
  <2> QED
    BY <2>4
<1> HIDE DEF Good
<1>3. \A n \in Nat : n \in Good
  <2> SUFFICES ASSUME NEW n \in Nat PROVE n \in Good
    OBVIOUS
  <2>1. \A m \in 0 .. n : m \in Good
    BY <1>1, <1>2, CountUp
  <2> QED
    BY <2>1
<1>4. \A n \in Nat : \E g : Up(g, n)
  BY <1>3 DEF Good
<1> DEFINE part == [n \in Nat |-> CHOOSE g : Up(g, n)]
<1> HIDE DEF Up
<1>5. \A n \in Nat : Up(part[n], n)
  BY <1>4
<1> USE DEF Up
<1>6. ASSUME NEW n \in Nat, n > 0
      PROVE  \A i \in 0 .. n - 1 : part[n][i] = part[n - 1][i]
  <2> DEFINE Same == {i \in Nat : i \in 0 .. n - 1 => part[n][i] = part[n - 1][i]}
  <2>1. n - 1 \in Nat
    BY <1>6
  <2>2. /\ \A i \in 0 .. n : part[n][i] = IF i = 0 THEN 1 ELSE AncestorStep * part[n][i - 1]
        /\ \A i \in 0 .. n - 1 : part[n - 1][i] = IF i = 0 THEN 1 ELSE AncestorStep * part[n - 1][i - 1]
    <3>1. Up(part[n], n) /\ Up(part[n - 1], n - 1)
      BY <1>5, <2>1
    <3> HIDE DEF part
    <3> QED
      BY <3>1
  <2> HIDE DEF part
  <2>3. 0 \in Same
    BY <2>2, <1>6
  <2>4. \A i \in 0 .. n - 1 : i \in Same /\ i < n - 1 => i + 1 \in Same
    <3> SUFFICES ASSUME NEW i \in 0 .. n - 1, i \in Same, i < n - 1 PROVE i + 1 \in Same
      OBVIOUS
    <3>1. i + 1 \in 0 .. n /\ i + 1 \in 0 .. n - 1 /\ i + 1 # 0 /\ (i + 1) - 1 = i /\ i + 1 \in Nat
      OBVIOUS
    <3> QED
      BY <3>1, <2>2
  <2> HIDE DEF Same
  <2>5. \A i \in 0 .. n - 1 : i \in Same
    BY <2>1, <2>3, <2>4, CountUp
  <2> QED
    BY <2>5 DEF Same
<1> DEFINE f == [n \in Nat |-> part[n][n]]
<1>7. ASSUME NEW n \in Nat
      PROVE  f[n] = IF n = 0 THEN 1 ELSE AncestorStep * f[n - 1]
  <2>1. part[n][n] = IF n = 0 THEN 1 ELSE AncestorStep * part[n][n - 1]
    <3>1. Up(part[n], n)
      BY <1>5
    <3> HIDE DEF part
    <3> QED
      BY <3>1
  <2> HIDE DEF part, Up
  <2>2. n # 0 => part[n][n - 1] = part[n - 1][n - 1]
    BY <1>6
  <2> QED
    BY <2>1, <2>2
<1>8. IsPowers(f)
  <2>1. f = [n \in Nat |-> f[n]]
    OBVIOUS
  <2> HIDE DEF f
  <2> QED
    BY <1>7, <2>1 DEF IsPowers
<1> QED
  BY <1>8

\* What getAncDepth returns.
LEMMA Powers ==
  /\ getAncDepth[0] = 1
  /\ \A i \in Nat : getAncDepth[i + 1] = AncestorStep * getAncDepth[i]
<1>1. getAncDepth = CHOOSE f : IsPowers(f)
  BY DEF getAncDepth, IsPowers
<1>2. IsPowers(getAncDepth)
  BY <1>1, PowersExist
<1>3. \A i \in Nat :
        getAncDepth[i] = IF i = 0 THEN 1 ELSE AncestorStep * getAncDepth[i - 1]
  BY <1>2 DEF IsPowers
<1>4. ASSUME NEW i \in Nat
      PROVE  getAncDepth[i + 1] = AncestorStep * getAncDepth[i]
  BY <1>3
<1> QED
  BY <1>3, <1>4

\* They are numbers, above one after the first.
LEMMA PowersType ==
  \A i \in Nat : /\ getAncDepth[i] \in Nat \ {0}
                 /\ i > 0 => getAncDepth[i] > 1
<1> DEFINE S == {i \in Nat : getAncDepth[i] \in Nat \ {0}}
<1>1. 0 \in S
  BY Powers
<1>2. ASSUME NEW i \in S
      PROVE  /\ i + 1 \in S
             /\ getAncDepth[i + 1] > 1
  <2>1. PICK p \in Nat \ {0} : p = getAncDepth[i]
    OBVIOUS
  <2>2. AncestorStep * p \in Nat /\ AncestorStep * p > 1
    <3>1. AncestorStep * p >= AncestorStep
      BY AtLeast
    <3> QED
      BY <3>1
  <2>3. getAncDepth[i + 1] = AncestorStep * p
    BY <2>1, Powers
  <2> QED
    BY <2>2, <2>3
<1> HIDE DEF S
<1>3. \A i \in Nat : i \in S
  <2> SUFFICES ASSUME NEW n \in Nat PROVE n \in S
    OBVIOUS
  <2>1. \A m \in 0 .. n : m \in S
    BY <1>1, <1>2, CountUp
  <2> QED
    BY <2>1
<1>4. ASSUME NEW i \in Nat, i > 0
      PROVE  getAncDepth[i] > 1
  <2>1. i - 1 \in S /\ (i - 1) + 1 = i
    BY <1>3, <1>4
  <2> QED
    BY <1>2, <2>1
<1> QED
  BY <1>3, <1>4 DEF S

-----------------------------------------------------------------------------
(* Walks over the parents, stated of any tree of superblocks S, so that    *)
(* they apply to the tree before and after a step.                         *)

\* S is a tree by its heights: what has one is a superblock one above its
\* parent.
IsTree(S) ==
  \A b \in Ids :
    /\ S[b].height \in Nat
    /\ S[b].height > 0 =>
         /\ b # NoSuperblock
         /\ S[b].parentId \in Ids
         /\ S[b].height = S[S[b].parentId].height + 1

\* One step of the walk of AncestorAt.
Step(S, h, up, c) == IF S[c].height <= h \/ c = NoSuperblock THEN c
                     ELSE up[S[c].parentId]

\* AncestorAt in the tree S.
UpTo(S, b, h) ==
  LET up[c \in Ids] == IF S[c].height <= h \/ c = NoSuperblock THEN c
                       ELSE up[S[c].parentId]
  IN  up[b]

IsUp(S, h, up) == up = [c \in Ids |-> Step(S, h, up, c)]

\* A superblock of which something holds, if there is one, is lowest.
LEMMA Lowest ==
  ASSUME NEW S, IsTree(S), NEW Bad \in SUBSET Ids, Bad # {}
  PROVE  \E b \in Bad : \A c \in Bad : S[b].height <= S[c].height
<1> DEFINE heights == {S[b].height : b \in Bad}
<1>1. heights \in SUBSET Nat /\ heights # {}
  BY DEF IsTree
<1>2. PICK n \in heights : \A m \in heights : n <= m
  <2> HIDE DEF heights
  <2> QED BY <1>1, LeastNatural
<1> QED
  BY <1>2

\* Walks up to a height that follow the same steps as far as n agree there.
LEMMA WalksAgree ==
  ASSUME NEW S, IsTree(S), NEW h \in Nat, NEW n \in Nat, NEW f, NEW g,
         \A c \in Ids : S[c].height <= n =>
           f[c] = Step(S, h, f, c) /\ g[c] = Step(S, h, g, c)
  PROVE  \A c \in Ids : S[c].height <= n => f[c] = g[c]
<1> DEFINE Bad == {c \in Ids : S[c].height <= n /\ f[c] # g[c]}
<1> SUFFICES ASSUME Bad # {} PROVE FALSE
  OBVIOUS
<1>1. PICK b \in Bad : \A c \in Bad : S[b].height <= S[c].height
  <2>1. Bad \in SUBSET Ids
    OBVIOUS
  <2> HIDE DEF Bad
  <2> QED BY <2>1, Lowest
<1>2. S[b].height > h /\ b # NoSuperblock
  BY DEF Step, IsTree
<1>3. /\ S[b].parentId \in Ids
      /\ S[S[b].parentId].height \in Nat
      /\ S[b].height = S[S[b].parentId].height + 1
  BY <1>2 DEF IsTree
<1>4. S[b].parentId \notin Bad
  BY <1>1, <1>3
<1>5. f[S[b].parentId] = g[S[b].parentId]
  BY <1>3, <1>4
<1> QED
  BY <1>2, <1>5 DEF Step, IsTree

\* The recursive function of AncestorAt is defined, height after height.
LEMMA UpExists ==
  ASSUME NEW S, IsTree(S), NEW h \in Nat
  PROVE  \E up : IsUp(S, h, up)
<1> DEFINE Good(f, n) == \A c \in Ids : S[c].height <= n => f[c] = Step(S, h, f, c)
<1> DEFINE Reached == {n \in Nat : \E f : Good(f, n)}
<1>1. 0 \in Reached
  <2>1. Good([c \in Ids |-> c], 0)
    BY DEF Step, IsTree
  <2> HIDE DEF Good
  <2> QED BY <2>1
<1>2. ASSUME NEW n \in Reached
      PROVE  n + 1 \in Reached
  <2>1. PICK f : Good(f, n)
    OBVIOUS
  <2> DEFINE g == [c \in Ids |-> IF S[c].height <= n THEN f[c] ELSE Step(S, h, f, c)]
  <2>2. ASSUME NEW c \in Ids, S[c].height <= n + 1
        PROVE  g[c] = Step(S, h, g, c)
    <3>1. g[c] = Step(S, h, f, c)
      BY <2>1
    <3>2. CASE S[c].height <= h \/ c = NoSuperblock
      BY <3>1, <3>2 DEF Step
    <3>3. CASE ~(S[c].height <= h \/ c = NoSuperblock)
      <4>1. /\ S[c].parentId \in Ids
            /\ S[S[c].parentId].height \in Nat
            /\ S[c].height = S[S[c].parentId].height + 1
        BY <3>3 DEF IsTree
      <4>2. S[S[c].parentId].height <= n
        BY <2>2, <4>1
      <4>3. g[S[c].parentId] = f[S[c].parentId]
        BY <4>1, <4>2
      <4> HIDE DEF g
      <4> QED
        BY <3>1, <3>3, <4>3 DEF Step
    <3> QED
      BY <3>2, <3>3
  <2>3. Good(g, n + 1)
    <3> HIDE DEF g
    <3> QED BY <2>2
  <2> HIDE DEF Good, g
  <2> QED
    BY <2>3
<1> HIDE DEF Reached
<1>3. \A n \in Nat : n \in Reached
  <2> SUFFICES ASSUME NEW n \in Nat PROVE n \in Reached
    OBVIOUS
  <2>1. \A m \in 0 .. n : m \in Reached
    BY <1>1, <1>2, CountUp
  <2> QED
    BY <2>1
<1> DEFINE part == [n \in Nat |-> CHOOSE f : Good(f, n)]
<1>4. \A n \in Nat : Good(part[n], n)
  <2> HIDE DEF Good
  <2> QED BY <1>3 DEF Reached
<1> HIDE DEF part
<1>5. ASSUME NEW n \in Nat, NEW c \in Ids, S[c].height < n
      PROVE  part[n][c] = part[n - 1][c]
  <2> DEFINE m == n - 1
  <2>1. m \in Nat /\ S[c].height <= m /\ m <= n
    BY <1>5 DEF IsTree
  <2>2. Good(part[n], m) /\ Good(part[m], m)
    BY <1>4, <2>1 DEF IsTree
  <2> HIDE DEF m
  <2>4. \A x \in Ids : S[x].height <= m => /\ part[n][x] = Step(S, h, part[n], x)
                                           /\ part[m][x] = Step(S, h, part[m], x)
    BY <2>2
  <2> DEFINE f == part[n]
  <2> DEFINE g == part[m]
  <2> HIDE DEF f, g, Good
  <2>5. \A x \in Ids : S[x].height <= m => f[x] = Step(S, h, f, x) /\ g[x] = Step(S, h, g, x)
    BY <2>4 DEF f, g
  <2>6. \A x \in Ids : S[x].height <= m => f[x] = g[x]
    BY <2>1, <2>5, WalksAgree
  <2> QED
    BY <2>1, <2>6 DEF m, f, g
<1> DEFINE up == [c \in Ids |-> part[S[c].height][c]]
<1>6. ASSUME NEW c \in Ids
      PROVE  up[c] = Step(S, h, up, c)
  <2>1. S[c].height \in Nat
    BY DEF IsTree
  <2>2. up[c] = Step(S, h, part[S[c].height], c)
    BY <1>4, <2>1
  <2>3. CASE S[c].height <= h \/ c = NoSuperblock
    BY <2>2, <2>3 DEF Step
  <2>4. CASE ~(S[c].height <= h \/ c = NoSuperblock)
    <3> DEFINE p == S[c].parentId
    <3>1. p \in Ids /\ S[p].height \in Nat /\ S[c].height = S[p].height + 1
      BY <2>4 DEF IsTree
    <3>2. S[p].height < S[c].height /\ S[p].height = S[c].height - 1
      BY <3>1
    <3>3. part[S[c].height][p] = part[S[p].height][p]
      <4> DEFINE n == S[c].height
      <4> HIDE DEF n, p, up, Good
      <4>1. n \in Nat /\ S[p].height < n /\ S[p].height = n - 1
        BY <2>1, <3>2 DEF n
      <4>2. part[n][p] = part[n - 1][p]
        BY <1>5, <3>1, <4>1
      <4> QED
        BY <4>1, <4>2 DEF n
    <3>4. up[p] = part[S[p].height][p]
      BY <3>1
    <3> HIDE DEF up
    <3> QED
      BY <2>2, <2>4, <3>3, <3>4 DEF Step
  <2> QED
    BY <2>3, <2>4
<1>7. IsUp(S, h, up)
  <2>1. up = [c \in Ids |-> up[c]]
    OBVIOUS
  <2> HIDE DEF up
  <2> QED
    BY <1>6, <2>1 DEF IsUp
<1> QED
  BY <1>7

\* So a walk to the ancestor goes by the parents.
LEMMA UpStep ==
  ASSUME NEW S, IsTree(S), NEW h \in Nat, NEW b \in Ids
  PROVE  UpTo(S, b, h) = IF S[b].height <= h THEN b
                         ELSE UpTo(S, S[b].parentId, h)
<1> DEFINE up == CHOOSE f : IsUp(S, h, f)
<1>1. IsUp(S, h, up)
  BY UpExists
<1>2. \A c : UpTo(S, c, h) = up[c]
  BY DEF UpTo, IsUp, Step
<1> HIDE DEF up
<1>3. up[b] = Step(S, h, up, b)
  BY <1>1 DEF IsUp
<1>4. b = NoSuperblock => S[b].height <= h
  BY DEF IsTree
<1> QED
  BY <1>2, <1>3, <1>4 DEF Step

\* It ends at the height asked for, or stays.
LEMMA UpHeight ==
  ASSUME NEW S, IsTree(S), NEW h \in Nat
  PROVE  \A b \in Ids : /\ UpTo(S, b, h) \in Ids
                        /\ S[b].height >= h => S[UpTo(S, b, h)].height = h
                        /\ S[b].height <= h => UpTo(S, b, h) = b
<1> DEFINE Holds(b) == /\ UpTo(S, b, h) \in Ids
                       /\ S[b].height >= h => S[UpTo(S, b, h)].height = h
                       /\ S[b].height <= h => UpTo(S, b, h) = b
<1> DEFINE Bad == {b \in Ids : ~Holds(b)}
<1> SUFFICES ASSUME Bad # {} PROVE FALSE
  OBVIOUS
<1>1. PICK b \in Bad : \A c \in Bad : S[b].height <= S[c].height
  <2>1. Bad \in SUBSET Ids
    OBVIOUS
  <2> HIDE DEF Bad
  <2> QED BY <2>1, Lowest
<1>2. S[b].height \in Nat
  BY DEF IsTree
<1>3. S[b].height > h
  BY <1>2, UpStep
<1> DEFINE p == S[b].parentId
<1>4. p \in Ids /\ S[p].height \in Nat /\ S[b].height = S[p].height + 1
  BY <1>3 DEF IsTree
<1>5. UpTo(S, b, h) = UpTo(S, p, h)
  BY <1>2, <1>3, UpStep
<1>6. Holds(p)
  BY <1>1, <1>4
<1> QED
  BY <1>3, <1>4, <1>5, <1>6

\* A walk may rest on the way.
LEMMA UpFurther ==
  ASSUME NEW S, IsTree(S), NEW h \in Nat, NEW s \in Nat, h <= s
  PROVE  \A b \in Ids : UpTo(S, UpTo(S, b, s), h) = UpTo(S, b, h)
<1> DEFINE Bad == {b \in Ids : UpTo(S, UpTo(S, b, s), h) # UpTo(S, b, h)}
<1> SUFFICES ASSUME Bad # {} PROVE FALSE
  OBVIOUS
<1>1. PICK b \in Bad : \A c \in Bad : S[b].height <= S[c].height
  <2>1. Bad \in SUBSET Ids
    OBVIOUS
  <2> HIDE DEF Bad
  <2> QED BY <2>1, Lowest
<1>2. S[b].height \in Nat
  BY DEF IsTree
<1>3. S[b].height > s
  BY <1>2, UpStep
<1> DEFINE p == S[b].parentId
<1>4. p \in Ids /\ S[p].height \in Nat /\ S[b].height = S[p].height + 1
  BY <1>3 DEF IsTree
<1>5. UpTo(S, b, s) = UpTo(S, p, s) /\ UpTo(S, b, h) = UpTo(S, p, h)
  BY <1>2, <1>3, UpStep
<1> QED
  BY <1>1, <1>4, <1>5

\* A tree that grows keeps its walks.
LEMMA UpKept ==
  ASSUME NEW S, IsTree(S), NEW T, IsTree(T), NEW h \in Nat, NEW R \in SUBSET Ids,
         \A c \in R : /\ T[c].height = S[c].height
                      /\ T[c].parentId = S[c].parentId
                      /\ S[c].height > 0 => S[c].parentId \in R
  PROVE  \A b \in R : UpTo(T, b, h) = UpTo(S, b, h)
<1> DEFINE Bad == {b \in R : UpTo(T, b, h) # UpTo(S, b, h)}
<1> SUFFICES ASSUME Bad # {} PROVE FALSE
  OBVIOUS
<1>1. PICK b \in Bad : \A c \in Bad : S[b].height <= S[c].height
  <2>1. Bad \in SUBSET Ids
    OBVIOUS
  <2> HIDE DEF Bad
  <2> QED BY <2>1, Lowest
<1>2. b \in Ids /\ S[b].height \in Nat
  BY DEF IsTree
<1>3. S[b].height > h
  BY <1>2, UpStep
<1> DEFINE p == S[b].parentId
<1>4. p \in R /\ S[p].height \in Nat /\ S[b].height = S[p].height + 1
  BY <1>3 DEF IsTree
<1>5. UpTo(S, b, h) = UpTo(S, p, h) /\ UpTo(T, b, h) = UpTo(T, p, h)
  BY <1>2, <1>3, UpStep
<1> QED
  BY <1>1, <1>4, <1>5

-----------------------------------------------------------------------------
(* The slots of a superblock lead to the ancestors they stand for.         *)

\* What is not registered has no height.
Unborn == \A b \in Superblocks \ Registered : HeightOf(b) = 0

\* The index of a registered superblock leads back to it, and its slots hold
\* indexes in use.
Indexed ==
  \A b \in Registered :
    /\ superblocks[b].index < indexNextSuperblock
    /\ indexSuperblock[superblocks[b].index] = b
    /\ \A i \in Depths : superblocks[b].ancestors[i] < indexNextSuperblock

\* The height that slot i of a superblock leads to: the highest below it that is
\* one above a multiple of the power.
SlotHeight(height, i) == (height - 2) - ((height - 2) % getAncDepth[i]) + 1

\* It is an ancestor's.
SlotsServe ==
  \A b \in Registered : HeightOf(b) > 1 =>
    \A i \in Depths :
      getSuperblockAncestor(b, i) = AncestorAt(b, SlotHeight(HeightOf(b), i))

SkipInv == IInv /\ Unborn /\ Indexed /\ SlotsServe

\* The walk of AncestorAt is that of the tree that is stored.
LEMMA Ancestors ==
  \A b, h : AncestorAt(b, h) = UpTo(superblocks, b, h)
  BY DEF AncestorAt, UpTo, HeightOf, ParentOf

\* The same, of the state after a step.
LEMMA AncestorsNext ==
  \A b, h : AncestorAt(b, h)' = UpTo(superblocks', b, h)
  BY DEF AncestorAt, UpTo, HeightOf, ParentOf

\* The superblocks are a tree by their heights.
LEMMA HeightsFit ==
  ASSUME NEW S \in [Ids -> SuperblockInfo], S[NoSuperblock] = Blank,
         \A b \in Superblocks : S[b].status = "Uninitialized" => S[b].height = 0,
         \A b \in Superblocks : S[b].status # "Uninitialized" =>
           S[b].height = S[S[b].parentId].height + 1
  PROVE  IsTree(S)
<1>1. \A b \in Ids : S[b].height \in Nat /\ S[b].parentId \in Ids
  BY DEF SuperblockInfo
<1>2. S[NoSuperblock].height = 0
  BY DEF Blank
<1>3. ASSUME NEW b \in Ids, S[b].height > 0
      PROVE  b # NoSuperblock /\ S[b].height = S[S[b].parentId].height + 1
  <2>1. b # NoSuperblock
    BY <1>2, <1>3
  <2>2. b \in Superblocks
    BY <2>1 DEF Ids
  <2>3. S[b].height # 0
    BY <1>3
  <2> QED
    BY <2>1, <2>2, <2>3
<1> QED
  BY <1>1, <1>3 DEF IsTree

\* What is stored is a tree by its heights.
LEMMA StoredTree == ASSUME IInv, Unborn PROVE IsTree(superblocks)
<1>1. superblocks \in [Ids -> SuperblockInfo] /\ superblocks[NoSuperblock] = Blank
  BY DEF IInv, TypeOK, NullIsBlank
<1>2. \A b \in Superblocks :
        IF superblocks[b].status = "Uninitialized" THEN superblocks[b].height = 0
        ELSE superblocks[b].height = superblocks[superblocks[b].parentId].height + 1
  BY DEF IInv, Unborn, Rooted, Registered, StatusOf, HeightOf, ParentOf
<1> QED
  BY <1>1, <1>2, HeightsFit

\* The same, of the state after a step.
LEMMA StoredTreeNext == ASSUME IInv', Unborn' PROVE IsTree(superblocks')
<1>1. superblocks' \in [Ids -> SuperblockInfo] /\ superblocks'[NoSuperblock] = Blank
  BY DEF IInv, TypeOK, NullIsBlank
<1>2. \A b \in Superblocks :
        IF superblocks'[b].status = "Uninitialized" THEN superblocks'[b].height = 0
        ELSE superblocks'[b].height = superblocks'[superblocks'[b].parentId].height + 1
  BY DEF IInv, Unborn, Rooted, Registered, StatusOf, HeightOf, ParentOf
<1> QED
  BY <1>1, <1>2, HeightsFit

\* A slot leads to a lower height, and no further than its power.
LEMMA SlotBounds ==
  ASSUME NEW height \in Nat, height > 1, NEW i \in Nat
  PROVE  /\ SlotHeight(height, i) \in Nat
         /\ SlotHeight(height, i) >= 1
         /\ SlotHeight(height, i) < height
         /\ height - SlotHeight(height, i) <= getAncDepth[i]
<1> DEFINE n == height - 2
<1> DEFINE c == getAncDepth[i]
<1>1. n \in Nat /\ c \in Nat \ {0}
  BY PowersType
<1>2. PICK q \in Nat, r \in 0 .. c - 1 : n = c * q + r /\ r = n % c
  BY <1>1, Division
<1>3. c * q \in Nat
  BY <1>1
<1>4. SlotHeight(height, i) = (n - r) + 1
  BY <1>2 DEF SlotHeight
<1> HIDE DEF c
<1>5. r \in Nat /\ r <= n /\ r < c
  BY <1>1, <1>2, <1>3
<1> QED
  BY <1>1, <1>4, <1>5 DEF c

\* A slot that takes the parent leads to it, and another where the parent's
\* own leads.
LEMMA SlotNext ==
  ASSUME NEW p \in Nat, p > 0, NEW i \in Depths
  PROVE  IF \A j \in 1 .. i : p % getAncDepth[j] = 1
         THEN SlotHeight(p + 1, i) = p
         ELSE p > 1 /\ SlotHeight(p + 1, i) = SlotHeight(p, i)
<1>1. i \in Nat
  BY DEF Depths
<1> DEFINE m == p - 1
<1>2. m \in Nat /\ p = m + 1 /\ (p + 1) - 2 = m
  OBVIOUS
<1>3. \A j \in Nat \ {0} : getAncDepth[j] > 1 /\ getAncDepth[j] \in Nat
  BY PowersType
<1>4. \A j \in Nat \ {0} : m % getAncDepth[j] = 0 <=> p % getAncDepth[j] = 1
  <2> SUFFICES ASSUME NEW j \in Nat \ {0}
               PROVE  m % getAncDepth[j] = 0 <=> p % getAncDepth[j] = 1
    OBVIOUS
  <2> DEFINE c == getAncDepth[j]
  <2>1. c \in Nat /\ c > 1
    BY <1>3
  <2> HIDE DEF c, m
  <2>2. m % c = 0 <=> (m + 1) % c = 1
    BY <1>2, <2>1, OneMore
  <2> QED
    BY <1>2, <2>2 DEF c
<1>5. CASE \A j \in 1 .. i : p % getAncDepth[j] = 1
  <2>1. m % getAncDepth[i] = 0
    <3>1. CASE i = 0
      <4>1. getAncDepth[i] = 1
        BY <3>1, Powers
      <4> HIDE DEF m
      <4>2. m % 1 = 0
        BY <1>2
      <4> QED BY <4>1, <4>2
    <3>2. CASE i # 0
      BY <1>1, <1>4, <1>5, <3>2
    <3> QED
      BY <3>1, <3>2
  <2>2. SlotHeight(p + 1, i) = (m - 0) + 1
    BY <1>2, <2>1 DEF SlotHeight
  <2> QED
    BY <1>2, <1>5, <2>2
<1>6. CASE ~ \A j \in 1 .. i : p % getAncDepth[j] = 1
  <2>1. m % getAncDepth[i] # 0
    <3> SUFFICES ASSUME m % getAncDepth[i] = 0 PROVE FALSE
      OBVIOUS
    <3> DEFINE Zero == {k \in Nat : k <= i => m % getAncDepth[i - k] = 0}
    <3>1. 0 \in Zero
      BY <1>1
    <3>2. \A k \in 0 .. i : k \in Zero /\ k < i => k + 1 \in Zero
      <4> SUFFICES ASSUME NEW k \in 0 .. i, k \in Zero, k < i
                   PROVE  m % getAncDepth[i - (k + 1)] = 0
        OBVIOUS
      <4> DEFINE j == i - (k + 1)
      <4>1. j \in Nat /\ j + 1 = i - k
        BY <1>1
      <4> DEFINE c == getAncDepth[j]
      <4> HIDE DEF j
      <4>2. c \in Nat \ {0} /\ getAncDepth[j + 1] = AncestorStep * c
        BY <4>1, PowersType, Powers
      <4> HIDE DEF c, m
      <4>3. m % (AncestorStep * c) = 0
        BY <4>1, <4>2 DEF m
      <4>4. AncestorStep \in Nat \ {0}
        OBVIOUS
      <4>5. m % c = 0
        BY <1>2, <4>2, <4>3, <4>4, Divides
      <4> QED
        BY <4>5 DEF c, j
    <3> HIDE DEF Zero
    <3>3. \A k \in 0 .. i : k \in Zero
      BY <1>1, <3>1, <3>2, CountUp
    <3>4. ASSUME NEW j \in 1 .. i
          PROVE  m % getAncDepth[j] = 0
      <4>1. i - j \in 0 .. i /\ i - (i - j) = j
        BY <1>1
      <4>2. i - j \in Zero
        BY <3>3, <4>1
      <4> HIDE DEF m
      <4> QED
        BY <1>1, <4>1, <4>2 DEF Zero
    <3> QED
      BY <1>4, <1>6, <3>4
  <2>2. m # 0
    <3>1. getAncDepth[i] \in Nat \ {0}
      BY <1>1, PowersType
    <3> DEFINE c == getAncDepth[i]
    <3> HIDE DEF c
    <3>2. 0 % c = 0
      BY <3>1 DEF c
    <3> QED
      BY <2>1, <3>2 DEF c
  <2> DEFINE n == p - 2
  <2> DEFINE c == getAncDepth[i]
  <2>3. n \in Nat /\ m = n + 1 /\ c \in Nat \ {0} /\ p > 1
    BY <1>1, <1>2, <2>2, PowersType
  <2>4. SlotHeight(p + 1, i) = m - (m % c) + 1 /\ SlotHeight(p, i) = n - (n % c) + 1
    BY <1>2 DEF SlotHeight
  <2> HIDE DEF c, n, m
  <2>5. n - (n % c) = (n + 1) - ((n + 1) % c)
    <3>1. (n + 1) % c # 0
      BY <2>1, <2>3 DEF c
    <3> QED
      BY <2>3, <3>1, SameMultiple
  <2> QED
    BY <1>6, <2>3, <2>4, <2>5
<1> QED
  BY <1>5, <1>6

\* The data of registered superblocks and their walks stay.
LEMMA WalksStay ==
  ASSUME IInv, Unborn, IInv', Unborn',
         \A c \in Registered : /\ HeightOf(c)' = HeightOf(c)
                              /\ ParentOf(c)' = ParentOf(c)
  PROVE  \A b \in Registered, h \in Nat : AncestorAt(b, h)' = AncestorAt(b, h)
<1>1. IsTree(superblocks) /\ IsTree(superblocks')
  BY StoredTree, StoredTreeNext
<1> DEFINE R == Registered \cup {NoSuperblock}
<1>2. ASSUME NEW c \in R
      PROVE  /\ superblocks'[c].height = superblocks[c].height
             /\ superblocks'[c].parentId = superblocks[c].parentId
             /\ superblocks[c].height > 0 => superblocks[c].parentId \in R
  <2>1. CASE c = NoSuperblock
    BY <2>1 DEF IInv, NullIsBlank, Blank
  <2>2. CASE c \in Registered
    BY <2>2 DEF IInv, Rooted, HeightOf, ParentOf
  <2> QED
    BY <2>1, <2>2
<1>3. R \in SUBSET Ids
  BY DEF Registered, Ids
<1> HIDE DEF R
<1>4. ASSUME NEW h \in Nat
      PROVE  \A b \in R : UpTo(superblocks', b, h) = UpTo(superblocks, b, h)
  BY <1>1, <1>2, <1>3, UpKept
<1> QED
  BY <1>4, Ancestors, AncestorsNext DEF R

\* A transaction that changes statuses only keeps the skip list.
LEMMA SkipKept ==
  ASSUME SkipInv, IInv', UNCHANGED indexVars, Registered' = Registered,
         \A c \in Ids : superblocks'[c] = [superblocks[c] EXCEPT !.status = StatusOf(c)']
  PROVE  SkipInv'
<1> USE DEF SkipInv
<1>1. ASSUME NEW c \in Ids
      PROVE  /\ HeightOf(c)' = HeightOf(c)
             /\ ParentOf(c)' = ParentOf(c)
             /\ superblocks'[c].index = superblocks[c].index
             /\ superblocks'[c].ancestors = superblocks[c].ancestors
  <2>1. superblocks[c] \in SuperblockInfo
    BY DEF IInv, TypeOK
  <2> QED
    BY <2>1 DEF SuperblockInfo, HeightOf, ParentOf
<1>2. Registered \subseteq Ids /\ Superblocks \subseteq Ids
  BY DEF Registered, Ids
<1>3. Unborn'
  BY <1>1, <1>2 DEF Unborn
<1>4. Indexed'
  BY <1>1, <1>2 DEF Indexed, indexVars
<1>5. \A b \in Registered, h \in Nat : AncestorAt(b, h)' = AncestorAt(b, h)
  BY <1>1, <1>2, <1>3, WalksStay
<1>6. ASSUME NEW b \in Registered, HeightOf(b)' > 1, NEW i \in Depths
      PROVE  getSuperblockAncestor(b, i)' = AncestorAt(b, SlotHeight(HeightOf(b), i))'
  <2>1. HeightOf(b)' = HeightOf(b) /\ HeightOf(b) > 1 /\ HeightOf(b) \in Nat
    BY <1>1, <1>2, <1>6 DEF IInv, TypeOK, SuperblockInfo, HeightOf
  <2>2. getSuperblockAncestor(b, i)' = getSuperblockAncestor(b, i)
    BY <1>1, <1>2 DEF getSuperblockAncestor, indexVars
  <2>3. SlotHeight(HeightOf(b), i) \in Nat
    BY <2>1, SlotBounds DEF Depths
  <2>4. AncestorAt(b, SlotHeight(HeightOf(b), i))' = AncestorAt(b, SlotHeight(HeightOf(b), i))
    <3> DEFINE h == SlotHeight(HeightOf(b), i)
    <3>1. SlotHeight(HeightOf(b), i)' = h
      BY <2>1 DEF SlotHeight
    <3>2. AncestorAt(b, SlotHeight(HeightOf(b), i))' = UpTo(superblocks', b, SlotHeight(HeightOf(b), i)')
      BY AncestorsNext DEF AncestorAt, UpTo, HeightOf, ParentOf
    <3> HIDE DEF h
    <3>3. AncestorAt(b, h) = UpTo(superblocks', b, h)
      BY <1>5, <2>3, AncestorsNext DEF h
    <3> QED
      BY <3>1, <3>2, <3>3 DEF h
  <2> QED
    BY <2>1, <2>2, <2>4 DEF SlotsServe
<1> QED
  BY <1>3, <1>4, <1>6 DEF SlotsServe

-----------------------------------------------------------------------------
(* Every step keeps the skip list.                                         *)

\* A registration keeps the skip list: the genesis has no use for its slots, and
\* those of a child lead where they should.
LEMMA SkipRegister ==
  ASSUME SkipInv, IInv', NEW b \in Superblocks, NEW info \in SuperblockInfo,
         Register(b, info), info.status # "Uninitialized",
         info.index = indexNextSuperblock,
         \/ /\ info.height = 1
            /\ \A i \in Depths : info.ancestors[i] = 0
         \/ \E p \in Registered :
              /\ info.parentId = p
              /\ info.height = HeightOf(p) + 1
              /\ info.ancestors = updateAncestors(superblocks[p].ancestors,
                                                  superblocks[p].index, HeightOf(p))
  PROVE  SkipInv'
<1> USE DEF SkipInv
<1> DEFINE n == indexNextSuperblock
<1>1. /\ superblocks'[b] = info
      /\ \A c \in Ids : c # b => superblocks'[c] = superblocks[c]
  BY RegisterEffect DEF IInv
<1>2. b \notin Registered /\ Registered' = Registered \cup {b}
  BY <1>1 DEF Register, Registered, StatusOf, Ids
<1>3. Registered \subseteq Ids /\ Superblocks \subseteq Ids
  BY DEF Registered, Ids
<1>4. /\ n \in Nat /\ indexNextSuperblock' = n + 1
      /\ indexSuperblock'[n] = b
      /\ \A j \in Nat : j < n => indexSuperblock'[j] = indexSuperblock[j]
  BY DEF IInv, TypeOK, Register
<1>5. \A c \in Registered : superblocks'[c] = superblocks[c] /\ superblocks[c] \in SuperblockInfo
  BY <1>1, <1>2, <1>3 DEF IInv, TypeOK
<1>6. Unborn'
  <2>1. \A c \in Superblocks : c # b => superblocks'[c] = superblocks[c]
    BY <1>1, <1>3
  <2> QED
    BY <1>2, <2>1 DEF Unborn, HeightOf
<1>7. \A c \in Registered, h \in Nat : AncestorAt(c, h)' = AncestorAt(c, h)
  <2>1. \A c \in Registered : HeightOf(c)' = HeightOf(c) /\ ParentOf(c)' = ParentOf(c)
    BY <1>5 DEF HeightOf, ParentOf
  <2> QED
    BY <1>6, <2>1, WalksStay
<1>8. ASSUME NEW c \in Registered
      PROVE  /\ superblocks'[c].index \in Nat /\ superblocks'[c].index < n
             /\ indexSuperblock'[superblocks'[c].index] = c
             /\ \A i \in Depths : /\ superblocks'[c].ancestors[i] \in Nat
                                  /\ superblocks'[c].ancestors[i] < n
  <2>1. superblocks'[c] = superblocks[c] /\ superblocks[c] \in SuperblockInfo
    BY <1>5
  <2>2. /\ superblocks[c].index \in Nat
        /\ \A i \in Depths : superblocks[c].ancestors[i] \in Nat
    BY <2>1 DEF SuperblockInfo
  <2>3. /\ superblocks[c].index < n
        /\ indexSuperblock[superblocks[c].index] = c
        /\ \A i \in Depths : superblocks[c].ancestors[i] < n
    BY DEF Indexed
  <2> QED
    BY <1>4, <2>1, <2>2, <2>3
<1>9. \A i \in Depths : info.ancestors[i] \in Nat /\ info.ancestors[i] <= n
  <2>1. CASE \A i \in Depths : info.ancestors[i] = 0
    BY <1>4, <2>1
  <2>2. ASSUME NEW p \in Registered,
               info.ancestors = updateAncestors(superblocks[p].ancestors,
                                                superblocks[p].index, HeightOf(p))
        PROVE  \A i \in Depths : info.ancestors[i] \in Nat /\ info.ancestors[i] <= n
    <3>1. superblocks'[p] = superblocks[p]
      BY <1>5
    <3>2. ASSUME NEW i \in Depths
          PROVE  info.ancestors[i] \in {superblocks[p].index, superblocks[p].ancestors[i]}
      BY <2>2 DEF updateAncestors
    <3>3. ASSUME NEW i \in Depths
          PROVE  /\ superblocks[p].index \in Nat /\ superblocks[p].index <= n
                 /\ superblocks[p].ancestors[i] \in Nat /\ superblocks[p].ancestors[i] <= n
      BY <1>4, <1>8, <3>1
    <3> QED
      BY <3>2, <3>3
  <2> QED
    BY <2>1, <2>2
<1>10. Indexed'
  <2>1. ASSUME NEW c \in Registered
        PROVE  /\ superblocks'[c].index < indexNextSuperblock'
               /\ indexSuperblock'[superblocks'[c].index] = c
               /\ \A i \in Depths : superblocks'[c].ancestors[i] < indexNextSuperblock'
    BY <1>4, <1>8
  <2>2. /\ superblocks'[b].index < indexNextSuperblock'
        /\ indexSuperblock'[superblocks'[b].index] = b
        /\ \A i \in Depths : superblocks'[b].ancestors[i] < indexNextSuperblock'
    BY <1>1, <1>4, <1>9
  <2> QED
    BY <1>2, <2>1, <2>2 DEF Indexed
<1>11. \A c \in Ids : \A i : getSuperblockAncestor(c, i)' = indexSuperblock'[superblocks'[c].ancestors[i]]
  BY DEF getSuperblockAncestor
<1>12. \A c \in Ids, i \in Nat : AncestorAt(c, SlotHeight(HeightOf(c), i))' =
                             UpTo(superblocks', c, SlotHeight(superblocks'[c].height, i))
  BY DEF AncestorAt, UpTo, HeightOf, ParentOf, SlotHeight
<1>13. ASSUME NEW c \in Registered, NEW i \in Depths, superblocks[c].height > 1
       PROVE  /\ indexSuperblock'[superblocks[c].ancestors[i]]
                   = UpTo(superblocks', c, SlotHeight(superblocks[c].height, i))
  <2>1. i \in Nat /\ c \in Ids /\ superblocks[c].height \in Nat
    BY <1>3, <1>5 DEF Depths, SuperblockInfo
  <2> DEFINE h == SlotHeight(superblocks[c].height, i)
  <2>2. h \in Nat
    BY <1>13, <2>1, SlotBounds
  <2>3. getSuperblockAncestor(c, i) = AncestorAt(c, h)
    BY <1>13 DEF SlotsServe, HeightOf
  <2> HIDE DEF h
  <2>4. AncestorAt(c, h) = UpTo(superblocks', c, h)
    BY <1>7, <2>2, AncestorsNext
  <2>5. superblocks[c].ancestors[i] \in Nat /\ superblocks[c].ancestors[i] < n
    BY <1>5, <1>8
  <2>6. indexSuperblock'[superblocks[c].ancestors[i]] = getSuperblockAncestor(c, i)
    BY <1>4, <2>5 DEF getSuperblockAncestor
  <2> QED
    BY <2>3, <2>4, <2>6 DEF h
<1>14. ASSUME NEW i \in Depths, superblocks'[b].height > 1
       PROVE  indexSuperblock'[superblocks'[b].ancestors[i]]
                = UpTo(superblocks', b, SlotHeight(superblocks'[b].height, i))
  <2>1. PICK p \in Registered :
          /\ info.parentId = p
          /\ info.height = HeightOf(p) + 1
          /\ info.ancestors = updateAncestors(superblocks[p].ancestors,
                                              superblocks[p].index, HeightOf(p))
    BY <1>1, <1>14
  <2> DEFINE H == superblocks[p].height
  <2>2. H \in Nat /\ H > 0 /\ p \in Ids /\ i \in Nat
    BY <1>1, <1>3, <1>5, <1>14, <2>1 DEF SuperblockInfo, HeightOf, Depths
  <2>3. /\ superblocks'[b].height = H + 1
        /\ superblocks'[b].parentId = p
        /\ superblocks'[p] = superblocks[p]
        /\ b \in Ids
    BY <1>1, <1>3, <1>5, <2>1 DEF HeightOf
  <2>4. IsTree(superblocks')
    BY <1>6, StoredTreeNext
  <2>5. ASSUME NEW h \in Nat, h <= H
        PROVE  UpTo(superblocks', b, h) = UpTo(superblocks', p, h)
    <3>1. ~(superblocks'[b].height <= h)
      BY <2>2, <2>3, <2>5
    <3> QED
      BY <2>3, <2>4, <3>1, UpStep
  <2>6. CASE \A j \in 1 .. i : H % getAncDepth[j] = 1
    <3>1. superblocks'[b].ancestors[i] = superblocks[p].index
      BY <1>1, <2>1, <2>6 DEF updateAncestors, HeightOf
    <3>2. SlotHeight(H + 1, i) = H
      BY <2>2, <2>6, SlotNext
    <3>3. UpTo(superblocks', p, H) = p
      BY <2>2, <2>3, <2>4, UpHeight
    <3>4. UpTo(superblocks', b, H) = p
      BY <2>2, <2>5, <3>3
    <3>5. indexSuperblock'[superblocks[p].index] = p
      BY <1>8, <2>3
    <3> HIDE DEF H
    <3> QED
      BY <2>3, <3>1, <3>2, <3>4, <3>5
  <2>7. CASE ~ \A j \in 1 .. i : H % getAncDepth[j] = 1
    <3>1. superblocks'[b].ancestors[i] = superblocks[p].ancestors[i]
      BY <1>1, <2>1, <2>7 DEF updateAncestors, HeightOf
    <3>2. H > 1 /\ SlotHeight(H + 1, i) = SlotHeight(H, i)
      BY <2>2, <2>7, SlotNext
    <3> DEFINE h == SlotHeight(H, i)
    <3>3. h \in Nat /\ h <= H
      BY <2>2, <3>2, SlotBounds
    <3>4. indexSuperblock'[superblocks[p].ancestors[i]] = UpTo(superblocks', p, h)
      BY <1>13, <3>2
    <3> HIDE DEF h
    <3>5. UpTo(superblocks', b, h) = UpTo(superblocks', p, h)
      BY <2>5, <3>3
    <3> HIDE DEF H
    <3> QED
      BY <2>3, <3>1, <3>2, <3>4, <3>5 DEF h
  <2> QED
    BY <2>6, <2>7
<1>15. ASSUME NEW c \in Registered', NEW i \in Depths, HeightOf(c)' > 1
       PROVE  getSuperblockAncestor(c, i)' = AncestorAt(c, SlotHeight(HeightOf(c), i))'
  <2>1. c \in Ids /\ i \in Nat /\ superblocks'[c].height > 1
    BY <1>2, <1>3, <1>15 DEF HeightOf, Depths
  <2>2. CASE c = b
    BY <1>11, <1>12, <1>14, <2>1, <2>2
  <2>3. CASE c # b
    <3>1. c \in Registered /\ superblocks'[c] = superblocks[c]
      BY <1>2, <1>5, <2>3
    <3> QED
      BY <1>11, <1>12, <1>13, <2>1, <3>1
  <2> QED
    BY <2>2, <2>3
<1>16. SlotsServe'
  BY <1>15 DEF SlotsServe
<1> QED
  BY <1>6, <1>10, <1>16

\* Every transaction keeps it.
LEMMA SkipStep ==
  ASSUME SkipInv, [Next]_vars
  PROVE  SkipInv'
<1>1. IInv'
  BY IInvStep DEF SkipInv
<1>2. TypeOK
  BY DEF SkipInv, IInv
<1>3. CASE UNCHANGED vars
  <2>1. \A c \in Ids : superblocks'[c] = [superblocks[c] EXCEPT !.status = StatusOf(c)']
    <3>1. \A c \in Ids : superblocks[c] \in SuperblockInfo
      BY <1>2 DEF TypeOK
    <3> QED
      BY <1>3, <3>1 DEF vars, SuperblockInfo, StatusOf
  <2>2. UNCHANGED indexVars /\ Registered' = Registered
    BY <1>3 DEF vars, indexVars, Registered, StatusOf
  <2> QED
    BY <1>1, <2>1, <2>2, SkipKept
<1>4. ASSUME NEW b \in Superblocks, NEW w \in Works, Initialize(b, w)
      PROVE  SkipInv'
  <2> DEFINE info == [status |-> "Approved", parentId |-> NoSuperblock,
                  accumulatedWork |-> w, index |-> indexNextSuperblock,
                  height |-> 1, ancestors |-> [i \in Depths |-> 0]]
  <2>1. Register(b, info)
    BY <1>4 DEF Initialize
  <2>2. info \in SuperblockInfo
    BY <1>2 DEF SuperblockInfo, TypeOK, Status, Ids
  <2>3. /\ info.status # "Uninitialized" /\ info.index = indexNextSuperblock
        /\ info.height = 1 /\ \A i \in Depths : info.ancestors[i] = 0
    OBVIOUS
  <2> HIDE DEF info
  <2> QED
    BY <1>1, <2>1, <2>2, <2>3, SkipRegister
<1>5. ASSUME NEW b \in Superblocks, NEW p \in Superblocks, NEW w \in Works,
             Propose(b, p, w)
      PROVE  SkipInv'
  <2> DEFINE anc == updateAncestors(superblocks[p].ancestors,
                                    superblocks[p].index, HeightOf(p))
  <2> DEFINE info == [status |-> "New", parentId |-> p,
                  accumulatedWork |-> w, index |-> indexNextSuperblock,
                  height |-> HeightOf(p) + 1, ancestors |-> anc]
  <2>1. Register(b, info)
    BY <1>5 DEF Propose
  <2>2. superblocks[p] \in SuperblockInfo
    BY <1>2 DEF TypeOK, Ids
  <2>3. anc \in [Depths -> Nat] /\ HeightOf(p) + 1 \in Nat
    <3>1. /\ superblocks[p].ancestors \in [Depths -> Nat]
          /\ superblocks[p].index \in Nat /\ HeightOf(p) \in Nat
      BY <2>2 DEF SuperblockInfo, HeightOf
    <3>2. HeightOf(p) + 1 \in Nat
      BY <3>1
    <3>3. anc \in [Depths -> Nat]
      <4> HIDE DEF HeightOf
      <4> QED BY <3>1, UpdateAncestorsType
    <3> HIDE DEF anc
    <3> QED
      BY <3>2, <3>3
  <2>4. info \in SuperblockInfo
    <3> HIDE DEF anc
    <3> QED BY <1>2, <2>3 DEF SuperblockInfo, TypeOK, Status, Ids
  <2>5. p \in Registered
    BY <1>5 DEF Propose, Registered
  <2>6. /\ info.status # "Uninitialized" /\ info.index = indexNextSuperblock
        /\ info.parentId = p /\ info.height = HeightOf(p) + 1
        /\ info.ancestors = anc
    OBVIOUS
  <2> HIDE DEF info
  <2> QED
    BY <1>1, <2>1, <2>4, <2>5, <2>6, SkipRegister
<1>6. CASE ConfirmPath
  <2>1. PICK S \in SUBSET Superblocks : ConfirmAll(S)
    BY <1>6 DEF ConfirmPath
  <2>2. \A c \in Ids : superblocks'[c] = [superblocks[c] EXCEPT !.status = StatusOf(c)']
    BY <1>2, <2>1, ConfirmEffect
  <2>3. /\ \A c \in S : StatusOf(c)' = "Approved" /\ StatusOf(c) # "Uninitialized"
        /\ \A c \in Ids \ S : StatusOf(c)' = StatusOf(c)
    BY <1>2, <2>1, ConfirmEffect DEF ConfirmAll, StatusOf
  <2>4. UNCHANGED indexVars /\ Registered' = Registered
    BY <2>1, <2>3 DEF ConfirmAll, Registered, Ids
  <2> QED
    BY <1>1, <2>2, <2>4, SkipKept
<1>7. ASSUME NEW b \in Superblocks, NEW s \in {"InBattle", "SemiApproved", "Invalid"},
             SetStatus(b, s), StatusOf(b) # "Uninitialized"
      PROVE  SkipInv'
  <2>1. s \in Status
    BY DEF Status
  <2>2. /\ StatusOf(b)' = s
        /\ \A c \in Ids : c # b => superblocks'[c] = superblocks[c]
        /\ \A c \in Ids : superblocks'[c] = [superblocks[c] EXCEPT !.status = StatusOf(c)']
    BY <1>2, <1>7, <2>1, SetStatusEffect
  <2>3. UNCHANGED indexVars /\ Registered' = Registered
    BY <1>7, <2>2 DEF SetStatus, Registered, StatusOf, Ids
  <2> QED
    BY <1>1, <2>2, <2>3, SkipKept
<1> QED
  BY <1>3, <1>4, <1>5, <1>6, <1>7 DEF Next, Challenge, SemiApprove, Invalidate

\* The empty skip list serves.
LEMMA SkipInit == Init => SkipInv
<1> SUFFICES ASSUME Init PROVE SkipInv
  OBVIOUS
<1>1. \A b \in Ids : superblocks[b] = Blank
  BY DEF Init
<1>2. Registered = {} /\ \A b \in Superblocks : HeightOf(b) = 0
  BY <1>1 DEF Registered, StatusOf, HeightOf, Blank, Ids
<1> QED
  BY <1>2, InitIInv DEF SkipInv, Unborn, Indexed, SlotsServe

-----------------------------------------------------------------------------
(* The jumps of getSuperblockAt end where the walk over the parents does.  *)

\* The depth at which getSuperblockAt jumps at b, of those up to i.
Jump(height, b, i) ==
  CHOOSE k \in 0 .. i :
    /\ k = 0 \/ HeightOf(b) - height >= getAncDepth[k]
    /\ \A j \in k + 1 .. i : HeightOf(b) - height < getAncDepth[j]

IsWalk(height, walk) ==
  walk = [b \in Ids |-> [i \in Depths |->
            IF HeightOf(b) <= height THEN b
            ELSE walk[getSuperblockAncestor(b, Jump(height, b, i))][Jump(height, b, i)]]]

\* It is one of the depths, and does not pass below the height.
LEMMA JumpFits ==
  ASSUME TypeOK, NEW height \in Nat, NEW b \in Ids, NEW i \in Depths
  PROVE  /\ Jump(height, b, i) \in Depths
         /\ \/ Jump(height, b, i) = 0
            \/ HeightOf(b) - height >= getAncDepth[Jump(height, b, i)]
<1> DEFINE Fits(k) == k = 0 \/ HeightOf(b) - height >= getAncDepth[k]
<1>1. i \in Nat /\ HeightOf(b) \in Nat /\ 0 .. i \subseteq Depths
  BY DEF Depths, TypeOK, SuperblockInfo, HeightOf
<1>2. \A k \in Nat : getAncDepth[k] \in Nat
  BY PowersType
<1> DEFINE D == HeightOf(b) - height
<1> DEFINE Left == {m \in 0 .. i : Fits(i - m)}
<1>3. Left \in SUBSET Nat /\ i \in Left
  BY <1>1
<1>4. PICK m \in Left : \A k \in Left : m <= k
  <2> HIDE DEF Left
  <2> QED BY <1>3, LeastNatural
<1>5. i - m \in 0 .. i /\ Fits(i - m)
  BY <1>1
<1>6. ASSUME NEW j \in (i - m) + 1 .. i
      PROVE  D < getAncDepth[j]
  <2>1. i - j \in 0 .. i /\ i - j < m /\ i - (i - j) = j /\ j \in Nat
    BY <1>1, <1>6
  <2>2. i - j \notin Left
    BY <1>4, <2>1
  <2>3. ~Fits(j)
    BY <2>1, <2>2
  <2>4. D \in Int /\ getAncDepth[j] \in Int
    BY <1>1, <1>2, <2>1
  <2> QED
    BY <2>3, <2>4
<1>7. \E k \in 0 .. i : Fits(k) /\ \A j \in k + 1 .. i : D < getAncDepth[j]
  BY <1>5, <1>6
<1>8. Jump(height, b, i) \in 0 .. i /\ Fits(Jump(height, b, i))
  BY <1>7 DEF Jump
<1> QED
  BY <1>1, <1>8

\* A jump from above the height leads to an ancestor that is not below it.
LEMMA JumpServes ==
  ASSUME SkipInv, NEW height \in Nat, height > 0, NEW b \in Ids, NEW i \in Depths,
         HeightOf(b) > height
  PROVE  LET t == getSuperblockAncestor(b, Jump(height, b, i))
         IN  /\ t \in Ids
             /\ HeightOf(t) < HeightOf(b)
             /\ AncestorAt(t, height) = AncestorAt(b, height)
<1> DEFINE k == Jump(height, b, i)
<1>1. TypeOK /\ IsTree(superblocks) /\ HeightOf(b) \in Nat
  BY StoredTree DEF SkipInv, IInv, TypeOK, SuperblockInfo, HeightOf
<1>2. k \in Depths /\ (k = 0 \/ HeightOf(b) - height >= getAncDepth[k])
  BY <1>1, JumpFits
<1>3. k \in Nat /\ HeightOf(b) - height >= getAncDepth[k]
  BY <1>1, <1>2, Powers DEF Depths
<1>4. b \in Registered /\ HeightOf(b) > 1
  <2>1. HeightOf(b) # 0 /\ HeightOf(b) > 1
    BY <1>1
  <2> QED
    BY <2>1 DEF SkipInv, IInv, NullIsBlank, Blank, Unborn, Ids, HeightOf
<1> HIDE DEF k
<1> DEFINE s == SlotHeight(HeightOf(b), k)
<1>5. s \in Nat /\ s < HeightOf(b) /\ HeightOf(b) - s <= getAncDepth[k]
  BY <1>1, <1>3, <1>4, SlotBounds
<1>6. height <= s
  BY <1>1, <1>3, <1>5, PowersType
<1>7. getSuperblockAncestor(b, k) = UpTo(superblocks, b, s)
  BY <1>2, <1>4, Ancestors DEF SkipInv, SlotsServe
<1> HIDE DEF s
<1>8. UpTo(superblocks, b, s) \in Ids /\ HeightOf(UpTo(superblocks, b, s)) = s
  BY <1>1, <1>5, UpHeight DEF HeightOf
<1>9. UpTo(superblocks, UpTo(superblocks, b, s), height) = UpTo(superblocks, b, height)
  BY <1>1, <1>5, <1>6, UpFurther
<1> QED
  BY <1>5, <1>7, <1>8, <1>9, Ancestors DEF k

\* The recursive function of getSuperblockAt is defined.
LEMMA WalkExists ==
  ASSUME SkipInv, NEW height \in Nat, height > 0
  PROVE  \E walk : IsWalk(height, walk)
<1> DEFINE walk == [b \in Ids |-> [i \in Depths |-> AncestorAt(b, height)]]
<1>1. TypeOK /\ IsTree(superblocks)
  BY StoredTree DEF SkipInv, IInv
<1>2. ASSUME NEW b \in Ids, NEW i \in Depths
      PROVE  AncestorAt(b, height) =
               IF HeightOf(b) <= height THEN b
               ELSE walk[getSuperblockAncestor(b, Jump(height, b, i))][Jump(height, b, i)]
  <2>1. CASE HeightOf(b) <= height
    BY <1>1, <2>1, UpStep, Ancestors DEF HeightOf
  <2>2. CASE ~(HeightOf(b) <= height)
    <3>1. HeightOf(b) > height
      BY <1>1, <2>2 DEF TypeOK, SuperblockInfo, HeightOf
    <3> DEFINE t == getSuperblockAncestor(b, Jump(height, b, i))
    <3>2. t \in Ids /\ AncestorAt(t, height) = AncestorAt(b, height)
      BY <3>1, JumpServes
    <3>3. Jump(height, b, i) \in Depths
      BY <1>1, JumpFits
    <3> HIDE DEF t
    <3>4. walk[t][Jump(height, b, i)] = AncestorAt(t, height)
      BY <3>2, <3>3
    <3> QED
      BY <2>2, <3>2, <3>4 DEF t
  <2> QED
    BY <2>1, <2>2
<1>3. IsWalk(height, walk)
  BY <1>2 DEF IsWalk
<1> QED
  BY <1>3

\* It finds the ancestor.
LEMMA WalkFinds ==
  ASSUME SkipInv, NEW height \in Nat, height > 0, NEW walk, IsWalk(height, walk)
  PROVE  \A b \in Ids, i \in Depths : walk[b][i] = AncestorAt(b, height)
<1> DEFINE Bad == {b \in Ids : \E i \in Depths : walk[b][i] # AncestorAt(b, height)}
<1> SUFFICES ASSUME Bad # {} PROVE FALSE
  OBVIOUS
<1>1. TypeOK /\ IsTree(superblocks)
  BY StoredTree DEF SkipInv, IInv
<1>2. PICK b \in Bad : \A c \in Bad : superblocks[b].height <= superblocks[c].height
  <2>1. Bad \in SUBSET Ids
    OBVIOUS
  <2> HIDE DEF Bad
  <2> QED BY <1>1, <2>1, Lowest
<1>3. PICK i \in Depths : walk[b][i] # AncestorAt(b, height)
  OBVIOUS
<1>4. b \in Ids /\ HeightOf(b) \in Nat
  BY <1>1 DEF TypeOK, SuperblockInfo, HeightOf
<1> DEFINE t == getSuperblockAncestor(b, Jump(height, b, i))
<1>5. walk[b][i] = IF HeightOf(b) <= height THEN b ELSE walk[t][Jump(height, b, i)]
  <2> DEFINE next(c, j) ==
        IF HeightOf(c) <= height THEN c
        ELSE walk[getSuperblockAncestor(c, Jump(height, c, j))][Jump(height, c, j)]
  <2>1. walk = [c \in Ids |-> [j \in Depths |-> next(c, j)]]
    BY DEF IsWalk
  <2> HIDE DEF next
  <2>2. walk[b][i] = next(b, i)
    BY <1>4, <2>1
  <2> QED
    BY <2>2 DEF next
<1>6. HeightOf(b) > height
  <2>1. HeightOf(b) <= height => AncestorAt(b, height) = b
    BY <1>1, <1>4, UpStep, Ancestors DEF HeightOf
  <2> QED
    BY <1>3, <1>4, <1>5, <2>1
<1>7. /\ t \in Ids /\ HeightOf(t) < HeightOf(b)
      /\ AncestorAt(t, height) = AncestorAt(b, height)
  BY <1>4, <1>6, JumpServes
<1>8. HeightOf(t) \in Nat /\ Jump(height, b, i) \in Depths
  BY <1>1, <1>4, <1>7, JumpFits DEF TypeOK, SuperblockInfo, HeightOf
<1>9. t \notin Bad
  <2> HIDE DEF Bad, t
  <2> QED
    BY <1>2, <1>4, <1>7, <1>8 DEF HeightOf
<1> HIDE DEF t
<1>10. walk[t][Jump(height, b, i)] = AncestorAt(t, height)
  BY <1>7, <1>8, <1>9
<1> QED
  BY <1>3, <1>4, <1>5, <1>6, <1>7, <1>10

\* getSuperblockAt finds the ancestor of the best superblock, whatever is asked
\* above the genesis.
LEMMA MainChain ==
  ASSUME SkipInv
  PROVE  \A height \in Nat \ {0} :
           getSuperblockAt(height) = AncestorAt(bestSuperblock, height)
<1> SUFFICES ASSUME NEW height \in Nat, height > 0
             PROVE  getSuperblockAt(height) = AncestorAt(bestSuperblock, height)
  OBVIOUS
<1> DEFINE walk == CHOOSE f : IsWalk(height, f)
<1>1. IsWalk(height, walk)
  BY WalkExists
<1>2. getSuperblockAt(height) = walk[bestSuperblock][NumAncestorDepths - 1]
  BY DEF getSuperblockAt, IsWalk, Jump
<1> HIDE DEF walk
<1>3. bestSuperblock \in Ids /\ NumAncestorDepths - 1 \in Depths
  BY DEF SkipInv, IInv, TypeOK, Depths
<1> QED
  BY <1>1, <1>2, <1>3, WalkFinds

\* The ancestors of an approved superblock are approved, down to the genesis.
LEMMA ApprovedAncestors ==
  ASSUME SkipInv, NEW h \in Nat, h > 0
  PROVE  \A b \in Approved :
           HeightOf(b) >= h => UpTo(superblocks, b, h) \in Approved
<1> DEFINE Bad == {b \in Approved :
                     HeightOf(b) >= h /\ UpTo(superblocks, b, h) \notin Approved}
<1> SUFFICES ASSUME Bad # {} PROVE FALSE
  OBVIOUS
<1>1. TypeOK /\ Rooted /\ ApprovedClosed /\ NullIsBlank /\ IsTree(superblocks)
  BY StoredTree DEF SkipInv, IInv
<1>2. PICK b \in Bad : \A c \in Bad : superblocks[b].height <= superblocks[c].height
  <2>1. Bad \in SUBSET Ids
    BY DEF Approved, Ids
  <2> HIDE DEF Bad
  <2> QED BY <1>1, <2>1, Lowest
<1>3. /\ b \in Approved /\ HeightOf(b) >= h /\ b \in Ids /\ HeightOf(b) \in Nat
      /\ UpTo(superblocks, b, h) \notin Approved
  BY <1>1, <1>2 DEF Approved, Ids, TypeOK, SuperblockInfo, HeightOf
<1>4. /\ ~(HeightOf(b) <= h)
      /\ UpTo(superblocks, b, h) = UpTo(superblocks, ParentOf(b), h)
  <2>1. UpTo(superblocks, b, h) = IF HeightOf(b) <= h THEN b
                                  ELSE UpTo(superblocks, ParentOf(b), h)
    BY <1>1, <1>3, UpStep DEF HeightOf, ParentOf
  <2> QED
    BY <1>3, <2>1
<1> DEFINE p == ParentOf(b)
<1>5. p \in Ids /\ HeightOf(p) \in Nat /\ HeightOf(b) = HeightOf(p) + 1
  <2>1. b \in Registered
    BY <1>3 DEF Approved, Registered
  <2> QED
    BY <1>1, <2>1 DEF Rooted, TypeOK, SuperblockInfo, HeightOf, ParentOf, Registered, Ids
<1>6. HeightOf(p) >= h /\ HeightOf(p) > 0
  BY <1>3, <1>4, <1>5
<1>7. p \in Approved
  <2>1. p # NoSuperblock
    BY <1>1, <1>6 DEF NullIsBlank, Blank, HeightOf
  <2> QED
    BY <1>1, <1>3, <2>1 DEF ApprovedClosed
<1>8. p \in Bad
  BY <1>3, <1>4, <1>6, <1>7
<1> HIDE DEF Bad, p
<1> QED
  BY <1>2, <1>3, <1>5, <1>8 DEF HeightOf

\* A superblock that is not where getSuperblockAt looks for it has a rival in
\* the main chain, approved and as far below the best superblock.
LEMMA Rival ==
  ASSUME SkipInv, NEW b \in Registered, NEW n \in Nat,
         getChainHeight >= HeightOf(b) + n,
         getSuperblockAt(HeightOf(b)) # b
  PROVE  LET rival == AncestorAt(bestSuperblock, HeightOf(b))
         IN  /\ rival # b
             /\ HeightOf(rival) = HeightOf(b)
             /\ isApproved(rival)
             /\ \E c \in Superblocks :
                  /\ isApproved(c)
                  /\ AncestorAt(c, HeightOf(rival)) = rival
                  /\ HeightOf(c) >= HeightOf(b) + n
<1> DEFINE rival == AncestorAt(bestSuperblock, HeightOf(b))
<1>1. TypeOK /\ Rooted /\ BestIsHeaviest /\ NullIsBlank /\ IsTree(superblocks)
  BY StoredTree DEF SkipInv, IInv
<1>2. /\ HeightOf(b) \in Nat \ {0}
      /\ bestSuperblock \in Ids /\ HeightOf(bestSuperblock) \in Nat
  <2>1. /\ \A c \in Ids : HeightOf(c) \in Nat /\ ParentOf(c) \in Ids
        /\ bestSuperblock \in Ids /\ b \in Ids
    BY <1>1 DEF TypeOK, SuperblockInfo, HeightOf, ParentOf, Registered, Ids
  <2>2. HeightOf(b) = HeightOf(ParentOf(b)) + 1
    BY <1>1 DEF Rooted
  <2> QED
    BY <2>1, <2>2
<1>3. HeightOf(bestSuperblock) >= HeightOf(b) + n
  BY DEF getChainHeight
<1>4. bestSuperblock \in Approved /\ bestSuperblock \in Superblocks
  <2>1. bestSuperblock # NoSuperblock
    BY <1>1, <1>2, <1>3 DEF NullIsBlank, Blank, HeightOf
  <2> QED
    BY <1>1, <2>1 DEF BestIsHeaviest, Approved
<1>5. rival = UpTo(superblocks, bestSuperblock, HeightOf(b))
  BY Ancestors
<1>6. rival # b
  BY <1>2, MainChain
<1>7. HeightOf(rival) = HeightOf(b)
  BY <1>1, <1>2, <1>3, <1>5, UpHeight DEF HeightOf
<1>8. rival \in Approved
  BY <1>2, <1>3, <1>4, <1>5, ApprovedAncestors
<1>9. isApproved(rival) /\ isApproved(bestSuperblock)
  BY <1>4, <1>8 DEF Approved, isApproved
<1>10. AncestorAt(bestSuperblock, HeightOf(rival)) = rival
  BY <1>7
<1> QED
  BY <1>3, <1>4, <1>6, <1>7, <1>9, <1>10

\* Skip list and locator serve.
LEMMA SkipServes == SkipInv => SkipListServes
<1> SUFFICES ASSUME SkipInv PROVE SkipListServes
  OBVIOUS
<1>1. bestSuperblock \in Ids /\ getChainHeight \in Nat
  BY DEF SkipInv, IInv, TypeOK, SuperblockInfo, getChainHeight, HeightOf
<1>2. MainChainSound
  BY <1>1, MainChain DEF MainChainSound
<1>3. ASSUME getChainHeight - 1 > 0
      PROVE  /\ getSuperblockLocator[0] = bestSuperblock
             /\ \A i \in Depths : getSuperblockLocator[i + 1] =
                  AncestorAt(bestSuperblock,
                    ((getChainHeight - 1) - 1) - (((getChainHeight - 1) - 1) % getAncDepth[i]) + 1)
  <2>1. bestSuperblock \in Registered /\ HeightOf(bestSuperblock) > 1
    BY <1>1, <1>3 DEF SkipInv, IInv, NullIsBlank, Blank, Unborn, Ids, HeightOf, getChainHeight
  <2>2. getSuperblockLocator[0] = bestSuperblock
    BY DEF getSuperblockLocator
  <2>3. ASSUME NEW i \in Depths
        PROVE  getSuperblockLocator[i + 1] =
                 AncestorAt(bestSuperblock, SlotHeight(getChainHeight, i))
    <3>1. i + 1 \in 0 .. NumAncestorDepths /\ i + 1 # 0 /\ (i + 1) - 1 = i
      BY DEF Depths
    <3>2. getSuperblockLocator[i + 1] = getSuperblockAncestor(bestSuperblock, i)
      BY <3>1 DEF getSuperblockLocator
    <3> QED
      BY <2>1, <3>2 DEF SkipInv, SlotsServe, getChainHeight
  <2>4. (getChainHeight - 1) - 1 = getChainHeight - 2
    BY <1>1
  <2> QED
    BY <2>2, <2>3, <2>4 DEF SlotHeight
<1>4. LocatorAsDocumented
  BY <1>3 DEF LocatorAsDocumented
<1> QED
  BY <1>2, <1>4 DEF SkipListServes

\* Skip list: on every fork, in whatever order the forks are registered, the
\* jumps of getSuperblockAt find the ancestor of the best superblock at the
\* height asked for, and getSuperblockLocator returns the documented heights.
THEOREM SkipListServesHolds == Spec => []SkipListServes
<1>1. SkipInv /\ [Next]_vars => SkipInv'
  BY SkipStep
<1> QED
  BY <1>1, SkipInit, SkipServes, PTL DEF Spec
=============================================================================
