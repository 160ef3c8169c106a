--------------------------- MODULE SuperblockTree ---------------------------
(***************************************************************************)
(* What the superblock contracts promise to those who verify transactions  *)
(* against them, without battles, claims, indexes or skip lists: a tree in *)
(* which every registered superblock awaits one final verdict, accepted    *)
(* superblocks are accepted on top of accepted ones, and the head is an    *)
(* accepted superblock with the most work, left only for more work.        *)
(***************************************************************************)
EXTENDS Integers

CONSTANTS Superblocks, NoSuperblock, Works

VARIABLES verdict, parent, work, head

vars == <<verdict, parent, work, head>>

Ids == Superblocks \cup {NoSuperblock}
Accepted == {b \in Superblocks : verdict[b] = "accepted"}
Pending == {b \in Superblocks : verdict[b] = "pending"}

Init ==
  /\ verdict = [b \in Ids |-> "none"]
  /\ parent = [b \in Ids |-> NoSuperblock]
  /\ work = [b \in Ids |-> 0]
  /\ head = NoSuperblock

Enter(b, p, w, v) ==
  /\ verdict[b] = "none"
  /\ verdict' = [verdict EXCEPT ![b] = v]
  /\ parent' = [parent EXCEPT ![b] = p]
  /\ work' = [work EXCEPT ![b] = w]

Start(b, w) ==
  /\ Accepted = {}
  /\ Enter(b, NoSuperblock, w, "accepted")
  /\ head' = b

Submit(b, p, w) ==
  /\ verdict[p] \in {"pending", "accepted"}
  /\ Enter(b, p, w, "pending")
  /\ UNCHANGED head

\* Several superblocks may be accepted at once, each on an accepted parent.
Accept(S) ==
  /\ \A b \in S : verdict[b] = "pending" /\ parent[b] \in S \cup Accepted
  /\ verdict' = [b \in Ids |-> IF b \in S THEN "accepted" ELSE verdict[b]]
  /\ head' = head \/ work[head'] > work[head]
  /\ head' \in S \cup {head}
  /\ \A b \in S : work[b] <= work[head']
  /\ UNCHANGED <<parent, work>>

Reject(b) ==
  /\ verdict[b] = "pending"
  /\ verdict' = [verdict EXCEPT ![b] = "rejected"]
  /\ UNCHANGED <<parent, work, head>>

Next ==
  \/ \E b \in Superblocks, w \in Works : Start(b, w)
  \/ \E b, p \in Superblocks, w \in Works : Submit(b, p, w)
  \/ \E S \in SUBSET Pending : S # {} /\ Accept(S)
  \/ \E b \in Superblocks : Reject(b)

Spec == Init /\ [][Next]_vars
=============================================================================
