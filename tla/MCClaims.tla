------------------------------ MODULE MCClaims ------------------------------
(* The life of claims and of the money bonded for them, in two scopes: up  *)
(* to three superblocks and accounts in any role; or forks of four, with   *)
(* one account that proposes and one that challenges.  Every bond is 8 and *)
(* a battle step costs 4, so that shares of a reward do not round to       *)
(* nothing.                                                                *)
EXTENDS SuperblockClaims, TLC

CONSTANTS s1, s2, s3, s4

Symmetry == Permutations(Accounts)

\* Superblocks are alike, so they are registered in this order.
Order == <<s1, s2, s3, s4>>
InOrder == \A i \in DOMAIN indexSuperblock : indexSuperblock[i] = Order[i + 1]

\* Up to three superblocks of the same work, and up to four deposits.
InAnyRole ==
  /\ balance <= 32
  /\ indexNextSuperblock <= 3
  /\ \A b \in SB!Registered : superblocks[b].accumulatedWork = superblocks[b].height

\* Two accounts have four deposits each; one proposes, and the other may
\* challenge each superblock once.
InForks ==
  /\ balance = 64
  /\ \E proposer \in Accounts : \A b \in Superblocks :
       /\ claims[b].submitter \in {NoAccount, proposer}
       /\ Len(claims[b].challengers) <= 1
       /\ proposer \notin ToSet(claims[b].challengers)

\* The deposits for forks are made before the first superblock.
Funding ==
  balance # 64 /\ balance' = 64 =>
    indexNextSuperblock = 0 /\ \A a \in Accounts : deposits'[a] \in {0, 32}

\* Deposits are withdrawn as long as there is one superblock above the genesis.
Withdrawing == balance' < balance => indexNextSuperblock <= 2

\* The battles of forks cost nothing but what the claims bond.
FreeBattles ==
  balance = 64 /\ UNCHANGED <<superblockVars, sessions, balance>> =>
    UNCHANGED deposits

ScopedNext ==
  /\ Next
  /\ InOrder' /\ (InAnyRole \/ InForks)'
  /\ Funding /\ Withdrawing /\ FreeBattles

ScopedSpec == Init /\ [][ScopedNext]_vars
=============================================================================
