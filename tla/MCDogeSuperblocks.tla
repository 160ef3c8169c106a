------------------------- MODULE MCDogeSuperblocks -------------------------
(* Up to four superblocks in every tree and every status, and chains and   *)
(* forks of six for the skip list, in which statuses other than New and    *)
(* Approved play no part.                                                  *)
EXTENDS DogeSuperblocks, FiniteSets, TLC

Symmetry == Permutations(Superblocks)

Scope ==
  Cardinality(Registered) > 4 =>
    \A b \in Registered : StatusOf(b) \in {"New", "Approved"}
=============================================================================
