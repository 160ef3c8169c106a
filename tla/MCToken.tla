------------------------------- MODULE MCToken -------------------------------
(* Locks, unlocks and liquidations of a few operators and accounts.        *)
EXTENDS DogeToken, TLC

Symmetry == Permutations(Operators) \cup Permutations(Accounts)
              \cup Permutations(TxHashes)

\* Two operators only lock and unlock; one alone is also liquidated.
Scope ==
  Cardinality({operatorKeys[i].key : i \in DOMAIN operatorKeys}) > 1 =>
    /\ now = 0 /\ price = 1 /\ chainHeight = 0
    /\ \A k \in Operators : operators[k].ethBalance = 0
                          /\ operators[k].auction.status = "Uninitialized"
    /\ \A i \in DOMAIN operatorKeys : ~operatorKeys[i].deleted
=============================================================================
