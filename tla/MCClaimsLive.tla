---------------------------- MODULE MCClaimsLive ----------------------------
(* Liveness of claims, with the challenge task running once beside the     *)
(* rest.  The clock stops at MaxTime, so proposals and challenges are made *)
(* early enough for their timeouts to pass.                                *)
EXTENDS ChallengeTask, TLC

CONSTANTS
  Submitter,       \* the account that proposes
  Genesis, Latest    \* the first superblock, and the last one proposed when the
                   \* task waits for none by its name

Horizon == \A b \in Superblocks : claims[b].challengeTimeout < MaxTime

\* One account proposes.  All challenge, that account too, but for the last
\* superblock, which is challenged once at most and by another.
Roles ==
  /\ \A b \in Superblocks : claims[b].submitter \in {NoAccount, Submitter}
  /\ Len(claims[Latest].challengers) <= 1
  /\ Submitter \notin ToSet(claims[Latest].challengers)

\* Superblocks are alike, but for the one that the task waits for, so their
\* order is otherwise fixed.
InOrder ==
  claimExists(Latest) \/ wanted # NoSuperblock
    \/ \A b \in Superblocks \ {Genesis, Latest} : claimExists(b)

\* The task runs at time 0; the others deposit once, at the start, and do not
\* withdraw.
LiveNext ==
  /\ TaskNext
  /\ Horizon' /\ Roles'
  /\ bestSuperblock = NoSuperblock =>
       \/ bestSuperblock' = NoSuperblock
       \/ bestSuperblock' = Genesis /\ \A a \in Accounts \ {Signer} : deposits[a] > 0
  /\ claimExists(Latest)' => InOrder
  /\ step' \notin {"start", "exited"} => now' = 0
  /\ balance' >= balance
  /\ balance' > balance /\ depositing = depositing' =>
       bestSuperblock = NoSuperblock /\ (\A a \in Accounts : deposits[a] > 0 => UNCHANGED deposits[a])

PlainLiveSpec == TaskInit /\ [][LiveNext]_allVars /\ Fairness
=============================================================================
