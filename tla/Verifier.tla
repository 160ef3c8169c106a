------------------------------- MODULE Verifier -------------------------------
(***************************************************************************)
(* contracts/scrypt-interactive/Verifier.sol and ScryptVerifier.sol: the   *)
(* game that finds the step of a computation about which two parties       *)
(* disagree, as operators on the record of one game.                       *)
(*                                                                         *)
(* A hash is "right" when it is that of the state which the computation of *)
(* the input truly has at that step.  The times of the last messages are   *)
(* kept as ages; one block is one unit of time, and ages stop where all    *)
(* that matters of them is which message came last.                        *)
(***************************************************************************)
EXTENDS Integers

CONSTANTS
  Players, NoPlayer,    \* addresses; the address 0
  steps,                \* 2050 in the contract
  responseTime

Hash == {"none", "right", "wrong"}
Sides == {"claimant", "challenger"}

Game ==
  [claimant : Players \cup {NoPlayer}, challenger : Players \cup {NoPlayer},
   since : [Sides -> 0 .. responseTime + 2],
   lowStep : 0 .. steps, lowHash : Hash, medStep : 0 .. steps, medHash : Hash,
   highStep : 0 .. steps, highHash : Hash]

\* What the sessions mapping holds of a game that was never begun or is over.
NoGame ==
  [claimant |-> NoPlayer, challenger |-> NoPlayer, since |-> [p \in Sides |-> 0],
   lowStep |-> 0, lowHash |-> "none", medStep |-> 0, medHash |-> "none",
   highStep |-> 0, highHash |-> "none"]

isLive(game) == game.claimant # NoPlayer

\* Mutant: the claimant and the challenger change places.
claimComputationSwapped(claimant, challenger, output) ==
  [NoGame EXCEPT !.claimant = challenger, !.challenger = claimant,
                 !.lowHash = "right", !.highStep = steps, !.highHash = output]

\* claimComputation: the output has the hash of the last step.
claimComputation(claimant, challenger, output) ==
  [NoGame EXCEPT !.claimant = claimant, !.challenger = challenger,
                 !.lowHash = "right", !.highStep = steps, !.highHash = output]

-----------------------------------------------------------------------------
(* The challenger's queries.                                               *)

QueriesLowEnd(game, step) == step = game.lowStep /\ step + 1 = game.medStep
QueriesHighEnd(game, step) == step = game.medStep /\ step + 1 = game.highStep
Within(game, step) ==
  /\ game.lowStep < step /\ step < game.highStep
  /\ game.medStep # 0 => step # game.medStep

CanQuery(game, step) ==
  /\ game.medStep = 0 \/ game.medHash # "none"
  /\ QueriesLowEnd(game, step) \/ QueriesHighEnd(game, step) \/ Within(game, step)

\* The part of the interval that a query turns to.
LowerPart(game) ==
  [game EXCEPT !.highStep = game.medStep, !.highHash = game.medHash]
UpperPart(game) ==
  [game EXCEPT !.lowStep = game.medStep, !.lowHash = game.medHash]

\* Mutant: the interval ends at the middle, whichever side was asked for.
NarrowedLower(game, step) ==
  IF game.medStep = 0 THEN game ELSE LowerPart(game)

\* The first query only sets the middle.
Narrowed(game, step) ==
  IF game.medStep = 0 THEN game
  ELSE IF step < game.medStep THEN LowerPart(game) ELSE UpperPart(game)

\* Mutant: the hash of the old middle stays.
QueriedHashKept(game, step) ==
  CASE QueriesLowEnd(game, step) -> LowerPart(game)
    [] QueriesHighEnd(game, step) -> UpperPart(game)
    [] OTHER -> [Narrowed(game, step) EXCEPT !.medStep = step]

Queried(game, step) ==
  CASE QueriesLowEnd(game, step) -> LowerPart(game)
    [] QueriesHighEnd(game, step) -> UpperPart(game)
    [] OTHER -> [Narrowed(game, step) EXCEPT !.medStep = step, !.medHash = "none"]

-----------------------------------------------------------------------------
(* The claimant's answers.                                                 *)

\* The claimant may answer step 0 before anything was asked.
CanRespond(game) == game.medHash = "none"
Responded(game, hash) == [game EXCEPT !.medHash = hash]

CanPerform(game) == game.lowStep + 1 = game.highStep

\* What verifyStep may find, given states with the hashes at both ends.  From
\* the right state the step leads to no wrong one, and a claimant may fail to
\* prove a right one; what follows a wrong state is up to the claimant.
StepVerdicts(game) ==
  IF game.lowHash = "right" /\ game.highHash = "wrong" THEN {FALSE} ELSE BOOLEAN

-----------------------------------------------------------------------------
(* Time.                                                                   *)

\* p has sent a message.
Spoke(game, p) == [game EXCEPT !.since[p] = 0]

\* It is p's turn: the other's message is the later one.  After messages in one
\* block it is nobody's.
Opponent(p) == IF p = "claimant" THEN "challenger" ELSE "claimant"
IsDue(game, p) == game.since[Opponent(p)] < game.since[p]

IsOverdue(game, p) ==
  /\ IsDue(game, p)
  /\ game.since[Opponent(p)] > responseTime

CanAge(game) == isLive(game) /\ \E p \in Sides : game.since[p] <= responseTime

\* The age of a message one block later: two more than responseTime if the
\* other party's was the later one, one more if not.
Aged(game) ==
  IF ~CanAge(game) THEN game
  ELSE [game EXCEPT !.since =
         [p \in Sides |-> IF @[p] < responseTime + 2 THEN @[p] + 1 ELSE @[p]]]
=============================================================================
