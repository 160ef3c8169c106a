-------------------------- MODULE ScryptClaims_proofs --------------------------
(***************************************************************************)
(* Theorems about ScryptClaims, for any accounts, claims, deposits, queues,*)
(* timeouts and length of the computation, and games begun by anyone: the  *)
(* contract holds what it owes, who is honest loses no bond but by being   *)
(* late, and the game that a claim waits for can go on while it is live.   *)
(***************************************************************************)
EXTENDS ScryptClaims, SumLemmas, SequenceTheorems, TLAPS

USE AccountsAssumption, NumbersAssumption

-----------------------------------------------------------------------------
(* The operators of Verifier.                                              *)

\* What a message that is not about the ends of the interval leaves alone.
SameParties(q, g) == q.claimant = g.claimant /\ q.challenger = g.challenger

\* The types of the fields of a game.
LEMMA GameFields ==
  ASSUME NEW g \in Game
  PROVE  /\ g.claimant \in Accounts \cup {NoAccount}
         /\ g.challenger \in Accounts \cup {NoAccount}
         /\ g.since \in [Sides -> 0 .. responseTime + 2]
         /\ g.lowStep \in 0 .. steps /\ g.medStep \in 0 .. steps
         /\ g.highStep \in 0 .. steps
         /\ g.lowHash \in Hash /\ g.medHash \in Hash /\ g.highHash \in Hash
BY DEF Game

\* A game whose times change keeps its parties and its interval.
LEMMA SetSince ==
  ASSUME NEW g \in Game, NEW x \in [Sides -> 0 .. responseTime + 2]
  PROVE  LET q == [g EXCEPT !.since = x]
         IN  /\ q \in Game /\ SameParties(q, g)
             /\ q.lowStep = g.lowStep /\ q.lowHash = g.lowHash
             /\ q.medStep = g.medStep /\ q.medHash = g.medHash
             /\ q.highStep = g.highStep /\ q.highHash = g.highHash
BY DEF Game, SameParties

\* UpperPart is the game on the interval from the middle up.
LEMMA UpperGame ==
  ASSUME NEW g \in Game
  PROVE  LET q == UpperPart(g)
         IN  /\ q \in Game /\ SameParties(q, g)
             /\ q.lowStep = g.medStep /\ q.lowHash = g.medHash
             /\ q.medStep = g.medStep /\ q.medHash = g.medHash
             /\ q.highStep = g.highStep /\ q.highHash = g.highHash
BY DEF Game, SameParties, UpperPart

\* LowerPart is the game on the interval from the start to the middle.
LEMMA LowerGame ==
  ASSUME NEW g \in Game
  PROVE  LET q == LowerPart(g)
         IN  /\ q \in Game /\ SameParties(q, g)
             /\ q.lowStep = g.lowStep /\ q.lowHash = g.lowHash
             /\ q.medStep = g.medStep /\ q.medHash = g.medHash
             /\ q.highStep = g.medStep /\ q.highHash = g.medHash
BY DEF Game, SameParties, LowerPart

\* A query for a step within the interval.
Asked(g, step) == [g EXCEPT !.medStep = step, !.medHash = "none"]

\* Asking for a step moves the middle there and forgets its hash.
LEMMA AskedGame ==
  ASSUME NEW g \in Game, NEW step \in 0 .. steps
  PROVE  LET q == Asked(g, step)
         IN  /\ q \in Game /\ SameParties(q, g)
             /\ q.lowStep = g.lowStep /\ q.lowHash = g.lowHash
             /\ q.medStep = step /\ q.medHash = "none"
             /\ q.highStep = g.highStep /\ q.highHash = g.highHash
BY DEF Game, SameParties, Asked, Hash

\* An answer sets the hash of the middle only.
LEMMA SetMedHash ==
  ASSUME NEW g \in Game, NEW hash \in Hash
  PROVE  LET q == [g EXCEPT !.medHash = hash]
         IN  /\ q \in Game /\ SameParties(q, g)
             /\ q.lowStep = g.lowStep /\ q.lowHash = g.lowHash
             /\ q.medStep = g.medStep /\ q.medHash = hash
             /\ q.highStep = g.highStep /\ q.highHash = g.highHash
BY DEF Game, SameParties

\* Until the first query the interval is the whole computation.
Begun(g) == g.medStep = 0 => g.lowStep = 0 /\ g.highStep = steps

\* The interval holds the step at which the claimant is wrong.
Brackets(g) == g.lowHash = "right" /\ g.highHash = "wrong"

\* A query leaves a game of the same parties; and the interval of one who turns
\* below wrong hashes and above right ones holds the wrong step still.
LEMMA QueriedGame ==
  ASSUME NEW game \in Game, NEW step \in 0 .. steps, Begun(game), CanQuery(game, step)
  PROVE  /\ Queried(game, step) \in Game
         /\ SameParties(Queried(game, step), game)
         /\ Begun(Queried(game, step))
         /\ Brackets(game) /\ Sensible(game, step) => Brackets(Queried(game, step))
<1> DEFINE low == LowerPart(game)
<1> DEFINE up == UpperPart(game)
<1>1. /\ game.lowStep \in Nat /\ game.medStep \in Nat /\ game.highStep \in Nat
      /\ game.medStep \in 0 .. steps
      /\ game.medHash \in Hash /\ steps > 2 /\ step \in Nat
  BY GameFields
<1>2. /\ low \in Game /\ SameParties(low, game)
      /\ low.lowStep = game.lowStep /\ low.lowHash = game.lowHash
      /\ low.medStep = game.medStep /\ low.medHash = game.medHash
      /\ low.highStep = game.medStep /\ low.highHash = game.medHash
  BY LowerGame
<1>3. /\ up \in Game /\ SameParties(up, game)
      /\ up.lowStep = game.medStep /\ up.lowHash = game.medHash
      /\ up.medStep = game.medStep /\ up.medHash = game.medHash
      /\ up.highStep = game.highStep /\ up.highHash = game.highHash
  BY UpperGame
<1>5. game.medStep # 0 => game.medHash \in {"right", "wrong"}
  BY <1>1 DEF CanQuery, Hash
<1>6. CASE QueriesLowEnd(game, step)
  <2>1. step + 1 = game.medStep
    BY <1>6 DEF QueriesLowEnd
  <2>2. Queried(game, step) = low
    BY <1>6, <1>1, <2>1 DEF Queried, QueriesHighEnd
  <2>3. game.medStep # 0 /\ step < game.medStep
    BY <1>1, <2>1
  <2>4. Brackets(game) /\ Sensible(game, step) => Brackets(low)
    BY <1>1, <1>2, <1>5, <2>3 DEF Brackets, Sensible
  <2> QED
    BY <1>2, <2>2, <2>3, <2>4 DEF Begun
<1>7. CASE QueriesHighEnd(game, step) /\ ~QueriesLowEnd(game, step)
  <2>1. Queried(game, step) = up
    BY <1>7 DEF Queried
  <2>2. game.medStep # 0 /\ step = game.medStep
    BY <1>1, <1>7 DEF QueriesHighEnd, Begun
  <2>3. Brackets(game) /\ Sensible(game, step) => Brackets(up)
    BY <1>1, <1>3, <1>5, <2>2 DEF Brackets, Sensible
  <2> QED
    BY <1>3, <2>1, <2>2, <2>3 DEF Begun
<1>8. CASE ~QueriesHighEnd(game, step) /\ ~QueriesLowEnd(game, step)
  <2>1. PICK g : g = Narrowed(game, step)
    OBVIOUS
  <2>2. Within(game, step)
    BY <1>8 DEF CanQuery
  <2>3. step # 0
    BY <1>1, <2>2 DEF Within
  <2> DEFINE q == Asked(g, step)
  <2>4. Queried(game, step) = q
    BY <1>8, <2>1 DEF Queried, Asked
  <2>5. g \in Game /\ SameParties(g, game)
    BY <1>2, <1>3, <2>1 DEF Narrowed, SameParties
  <2>6. Brackets(game) /\ Sensible(game, step) => Brackets(g)
    <3>1. CASE game.medStep = 0
      BY <2>1, <3>1 DEF Narrowed
    <3>2. CASE game.medStep # 0 /\ step < game.medStep
      <4>1. g = low
        BY <2>1, <3>2 DEF Narrowed
      <4> QED
        BY <1>1, <1>2, <1>5, <3>2, <4>1 DEF Brackets, Sensible
    <3>3. CASE game.medStep # 0 /\ ~(step < game.medStep)
      <4>1. g = up
        BY <2>1, <3>3 DEF Narrowed
      <4> QED
        BY <1>1, <1>3, <1>5, <3>3, <4>1 DEF Brackets, Sensible
    <3> QED
      BY <3>1, <3>2, <3>3
  <2>8. /\ q \in Game /\ SameParties(q, g)
        /\ q.lowStep = g.lowStep /\ q.lowHash = g.lowHash
        /\ q.medStep = step
        /\ q.highStep = g.highStep /\ q.highHash = g.highHash
    BY <2>5, AskedGame
  <2> HIDE DEF q
  <2> QED
    BY <2>3, <2>4, <2>5, <2>6, <2>8 DEF Begun, Brackets, SameParties
<1> QED
  BY <1>6, <1>7, <1>8

\* Messages and blocks change times only.
SameInterval(q, g) ==
  /\ q \in Game /\ SameParties(q, g)
  /\ q.lowStep = g.lowStep /\ q.lowHash = g.lowHash
  /\ q.medStep = g.medStep /\ q.medHash = g.medHash
  /\ q.highStep = g.highStep /\ q.highHash = g.highHash

\* A message sets the time of its side only.
LEMMA SpokeGame ==
  ASSUME NEW g \in Game, NEW p \in Sides
  PROVE  SameInterval(Spoke(g, p), g)
<1> DEFINE x == [g.since EXCEPT ![p] = 0]
<1>1. x \in [Sides -> 0 .. responseTime + 2]
  BY GameFields
<1>2. Spoke(g, p) = [g EXCEPT !.since = x]
  BY DEF Spoke
<1> HIDE DEF x
<1> QED
  BY <1>1, <1>2, SetSince DEF SameInterval

\* A block that goes by changes the times only.
LEMMA AgedGame ==
  ASSUME NEW g \in Game
  PROVE  SameInterval(Aged(g), g)
<1> DEFINE x == [p \in Sides |-> IF g.since[p] < responseTime + 2
                                   THEN g.since[p] + 1 ELSE g.since[p]]
<1>1. x \in [Sides -> 0 .. responseTime + 2]
  <2>1. ASSUME NEW p \in Sides
        PROVE  x[p] \in 0 .. responseTime + 2
    BY GameFields
  <2> QED
    BY <2>1
<1>2. CanAge(g) => Aged(g) = [g EXCEPT !.since = x]
  BY DEF Aged
<1>3. ~CanAge(g) => Aged(g) = g
  BY DEF Aged
<1> HIDE DEF x
<1> QED
  <2>1. CASE CanAge(g)
    <3>1. SameInterval([g EXCEPT !.since = x], g)
      BY <1>1, SetSince DEF SameInterval
    <3> QED
      BY <1>2, <2>1, <3>1
  <2>2. CASE ~CanAge(g)
    BY <1>3, <2>2 DEF SameInterval, SameParties
  <2> QED
    BY <2>1, <2>2

-----------------------------------------------------------------------------
(* The interval and the turns of a game.                                   *)

\* The middle of the interval lies within it, until the interval is a step of
\* the computation and both its ends have been answered for.
Shape(g) ==
  \/ g.medStep = 0 /\ g.lowStep = 0 /\ g.highStep = steps
  \/ g.medStep # 0 /\ g.lowStep < g.medStep /\ g.medStep < g.highStep
  \/ g.medStep # 0 /\ CanPerform(g) /\ g.medHash # "none"

\* Who is due has the right to speak.
Turns(g) ==
  /\ IsDue(g, "claimant") => CanRespond(g) \/ CanPerform(g)
  /\ IsDue(g, "challenger") => ~CanRespond(g) /\ ~CanPerform(g)

\* Neither the middle nor the end of the interval has a wrong hash.
NeverWrong(g) == g.medHash # "wrong" /\ g.highHash # "wrong"

\* A query moves the ends to where the middle was, or the middle to between
\* the ends.
LEMMA QueriedShape ==
  ASSUME NEW game \in Game, NEW step \in 0 .. steps, Shape(game), CanQuery(game, step)
  PROVE  LET q == Queried(game, step)
         IN  /\ Shape(q) /\ q.since = game.since
             /\ CanRespond(q) \/ CanPerform(q)
             /\ NeverWrong(game) => NeverWrong(q)
<1> DEFINE low == LowerPart(game)
<1> DEFINE up == UpperPart(game)
<1>1. /\ game.lowStep \in Nat /\ game.medStep \in Nat /\ game.highStep \in Nat
      /\ steps > 2 /\ step \in Nat
  BY GameFields
<1>2. /\ low \in Game /\ low.lowStep = game.lowStep
      /\ low.medStep = game.medStep /\ low.medHash = game.medHash
      /\ low.highStep = game.medStep /\ low.highHash = game.medHash
      /\ low.since = game.since
  BY LowerGame DEF LowerPart, Game
<1>3. /\ up \in Game /\ up.lowStep = game.medStep
      /\ up.medStep = game.medStep /\ up.medHash = game.medHash
      /\ up.highStep = game.highStep /\ up.highHash = game.highHash
      /\ up.since = game.since
  BY UpperGame DEF UpperPart, Game
<1> HIDE DEF low, up
<1>4. CASE QueriesLowEnd(game, step)
  <2>1. step + 1 = game.medStep /\ step = game.lowStep
    BY <1>4 DEF QueriesLowEnd
  <2>2. Queried(game, step) = low
    BY <1>4, <1>1, <2>1 DEF Queried, QueriesHighEnd, low
  <2>3. game.medStep # 0 /\ game.medHash # "none"
    BY <1>1, <2>1 DEF CanQuery
  <2> QED
    BY <1>1, <1>2, <2>1, <2>2, <2>3 DEF Shape, CanPerform, CanRespond, NeverWrong
<1>5. CASE QueriesHighEnd(game, step) /\ ~QueriesLowEnd(game, step)
  <2>1. step = game.medStep /\ step + 1 = game.highStep
    BY <1>5 DEF QueriesHighEnd
  <2>2. Queried(game, step) = up
    BY <1>5 DEF Queried, up
  <2>3. game.medStep # 0
    BY <1>1, <2>1 DEF Shape
  <2>4. game.medHash # "none"
    BY <2>3 DEF CanQuery
  <2> QED
    BY <1>1, <1>3, <2>1, <2>2, <2>3, <2>4
    DEF Shape, CanPerform, CanRespond, NeverWrong
<1>6. CASE ~QueriesHighEnd(game, step) /\ ~QueriesLowEnd(game, step)
  <2>1. Within(game, step) /\ (game.medStep # 0 => game.medHash # "none")
    BY <1>6 DEF CanQuery
  <2>2. PICK g : g = Narrowed(game, step)
    OBVIOUS
  <2>3. /\ g \in Game /\ g.since = game.since
        /\ g.lowStep < step /\ step < g.highStep
        /\ NeverWrong(game) => g.highHash # "wrong"
    <3>1. CASE game.medStep = 0
      BY <2>1, <2>2, <3>1 DEF Narrowed, Within, NeverWrong
    <3>2. CASE game.medStep # 0 /\ step < game.medStep
      <4>1. g = low
        BY <2>2, <3>2 DEF Narrowed, low
      <4> QED
        BY <1>2, <2>1, <3>2, <4>1 DEF Within, NeverWrong
    <3>3. CASE game.medStep # 0 /\ ~(step < game.medStep)
      <4>1. g = up
        BY <2>2, <3>3 DEF Narrowed, up
      <4> QED
        BY <1>1, <1>3, <2>1, <3>3, <4>1 DEF Within, NeverWrong
    <3> QED
      BY <3>1, <3>2, <3>3
  <2> DEFINE q == Asked(g, step)
  <2>4. Queried(game, step) = q
    BY <1>6, <2>2 DEF Queried, Asked
  <2>5. /\ q.lowStep = g.lowStep /\ q.medStep = step /\ q.medHash = "none"
        /\ q.highStep = g.highStep /\ q.highHash = g.highHash
        /\ q.since = g.since
    BY <2>3, AskedGame DEF Asked, Game
  <2>6. step # 0
    BY <1>1, <2>1 DEF Within
  <2> HIDE DEF q
  <2> QED
    BY <2>3, <2>4, <2>5, <2>6 DEF Shape, CanRespond, NeverWrong
<1> QED
  BY <1>4, <1>5, <1>6

\* Who has just spoken is not due.
LEMMA SpokeTurn ==
  ASSUME NEW g \in Game, NEW p \in Sides
  PROVE  ~IsDue(Spoke(g, p), p)
<1> DEFINE x == [g.since EXCEPT ![p] = 0]
<1>1. x \in [Sides -> 0 .. responseTime + 2] /\ x[p] = 0
  BY GameFields
<1>2. Spoke(g, p) = [g EXCEPT !.since = x]
  BY DEF Spoke
<1> HIDE DEF x
<1>3. Spoke(g, p).since = x
  BY <1>2 DEF Game
<1>4. Opponent(p) \in Sides
  BY DEF Opponent, Sides
<1> QED
  BY <1>1, <1>3, <1>4 DEF IsDue

\* A block makes nobody due who was not.
LEMMA AgedTurn ==
  ASSUME NEW g \in Game, NEW p \in Sides, IsDue(Aged(g), p)
  PROVE  IsDue(g, p)
<1> DEFINE x == [y \in Sides |-> IF g.since[y] < responseTime + 2
                                   THEN g.since[y] + 1 ELSE g.since[y]]
<1>1. CASE CanAge(g)
  <2>1. Aged(g) = [g EXCEPT !.since = x]
    BY <1>1 DEF Aged
  <2>2. Aged(g).since = x
    <3> HIDE DEF x
    <3> QED
      BY <2>1 DEF Game
  <2>3. Opponent(p) \in Sides
    BY DEF Opponent, Sides
  <2>4. /\ g.since[p] \in 0 .. responseTime + 2
        /\ g.since[Opponent(p)] \in 0 .. responseTime + 2
    BY <2>3, GameFields
  <2> QED
    BY <2>2, <2>3, <2>4 DEF IsDue
<1>2. CASE ~CanAge(g)
  BY <1>2 DEF Aged
<1> QED
  BY <1>1, <1>2

\* No game, and the game that is begun.
LEMMA NoGameType == NoGame \in Game /\ NoGame.claimant = NoAccount /\ NoGame.medStep = 0
                       /\ NoGame.lowStep = 0
<1>1. 0 \in 0 .. responseTime + 2 /\ 0 \in 0 .. steps
  OBVIOUS
<1> QED
  BY <1>1 DEF NoGame, Game, Hash

\* The parties of a game that is begun.
Parties(g, a, b) == [g EXCEPT !.claimant = a, !.challenger = b, !.lowHash = "right"]

\* Parties sets the two parties of a game and the hash of its start.
LEMMA SetParties ==
  ASSUME NEW g \in Game, NEW a \in Accounts, NEW b \in Accounts
  PROVE  LET q == Parties(g, a, b)
         IN  /\ q \in Game /\ q.claimant = a /\ q.challenger = b
             /\ q.lowHash = "right" /\ q.lowStep = g.lowStep
             /\ q.medStep = g.medStep
BY DEF Game, Hash, Parties

\* The last step and its hash are set.
LEMMA SetLast ==
  ASSUME NEW g \in Game, NEW output \in Hash
  PROVE  LET q == [g EXCEPT !.highStep = steps, !.highHash = output]
         IN  /\ q \in Game /\ SameParties(q, g)
             /\ q.lowHash = g.lowHash /\ q.lowStep = g.lowStep
             /\ q.medStep = g.medStep
             /\ q.highStep = steps /\ q.highHash = output
<1>1. steps \in 0 .. steps
  OBVIOUS
<1> QED
  BY <1>1 DEF Game, SameParties

\* claimComputation begins a game on the whole computation.
LEMMA BegunGame ==
  ASSUME NEW a \in Accounts, NEW b \in Accounts, NEW output \in {"right", "wrong"}
  PROVE  LET g == claimComputation(a, b, output)
         IN  /\ g \in Game /\ g.claimant = a /\ g.challenger = b
             /\ Begun(g) /\ g.lowHash = "right" /\ g.highHash = output
             /\ g.medStep = 0
<1> DEFINE r == Parties(NoGame, a, b)
<1> DEFINE q == [r EXCEPT !.highStep = steps, !.highHash = output]
<1>1. claimComputation(a, b, output) = q
  BY DEF claimComputation, Parties
<1>2. /\ r \in Game /\ r.claimant = a /\ r.challenger = b
      /\ r.lowHash = "right" /\ r.lowStep = 0 /\ r.medStep = 0
  <2>1. PICK g \in Game : g = NoGame /\ g.medStep = 0 /\ g.lowStep = 0
    BY NoGameType
  <2> QED
    <3> DEFINE p == Parties(g, a, b)
    <3>1. /\ p \in Game /\ p.claimant = a /\ p.challenger = b
          /\ p.lowHash = "right" /\ p.lowStep = g.lowStep
          /\ p.medStep = g.medStep
      BY SetParties
    <3>2. p = r
      BY <2>1
    <3> HIDE DEF p, r
    <3> QED
      BY <2>1, <3>1, <3>2
<1> HIDE DEF r
<1>3. /\ q \in Game /\ SameParties(q, r)
      /\ q.lowHash = r.lowHash /\ q.lowStep = r.lowStep
      /\ q.medStep = r.medStep
      /\ q.highStep = steps /\ q.highHash = output
  <2>1. output \in Hash
    BY DEF Hash
  <2> QED
    BY <1>2, <2>1, SetLast, ZenonT(30)
<1> HIDE DEF q
<1> QED
  BY <1>1, <1>2, <1>3 DEF Begun, SameParties

\* A game that begins: nobody is due, and all of its interval is left.
LEMMA BegunTurns ==
  ASSUME NEW a \in Accounts, NEW b \in Accounts, NEW output \in {"right", "wrong"}
  PROVE  LET g == claimComputation(a, b, output)
         IN  Shape(g) /\ Turns(g) /\ (output = "right" => NeverWrong(g))
<1> DEFINE g == claimComputation(a, b, output)
<1>1. /\ g.lowStep = 0 /\ g.medStep = 0 /\ g.highStep = steps
      /\ g.medHash = "none" /\ g.highHash = output
      /\ g.since = [p \in Sides |-> 0]
  BY DEF claimComputation, NoGame
<1> HIDE DEF g
<1>2. ~IsDue(g, "claimant") /\ ~IsDue(g, "challenger")
  BY <1>1 DEF IsDue, Opponent, Sides
<1>3. Shape(g) /\ Turns(g) /\ (output = "right" => NeverWrong(g))
  BY <1>1, <1>2 DEF Shape, Turns, NeverWrong
<1> QED
  BY <1>3 DEF g

-----------------------------------------------------------------------------
(* What happens to a claim.                                                *)

\* The claimant of a claim and its queue stay what they are.
SameQueue(q, c) == q.claimant = c.claimant /\ q.challengers = c.challengers

\* So do the game it waits for and whether it is decided.
SameWait(q, c) ==
  /\ SameQueue(q, c) /\ q.decided = c.decided
  /\ q.sessions = c.sessions /\ q.currentChallenger = c.currentChallenger
  /\ q.verificationOngoing = c.verificationOngoing

\* The types of the fields of a claim.
LEMMA ClaimFields ==
  ASSUME NEW c \in ScryptClaim
  PROVE  /\ c.claimant \in Accounts \cup {NoAccount}
         /\ c.challengers \in Seq(Accounts)
         /\ c.currentChallenger \in Nat /\ c.sessions \in [Accounts -> Nat]
         /\ c.bondedDeposits \in [Accounts -> Nat]
         /\ c.decided \in BOOLEAN /\ c.verificationOngoing \in BOOLEAN
BY DEF ScryptClaim

\* New bonds leave the rest of a claim alone.
LEMMA SetBonds ==
  ASSUME NEW c \in ScryptClaim, NEW x \in [Accounts -> Nat]
  PROVE  LET q == [c EXCEPT !.bondedDeposits = x]
         IN  q \in ScryptClaim /\ SameWait(q, c) /\ q.bondedDeposits = x
BY DEF ScryptClaim, SameQueue, SameWait

\* The end of a game.
Over(c, x) == [c EXCEPT !.verificationOngoing = FALSE, !.bondedDeposits = x]

\* The end of a game leaves the queue of the claim, and does not decide it.
LEMMA SetOver ==
  ASSUME NEW c \in ScryptClaim, NEW x \in [Accounts -> Nat]
  PROVE  LET q == Over(c, x)
         IN  /\ q \in ScryptClaim /\ SameQueue(q, c)
             /\ q.bondedDeposits = x /\ q.decided = c.decided
             /\ q.currentChallenger = c.currentChallenger
             /\ ~q.verificationOngoing
BY DEF ScryptClaim, SameQueue, Over

\* A claim that was lost.
Lost(c, n) == [c EXCEPT !.invalid = TRUE, !.currentChallenger = n]

\* A lost claim keeps its queue and its bonds.
LEMMA SetLost ==
  ASSUME NEW c \in ScryptClaim, NEW n \in Nat
  PROVE  LET q == Lost(c, n)
         IN  /\ q \in ScryptClaim /\ SameQueue(q, c)
             /\ q.bondedDeposits = c.bondedDeposits /\ q.decided = c.decided
             /\ q.verificationOngoing = c.verificationOngoing
BY DEF ScryptClaim, SameQueue, Lost

\* The next game of the queue.
Begins(c, next, id) ==
  [c EXCEPT !.sessions[next] = id, !.verificationOngoing = TRUE,
            !.currentChallenger = c.currentChallenger + 1]

\* A claim whose next game begins waits for it.
LEMMA SetBegins ==
  ASSUME NEW c \in ScryptClaim, NEW next \in Accounts, NEW id \in Nat
  PROVE  LET q == Begins(c, next, id)
         IN  /\ q \in ScryptClaim /\ SameQueue(q, c)
             /\ q.bondedDeposits = c.bondedDeposits /\ q.decided = c.decided
             /\ q.currentChallenger = c.currentChallenger + 1
             /\ q.sessions[next] = id
<1> DEFINE S == [c.sessions EXCEPT ![next] = id]
<1> DEFINE n == c.currentChallenger + 1
<1> DEFINE q == [c EXCEPT !.sessions = S, !.verificationOngoing = TRUE,
                          !.currentChallenger = n]
<1>1. S \in [Accounts -> Nat] /\ S[next] = id /\ n \in Nat
  BY ClaimFields
<1>2. Begins(c, next, id) = q
  BY DEF Begins
<1> HIDE DEF S, n
<1>3. /\ q \in ScryptClaim /\ SameQueue(q, c)
      /\ q.bondedDeposits = c.bondedDeposits /\ q.decided = c.decided
      /\ q.currentChallenger = n /\ q.sessions = S
  BY <1>1 DEF ScryptClaim, SameQueue
<1> QED
  BY <1>1, <1>2, <1>3 DEF n

\* A claim that is decided changes in that only.
LEMMA SetDecided ==
  ASSUME NEW c \in ScryptClaim
  PROVE  LET q == [c EXCEPT !.decided = TRUE]
         IN  /\ q \in ScryptClaim /\ SameQueue(q, c)
             /\ q.bondedDeposits = c.bondedDeposits /\ q.decided
             /\ q.verificationOngoing = c.verificationOngoing
BY DEF ScryptClaim, SameQueue

\* A challenger is added at the end of the queue.
LEMMA SetQueue ==
  ASSUME NEW c \in ScryptClaim, NEW a \in Accounts
  PROVE  LET q == [c EXCEPT !.challengers = Append(@, a)]
         IN  /\ q \in ScryptClaim /\ q.claimant = c.claimant
             /\ q.challengers = Append(c.challengers, a)
             /\ q.bondedDeposits = c.bondedDeposits /\ q.decided = c.decided
             /\ q.sessions = c.sessions
             /\ q.currentChallenger = c.currentChallenger
             /\ q.verificationOngoing = c.verificationOngoing
<1> DEFINE x == Append(c.challengers, a)
<1> DEFINE q == [c EXCEPT !.challengers = x]
<1>1. x \in Seq(Accounts)
  BY ClaimFields
<1> HIDE DEF x
<1>2. /\ q \in ScryptClaim /\ q.claimant = c.claimant /\ q.challengers = x
      /\ q.bondedDeposits = c.bondedDeposits /\ q.decided = c.decided
      /\ q.sessions = c.sessions
      /\ q.currentChallenger = c.currentChallenger
      /\ q.verificationOngoing = c.verificationOngoing
  BY <1>1 DEF ScryptClaim
<1> QED
  BY <1>2 DEF x

\* A bond is added to those of a claim.
LEMMA BondClaim ==
  ASSUME NEW c \in ScryptClaim, NEW a \in Accounts
  PROVE  LET q == Bond(c, a)
         IN  /\ q \in ScryptClaim /\ SameWait(q, c)
             /\ q.bondedDeposits =
                  [c.bondedDeposits EXCEPT ![a] = c.bondedDeposits[a] + minDeposit]
<1> DEFINE x == [c.bondedDeposits EXCEPT ![a] = c.bondedDeposits[a] + minDeposit]
<1>1. x \in [Accounts -> Nat]
  BY ClaimFields
<1>2. Bond(c, a) = [c EXCEPT !.bondedDeposits = x]
  BY DEF Bond
<1> HIDE DEF x
<1>3. LET q == Bond(c, a)
      IN  q \in ScryptClaim /\ SameWait(q, c) /\ q.bondedDeposits = x
  BY <1>1, <1>2, SetBonds
<1> QED
  BY <1>3 DEF x

\* A bond is given back.
LEMMA UnbondedClaim ==
  ASSUME NEW c \in ScryptClaim, NEW a \in Accounts
  PROVE  LET q == Unbonded(c, a)
         IN  /\ q \in ScryptClaim /\ SameWait(q, c)
             /\ q.bondedDeposits = [c.bondedDeposits EXCEPT ![a] = 0]
<1> DEFINE x == [c.bondedDeposits EXCEPT ![a] = 0]
<1>1. x \in [Accounts -> Nat]
  BY ClaimFields
<1>2. Unbonded(c, a) = [c EXCEPT !.bondedDeposits = x]
  BY DEF Unbonded
<1> HIDE DEF x
<1>3. LET q == Unbonded(c, a)
      IN  q \in ScryptClaim /\ SameWait(q, c) /\ q.bondedDeposits = x
  BY <1>1, <1>2, SetBonds
<1> QED
  BY <1>3 DEF x

\* The claim that does not exist has no queue, no game and no bonds.
LEMMA NoClaimType ==
  /\ NoClaim \in ScryptClaim /\ NoClaim.challengers = <<>>
  /\ NoClaim.claimant = NoAccount /\ ~NoClaim.decided
  /\ ~NoClaim.verificationOngoing
  /\ NoClaim.bondedDeposits = [a \in Accounts |-> 0]
BY DEF NoClaim, ScryptClaim

\* A claimant is all that changes when it is set.
LEMMA SetClaimant ==
  ASSUME NEW c \in ScryptClaim, NEW a \in Accounts
  PROVE  LET q == [c EXCEPT !.claimant = a]
         IN  /\ q \in ScryptClaim /\ q.challengers = c.challengers
             /\ q.claimant = a /\ q.decided = c.decided
             /\ q.verificationOngoing = c.verificationOngoing
             /\ q.bondedDeposits = c.bondedDeposits
BY DEF ScryptClaim

-----------------------------------------------------------------------------
(* What is owed.                                                           *)

\* An amount of each account.
Amount == [Accounts -> Nat]

\* The sum of free and bonded deposits.
Total(d, b) == SumFunctionOnSet(d, Accounts) + SumFunctionOnSet(b, Accounts)

\* A sum of amounts is a number.
LEMMA SumType ==
  ASSUME NEW d \in Amount
  PROVE  SumFunctionOnSet(d, Accounts) \in Nat
<1>1. \A a \in Accounts : d[a] \in Nat
  BY DEF Amount
<1> QED
  BY <1>1, SumNat

\* A sum of deposits is a number.
LEMMA TotalType ==
  ASSUME NEW d \in Amount, NEW b \in Amount
  PROVE  Total(d, b) \in Nat
BY SumType DEF Total

\* It is that of what each account has in all.
LEMMA TotalJoint ==
  ASSUME NEW d \in Amount, NEW b \in Amount
  PROVE  Total(d, b) = SumFunctionOnSet([a \in Accounts |-> d[a] + b[a]], Accounts)
<1> DEFINE t == [a \in Accounts |-> d[a] + b[a]]
<1>1. \A a \in Accounts : d[a] \in Int /\ b[a] \in Int /\ t[a] = d[a] + b[a]
  BY DEF Amount
<1>2. SumFunctionOnSet(t, Accounts) = Total(d, b)
  <2> HIDE DEF t
  <2> QED
    BY <1>1, SumOfSums DEF Total
<1> QED
  BY <1>2

\* What one account gains is owed more.
LEMMA TotalGain ==
  ASSUME NEW d \in Amount, NEW b \in Amount, NEW e \in Amount, NEW c \in Amount,
         NEW y \in Accounts, \A a \in Accounts \ {y} : e[a] + c[a] = d[a] + b[a]
  PROVE  Total(e, c) = Total(d, b) + ((e[y] + c[y]) - (d[y] + b[y]))
<1> DEFINE t == [a \in Accounts |-> d[a] + b[a]]
<1> DEFINE u == [a \in Accounts |-> e[a] + c[a]]
<1>1. \A a \in Accounts : t[a] \in Int /\ u[a] \in Int
  BY DEF Amount
<1>2. \A a \in Accounts \ {y} : u[a] = t[a]
  OBVIOUS
<1>3. t[y] = d[y] + b[y] /\ u[y] = e[y] + c[y]
  OBVIOUS
<1>4. SumFunctionOnSet(u, Accounts) =
        SumFunctionOnSet(t, Accounts) + (u[y] - t[y])
  <2> HIDE DEF t, u
  <2> QED
    BY <1>1, <1>2, SumUpdate
<1>5. Total(d, b) = SumFunctionOnSet(t, Accounts)
      /\ Total(e, c) = SumFunctionOnSet(u, Accounts)
  BY TotalJoint
<1> QED
  BY <1>3, <1>4, <1>5

\* What moves between the deposit and the bond of an account is owed still.
LEMMA TotalSame ==
  ASSUME NEW d \in Amount, NEW b \in Amount, NEW e \in Amount, NEW c \in Amount,
         \A a \in Accounts : e[a] + c[a] = d[a] + b[a]
  PROVE  Total(e, c) = Total(d, b)
<1> DEFINE t == [a \in Accounts |-> d[a] + b[a]]
<1> DEFINE u == [a \in Accounts |-> e[a] + c[a]]
<1>1. \A a \in Accounts : u[a] = t[a]
  OBVIOUS
<1>2. SumFunctionOnSet(u, Accounts) = SumFunctionOnSet(t, Accounts)
  <2> HIDE DEF t, u
  <2> QED
    BY <1>1, SumEqual
<1> QED
  BY <1>2, TotalJoint

\* What a game does to the bonds, and that it makes nothing owed: the winner
\* has the loser's, unless it is the loser too.
Won(b, winner, loser) ==
  [b EXCEPT ![winner] = b[winner] + b[loser], ![loser] = 0]

\* The winner has both bonds and the loser none.
LEMMA WonBonds ==
  ASSUME NEW b \in Amount, NEW w \in Accounts, NEW l \in Accounts
  PROVE  /\ Won(b, w, l) \in Amount
         /\ Won(b, w, l)[l] = 0
         /\ w # l => Won(b, w, l)[w] = b[w] + b[l]
         /\ \A a \in Accounts \ {w, l} : Won(b, w, l)[a] = b[a]
<1> DEFINE x == [b EXCEPT ![w] = b[w] + b[l]]
<1>1. x \in Amount /\ x[w] = b[w] + b[l] /\ \A a \in Accounts \ {w} : x[a] = b[a]
  BY DEF Amount
<1>2. Won(b, w, l) = [x EXCEPT ![l] = 0]
  BY DEF Won
<1> HIDE DEF x
<1> QED
  BY <1>1, <1>2 DEF Amount

\* A game that is won owes nobody more.
LEMMA TotalWon ==
  ASSUME NEW d \in Amount, NEW b \in Amount, NEW w \in Accounts, NEW l \in Accounts
  PROVE  Total(d, Won(b, w, l)) <= Total(d, b)
<1> DEFINE x == [b EXCEPT ![l] = 0]
<1> DEFINE y == Won(b, w, l)
<1>1. x \in Amount /\ x[l] = 0 /\ \A a \in Accounts \ {l} : x[a] = b[a]
  BY DEF Amount
<1>2. /\ y \in Amount /\ y[l] = 0
      /\ w # l => y[w] = b[w] + b[l]
      /\ \A a \in Accounts \ {w, l} : y[a] = b[a]
  BY WonBonds
<1> HIDE DEF x, y
<1>3. \A a \in Accounts : d[a] \in Nat /\ b[a] \in Nat
  BY DEF Amount
<1>4. Total(d, x) = Total(d, b) + ((d[l] + x[l]) - (d[l] + b[l]))
  BY <1>1, TotalGain
<1>5. Total(d, x) \in Nat /\ Total(d, b) \in Nat /\ Total(d, y) \in Nat
  BY <1>1, <1>2, TotalType
<1>6. CASE w = l
  <2>1. \A a \in Accounts : d[a] + y[a] = d[a] + x[a]
    BY <1>1, <1>2, <1>6
  <2>2. Total(d, y) = Total(d, x)
    BY <1>1, <1>2, <2>1, TotalSame
  <2> QED
    BY <1>1, <1>3, <1>4, <1>5, <2>2 DEF y
<1>7. CASE w # l
  <2>1. \A a \in Accounts \ {w} : d[a] + y[a] = d[a] + x[a]
    BY <1>1, <1>2, <1>7
  <2>2. Total(d, y) = Total(d, x) + ((d[w] + y[w]) - (d[w] + x[w]))
    BY <1>1, <1>2, <2>1, TotalGain
  <2>3. y[w] = b[w] + b[l] /\ x[w] = b[w]
    BY <1>1, <1>2, <1>7
  <2>4. (d[w] + y[w]) - (d[w] + x[w]) = b[l]
    BY <1>3, <2>3
  <2>5. (d[l] + x[l]) - (d[l] + b[l]) = 0 - b[l]
    BY <1>1, <1>3
  <2>6. b[l] \in Nat
    BY <1>3
  <2> QED
    BY <1>4, <1>5, <2>2, <2>4, <2>5, <2>6 DEF y
<1> QED
  BY <1>6, <1>7

\* The bond of a goes back to its deposit.
LEMMA ReleasedTotal ==
  ASSUME NEW d \in Amount, NEW b \in Amount, NEW a \in Accounts
  PROVE  LET e == [d EXCEPT ![a] = d[a] + b[a]]
             c == [b EXCEPT ![a] = 0]
         IN  e \in Amount /\ c \in Amount /\ Total(e, c) = Total(d, b)
<1> DEFINE e == [d EXCEPT ![a] = d[a] + b[a]]
<1> DEFINE c == [b EXCEPT ![a] = 0]
<1>1. \A x \in Accounts : d[x] \in Nat /\ b[x] \in Nat
  BY DEF Amount
<1>2. e \in Amount /\ c \in Amount
  BY <1>1 DEF Amount
<1>3. \A x \in Accounts : e[x] + c[x] = d[x] + b[x]
  BY <1>1 DEF Amount
<1> HIDE DEF e, c
<1>4. Total(e, c) = Total(d, b)
  BY <1>2, <1>3, TotalSame
<1> QED
  BY <1>2, <1>4 DEF e, c

-----------------------------------------------------------------------------
(* The inductive invariant.                                                *)

\* A claim is its submitter's, and who is honest challenges no right hash.
GoodClaim(c, q, f) ==
  /\ q.claimant \in {NoAccount, f.submitter[c]}
  /\ \A i \in DOMAIN q.challengers : q.challengers[i] \in f.honest => ~f.right[c]
  /\ q.claimant = NoAccount => q = NoClaim

\* A game that is live goes on, whoever began it; and an honest challenger who
\* plays it has it begin right and end wrong.
GoodGame(g, f) ==
  isLive(g) =>
    /\ g.challenger \in Accounts
    /\ Begun(g) /\ Shape(g) /\ Turns(g)
    /\ g.challenger \in f.honest =>
         g.lowHash = "right" /\ (g.medStep # 0 => g.highHash = "wrong")

\* Who is honest in a game that a claim waits for has the better of it.
HonestWins(g, f) ==
  /\ g.claimant \in f.honest => NeverWrong(g)
  /\ g.challenger \in f.honest => Brackets(g)

\* The session of the challenger before the one that is next.
LastSession(q) == q.sessions[q.challengers[q.currentChallenger]]

\* A claim that waits is undecided, and waits for a game of its own claimant,
\* unless that was ended without the claim being told.
Waits(q, gs, f) ==
  q.verificationOngoing =>
    /\ ~q.decided
    /\ q.currentChallenger \in DOMAIN q.challengers
    /\ LastSession(q) \in DOMAIN gs
    /\ isLive(gs[LastSession(q)]) =>
         gs[LastSession(q)].claimant = q.claimant
           /\ HonestWins(gs[LastSession(q)], f)

IInv ==
  /\ TypeOK
  /\ \A c \in ClaimIds :
       GoodClaim(c, claims[c], facts) /\ Waits(claims[c], games, facts)
  /\ \A s \in DOMAIN games : GoodGame(games[s], facts)
  /\ Owed <= balance

\* The body of HonestKeepsBond, and what each action is shown to keep.
HonestStep ==
  \A c \in ClaimIds, a \in facts.honest :
    Forfeits(c, a) => \E s \in DOMAIN games : EndsLate(s, a)

Kept == IInv' /\ HonestStep

\* The facts that every action starts from.
LEMMA StateFacts ==
  ASSUME IInv
  PROVE  /\ claims \in [ClaimIds -> ScryptClaim]
         /\ games \in Seq(Game) /\ sessionsClaimId \in Seq(ClaimIds)
         /\ Len(sessionsClaimId) = Len(games) /\ Len(games) \in Nat
         /\ DOMAIN games = 1 .. Len(games)
         /\ deposits \in Amount /\ balance \in Nat
         /\ openFor \in [ClaimIds -> 0 .. defaultChallengeTimeout + 1]
         /\ proposal \in [ClaimIds -> {"requested", "pending", "verified", "failed"}]
         /\ facts \in Facts /\ facts.honest \subseteq Accounts
         /\ Owed <= balance
<1>1. /\ claims \in [ClaimIds -> ScryptClaim]
      /\ games \in Seq(Game) /\ sessionsClaimId \in Seq(ClaimIds)
      /\ Len(sessionsClaimId) = Len(games)
      /\ deposits \in Amount /\ balance \in Nat
      /\ openFor \in [ClaimIds -> 0 .. defaultChallengeTimeout + 1]
      /\ proposal \in [ClaimIds -> {"requested", "pending", "verified", "failed"}]
      /\ facts \in Facts /\ Owed <= balance
  BY DEF IInv, TypeOK, Amount
<1>2. facts.honest \subseteq Accounts
  BY <1>1 DEF Facts
<1> QED
  BY <1>1, <1>2, LenProperties

\* And about one claim.
LEMMA ClaimFacts ==
  ASSUME IInv, NEW c \in ClaimIds
  PROVE  /\ claims[c] \in ScryptClaim /\ claims[c].bondedDeposits \in Amount
         /\ GoodClaim(c, claims[c], facts) /\ Waits(claims[c], games, facts)
         /\ facts.submitter[c] \in Accounts
         /\ facts.submitter[c] \in facts.honest => facts.right[c]
<1>1. claims[c] \in ScryptClaim
  BY StateFacts
<1>2. claims[c].bondedDeposits \in Amount
  BY <1>1, ClaimFields DEF Amount
<1>3. GoodClaim(c, claims[c], facts) /\ Waits(claims[c], games, facts)
  BY DEF IInv
<1>4. /\ facts.submitter[c] \in Accounts
      /\ facts.submitter[c] \in facts.honest => facts.right[c]
  BY StateFacts DEF Facts
<1> QED
  BY <1>1, <1>2, <1>3, <1>4

\* And about one game.
LEMMA GameFacts ==
  ASSUME IInv, NEW s \in DOMAIN games
  PROVE  games[s] \in Game /\ GoodGame(games[s], facts)
<1>1. games[s] \in Game
  BY StateFacts, ElementOfSeq
<1> QED
  BY <1>1 DEF IInv

\* What may become of a game: it ends, or who is honest in it keeps what it had.
Follows(g, old, f) ==
  isLive(g) =>
    /\ isLive(old) /\ SameParties(g, old)
    /\ HonestWins(old, f) => HonestWins(g, f)

\* What may become of the games: each goes on or ends, and new ones begin.
GamesGo(gs) ==
  /\ gs \in Seq(Game)
  /\ DOMAIN games \subseteq DOMAIN gs
  /\ \A s \in DOMAIN games : Follows(gs[s], games[s], facts)
  /\ \A s \in DOMAIN gs : GoodGame(gs[s], facts)

\* A game that stays as it is.
LEMMA FollowsItself ==
  ASSUME NEW g, NEW f
  PROVE  Follows(g, g, f)
BY DEF Follows, SameParties

\* The games stay as they are.
LEMMA SameGames ==
  ASSUME IInv
  PROVE  GamesGo(games)
BY StateFacts, FollowsItself DEF GamesGo, IInv

\* One game goes on or ends.
LEMMA OneGame ==
  ASSUME IInv, NEW s \in DOMAIN games, NEW g \in Game,
         GoodGame(g, facts), Follows(g, games[s], facts)
  PROVE  LET gs == [games EXCEPT ![s] = g]
         IN  /\ GamesGo(gs) /\ Len(gs) = Len(games)
             /\ gs[s] = g /\ \A t \in DOMAIN games \ {s} : gs[t] = games[t]
<1> DEFINE gs == [games EXCEPT ![s] = g]
<1>1. games \in Seq(Game) /\ DOMAIN games = 1 .. Len(games)
  BY StateFacts
<1>2. /\ gs \in Seq(Game) /\ Len(gs) = Len(games)
      /\ \A t \in 1 .. Len(games) : gs[t] = IF t = s THEN g ELSE games[t]
  BY <1>1, ExceptSeq
<1>3. DOMAIN gs = DOMAIN games
  BY <1>1
<1> HIDE DEF gs
<1>4. \A t \in DOMAIN games : Follows(gs[t], games[t], facts) /\ GoodGame(gs[t], facts)
  BY <1>1, <1>2, FollowsItself DEF IInv
<1>5. GamesGo(gs)
  BY <1>2, <1>3, <1>4 DEF GamesGo
<1> QED
  BY <1>1, <1>2, <1>5 DEF gs

\* A game ends.
LEMMA DisabledGames ==
  ASSUME IInv, NEW s \in DOMAIN games
  PROVE  /\ GamesGo(Disabled(s)) /\ Len(Disabled(s)) = Len(games)
         /\ ~isLive(Disabled(s)[s])
<1>1. NoGame \in Game /\ ~isLive(NoGame)
  BY NoGameType DEF isLive
<1>2. GoodGame(NoGame, facts) /\ Follows(NoGame, games[s], facts)
  BY <1>1 DEF GoodGame, Follows
<1> QED
  BY <1>1, <1>2, OneGame DEF Disabled

\* A game begins.
LEMMA MoreGames ==
  ASSUME IInv, NEW gs, GamesGo(gs), NEW g \in Game, GoodGame(g, facts)
  PROVE  /\ GamesGo(Append(gs, g)) /\ Len(Append(gs, g)) = Len(gs) + 1
         /\ Append(gs, g)[Len(gs) + 1] = g
         /\ Len(gs) + 1 \in DOMAIN Append(gs, g)
         /\ \A s \in DOMAIN gs : Append(gs, g)[s] = gs[s]
<1> DEFINE hs == Append(gs, g)
<1>1. /\ gs \in Seq(Game) /\ Len(gs) \in Nat /\ DOMAIN gs = 1 .. Len(gs)
      /\ DOMAIN games \subseteq DOMAIN gs
      /\ \A s \in DOMAIN games : Follows(gs[s], games[s], facts)
      /\ \A s \in DOMAIN gs : GoodGame(gs[s], facts)
  BY LenProperties DEF GamesGo
<1>2. /\ hs \in Seq(Game) /\ Len(hs) = Len(gs) + 1
      /\ \A s \in 1 .. Len(gs) : hs[s] = gs[s]
      /\ hs[Len(gs) + 1] = g
  BY <1>1, AppendProperties
<1> HIDE DEF hs
<1>3. DOMAIN hs = 1 .. Len(gs) + 1
  BY <1>2, LenProperties
<1>4. /\ \A s \in DOMAIN games : Follows(hs[s], games[s], facts)
      /\ \A s \in DOMAIN hs : GoodGame(hs[s], facts)
  <2>1. \A s \in DOMAIN hs : s \in DOMAIN gs \/ s = Len(gs) + 1
    BY <1>1, <1>3
  <2> QED
    BY <1>1, <1>2, <2>1
<1>5. GamesGo(hs)
  BY <1>1, <1>2, <1>3, <1>4 DEF GamesGo
<1> QED
  BY <1>1, <1>2, <1>3, <1>5 DEF hs

\* A claim waits on, whatever becomes of the games.
LEMMA WaitsOn ==
  ASSUME IInv, NEW q, Waits(q, games, facts), NEW gs, GamesGo(gs)
  PROVE  Waits(q, gs, facts)
BY DEF Waits, GamesGo, Follows, SameParties

\* What is owed is a number.
LEMMA OwedType ==
  ASSUME claims \in [ClaimIds -> ScryptClaim], deposits \in Amount
  PROVE  Owed \in Nat
<1> DEFINE f == [d \in ClaimIds |-> Bonded(claims[d])]
<1>1. \A d \in ClaimIds : f[d] \in Nat
  <2> SUFFICES ASSUME NEW d \in ClaimIds PROVE Bonded(claims[d]) \in Nat
    OBVIOUS
  <2>1. claims[d].bondedDeposits \in Amount
    BY ClaimFields DEF Amount
  <2> QED
    BY <2>1, SumType DEF Bonded
<1>2. SumFunctionOnSet(f, ClaimIds) \in Nat
  <2> HIDE DEF f
  <2> QED
    BY <1>1, SumNat
<1>3. SumFunctionOnSet(deposits, Accounts) \in Nat
  BY SumType
<1> QED
  BY <1>2, <1>3 DEF Owed

\* What one claim and the deposits owe more is owed more in all.
LEMMA OwedChange ==
  ASSUME IInv, NEW c \in ClaimIds, NEW q \in ScryptClaim,
         claims' = [claims EXCEPT ![c] = q], deposits' \in Amount, NEW n \in Int,
         Total(deposits', q.bondedDeposits) <=
           Total(deposits, claims[c].bondedDeposits) + n
  PROVE  Owed' <= Owed + n /\ Owed \in Int /\ Owed' \in Int
<1> DEFINE f == [d \in ClaimIds |-> Bonded(claims[d])]
<1> DEFINE g == [d \in ClaimIds |-> Bonded(claims'[d])]
<1>1. /\ claims \in [ClaimIds -> ScryptClaim] /\ claims' \in [ClaimIds -> ScryptClaim]
      /\ claims'[c] = q /\ \A d \in ClaimIds \ {c} : claims'[d] = claims[d]
  BY StateFacts
<1>2. \A k \in ScryptClaim : Bonded(k) \in Nat
  <2> SUFFICES ASSUME NEW k \in ScryptClaim PROVE Bonded(k) \in Nat
    OBVIOUS
  <2>1. k.bondedDeposits \in Amount
    BY ClaimFields DEF Amount
  <2> QED
    BY <2>1, SumType DEF Bonded
<1>3. \A d \in ClaimIds : f[d] \in Int /\ g[d] \in Int
  <2>1. \A d \in ClaimIds : claims[d] \in ScryptClaim /\ claims'[d] \in ScryptClaim
    BY <1>1
  <2> QED
    BY <1>2, <2>1
<1>4. \A d \in ClaimIds \ {c} : g[d] = f[d]
  BY <1>1
<1>5. f[c] = Bonded(claims[c]) /\ g[c] = Bonded(q)
  BY <1>1
<1> DEFINE F == SumFunctionOnSet(f, ClaimIds)
<1> DEFINE G == SumFunctionOnSet(g, ClaimIds)
<1> DEFINE D == SumFunctionOnSet(deposits, Accounts)
<1> DEFINE E == SumFunctionOnSet(deposits', Accounts)
<1>6. Owed = D + F /\ Owed' = E + G
  BY DEF Owed
<1> HIDE DEF f, g
<1>7. G = F + (g[c] - f[c]) /\ F \in Int
  BY <1>3, <1>4, SumUpdate, SumInt
<1>8. D \in Nat /\ E \in Nat
  BY StateFacts, SumType
<1>9. E + g[c] <= D + f[c] + n
  BY <1>5 DEF Total, Bonded
<1>10. f[c] \in Int /\ g[c] \in Int
  BY <1>3
<1> HIDE DEF F, G, D, E
<1> QED
  BY <1>6, <1>7, <1>8, <1>9, <1>10

\* Nothing but the deposits is owed more.
LEMMA OwedDeposits ==
  ASSUME IInv, claims' = claims, deposits' \in Amount, NEW n \in Int,
         SumFunctionOnSet(deposits', Accounts) =
           SumFunctionOnSet(deposits, Accounts) + n
  PROVE  Owed' = Owed + n
<1> DEFINE f == [d \in ClaimIds |-> Bonded(claims[d])]
<1>1. \A d \in ClaimIds : f[d] \in Int
  <2> SUFFICES ASSUME NEW d \in ClaimIds PROVE Bonded(claims[d]) \in Nat
    OBVIOUS
  <2> QED
    BY ClaimFacts, SumType DEF Bonded
<1> DEFINE F == SumFunctionOnSet(f, ClaimIds)
<1> DEFINE D == SumFunctionOnSet(deposits, Accounts)
<1> DEFINE E == SumFunctionOnSet(deposits', Accounts)
<1>2. F \in Int
  <2> HIDE DEF f
  <2> QED
    BY <1>1, SumInt
<1>3. Owed = D + F /\ Owed' = E + F
  BY DEF Owed
<1>4. D \in Nat
  BY StateFacts, SumType
<1>5. E = D + n
  OBVIOUS
<1> HIDE DEF D, E, F
<1> QED
  BY <1>2, <1>3, <1>4, <1>5

\* The parts of the invariant after a step.
LEMMA KeptBy ==
  ASSUME IInv, facts' = facts, claims' \in [ClaimIds -> ScryptClaim],
         \A c \in ClaimIds : GoodClaim(c, claims'[c], facts)
                               /\ Waits(claims'[c], games', facts),
         GamesGo(games'), sessionsClaimId' \in Seq(ClaimIds),
         Len(sessionsClaimId') = Len(games'),
         deposits' \in Amount, balance' \in Nat,
         openFor' \in [ClaimIds -> 0 .. defaultChallengeTimeout + 1],
         proposal' \in [ClaimIds -> {"requested", "pending", "verified", "failed"}],
         Owed' <= balance'
  PROVE  IInv'
<1>1. TypeOK'
  BY StateFacts DEF TypeOK, Amount, GamesGo
<1>2. (\A c \in ClaimIds :
         GoodClaim(c, claims[c], facts) /\ Waits(claims[c], games, facts))'
  BY DEF GoodClaim, Waits, HonestWins, LastSession, isLive, NeverWrong, Brackets
<1>3. (\A s \in DOMAIN games : GoodGame(games[s], facts))'
  BY DEF GamesGo, GoodGame, isLive, Begun, Shape, Turns, CanPerform, CanRespond,
         IsDue, Opponent
<1> QED
  BY <1>1, <1>2, <1>3 DEF IInv

\* The claims stay as they are.
LEMMA KeptGames ==
  ASSUME IInv, claims' = claims, facts' = facts,
         GamesGo(games'), sessionsClaimId' \in Seq(ClaimIds),
         Len(sessionsClaimId') = Len(games'),
         openFor' \in [ClaimIds -> 0 .. defaultChallengeTimeout + 1],
         UNCHANGED <<deposits, balance, proposal>>
  PROVE  Kept
<1>1. \A c \in ClaimIds : /\ claims[c] \in ScryptClaim
                          /\ GoodClaim(c, claims[c], facts)
                          /\ Waits(claims[c], games, facts)
  BY ClaimFacts
<1>2. \A c \in ClaimIds : Waits(claims[c], games', facts)
  BY <1>1, WaitsOn
<1>3. Owed' = Owed
  BY DEF Owed, Bonded
<1>4. IInv'
  BY <1>1, <1>2, <1>3, StateFacts, KeptBy
<1>5. HonestStep
  BY StateFacts, ClaimFacts DEF HonestStep, Forfeits, Amount
<1> QED
  BY <1>4, <1>5 DEF Kept

\* One claim changes.
LEMMA KeptClaim ==
  ASSUME IInv, NEW c \in ClaimIds, NEW q \in ScryptClaim,
         claims' = [claims EXCEPT ![c] = q], facts' = facts,
         GoodClaim(c, q, facts), Waits(q, games', facts),
         GamesGo(games'), sessionsClaimId' \in Seq(ClaimIds),
         Len(sessionsClaimId') = Len(games'),
         deposits' \in Amount, NEW n \in Int, balance' = balance + n, balance' \in Nat,
         openFor' \in [ClaimIds -> 0 .. defaultChallengeTimeout + 1],
         proposal' \in [ClaimIds -> {"requested", "pending", "verified", "failed"}],
         Total(deposits', q.bondedDeposits) <=
           Total(deposits, claims[c].bondedDeposits) + n
  PROVE  IInv'
<1>1. /\ claims' \in [ClaimIds -> ScryptClaim]
      /\ claims'[c] = q /\ \A d \in ClaimIds \ {c} : claims'[d] = claims[d]
  BY StateFacts
<1>2. \A d \in ClaimIds : GoodClaim(d, claims'[d], facts)
                            /\ Waits(claims'[d], games', facts)
  <2> SUFFICES ASSUME NEW d \in ClaimIds
               PROVE  GoodClaim(d, claims'[d], facts) /\ Waits(claims'[d], games', facts)
    OBVIOUS
  <2>1. CASE d = c
    BY <1>1, <2>1
  <2>2. CASE d # c
    <3>1. GoodClaim(d, claims[d], facts) /\ Waits(claims[d], games, facts)
      BY ClaimFacts
    <3> QED
      BY <1>1, <2>2, <3>1, WaitsOn
  <2> QED
    BY <2>1, <2>2
<1>3. Owed' <= balance'
  <2>1. Owed' <= Owed + n /\ Owed \in Int /\ Owed' \in Int
    BY OwedChange
  <2> QED
    BY <2>1, StateFacts
<1> QED
  BY <1>1, <1>2, <1>3, KeptBy

\* Nobody forfeits a bond that is not taken, or while the claim is closed.
LEMMA Unforfeited ==
  ASSUME IInv, NEW c \in ClaimIds, NEW q, claims' = [claims EXCEPT ![c] = q],
         q.decided \/ \A a \in Accounts :
                        claims[c].bondedDeposits[a] > 0 => q.bondedDeposits[a] # 0
  PROVE  HonestStep
<1> SUFFICES ASSUME NEW d \in ClaimIds, NEW a \in facts.honest, Forfeits(d, a)
             PROVE  FALSE
  BY DEF HonestStep
<1>1. a \in Accounts /\ claims \in [ClaimIds -> ScryptClaim]
  BY StateFacts
<1>2. claims'[c] = q /\ (d # c => claims'[d] = claims[d])
  BY <1>1
<1>3. /\ claims[d].bondedDeposits[a] > 0 /\ claims'[d].bondedDeposits[a] = 0
      /\ ~claims'[d].decided
  BY DEF Forfeits
<1> QED
  BY <1>1, <1>2, <1>3

-----------------------------------------------------------------------------
(* The actions on deposits.                                                *)

\* Only deposits and the ether of the contract change, by the same amount.
LEMMA DepositsStep ==
  ASSUME IInv, NEW n \in Int, balance' = balance + n, balance' \in Nat,
         deposits' \in Amount,
         SumFunctionOnSet(deposits', Accounts) =
           SumFunctionOnSet(deposits, Accounts) + n,
         UNCHANGED <<claims, games, sessionsClaimId, openFor, proposal, facts>>
  PROVE  Kept
<1>1. Owed' = Owed + n /\ Owed \in Int
  BY OwedDeposits, OwedType, StateFacts
<1>2. Owed' <= balance'
  BY <1>1, StateFacts
<1>3. GamesGo(games') /\ Len(sessionsClaimId') = Len(games')
  BY SameGames, StateFacts
<1>4. IInv'
  BY <1>2, <1>3, StateFacts, ClaimFacts, KeptBy
<1>5. HonestStep
  BY StateFacts, ClaimFacts DEF HonestStep, Forfeits, Amount
<1> QED
  BY <1>4, <1>5 DEF Kept

\* One account has n more.
LEMMA OneDeposit ==
  ASSUME NEW d \in Amount, NEW a \in Accounts, NEW n \in Int, d[a] + n \in Nat
  PROVE  LET e == [d EXCEPT ![a] = d[a] + n]
         IN  /\ e \in Amount
             /\ SumFunctionOnSet(e, Accounts) = SumFunctionOnSet(d, Accounts) + n
<1> DEFINE e == [d EXCEPT ![a] = d[a] + n]
<1>1. /\ e \in Amount /\ e[a] = d[a] + n
      /\ \A x \in Accounts \ {a} : e[x] = d[x]
  BY DEF Amount
<1>2. \A x \in Accounts : d[x] \in Int /\ e[x] \in Int
  BY <1>1 DEF Amount
<1> HIDE DEF e
<1>3. SumFunctionOnSet(e, Accounts) = SumFunctionOnSet(d, Accounts) + (e[a] - d[a])
  BY <1>1, <1>2, SumUpdate
<1>4. e[a] - d[a] = n
  BY <1>1, <1>2
<1> QED
  BY <1>1, <1>3, <1>4 DEF e

\* makeDeposit: as much comes in as is owed more.
LEMMA MakeDepositStep ==
  ASSUME IInv, NEW a \in Accounts, NEW n \in Amounts, MakeDeposit(a, n)
  PROVE  Kept
<1>1. /\ deposits' = [deposits EXCEPT ![a] = deposits[a] + n]
      /\ balance' = balance + n
      /\ UNCHANGED <<claims, games, sessionsClaimId, openFor, proposal, facts>>
  BY DEF MakeDeposit
<1>2. /\ n \in Nat /\ n \in Int /\ deposits \in Amount /\ deposits[a] \in Nat
      /\ deposits[a] + n \in Nat /\ balance \in Nat
  <2>1. deposits \in Amount /\ balance \in Nat
    BY StateFacts
  <2>2. n \in Nat
    BY NumbersAssumption
  <2>3. deposits[a] \in Nat
    BY <2>1 DEF Amount
  <2> QED
    BY <2>1, <2>2, <2>3
<1>3. /\ deposits' \in Amount
      /\ SumFunctionOnSet(deposits', Accounts) =
           SumFunctionOnSet(deposits, Accounts) + n
  BY <1>1, <1>2, OneDeposit
<1>4. balance' \in Nat
  BY <1>1, <1>2
<1> QED
  BY <1>1, <1>2, <1>3, <1>4, DepositsStep

\* withdrawDeposit: as much goes out as is owed less.
LEMMA WithdrawDepositStep ==
  ASSUME IInv, NEW a \in Accounts, NEW n \in Amounts, WithdrawDeposit(a, n)
  PROVE  Kept
<1> DEFINE m == 0 - n
<1>1. /\ n \in Nat /\ m \in Int /\ deposits \in Amount /\ deposits[a] \in Nat
      /\ balance \in Nat
  <2>1. deposits \in Amount /\ balance \in Nat
    BY StateFacts
  <2>2. n \in Nat
    BY NumbersAssumption
  <2>3. deposits[a] \in Nat
    BY <2>1 DEF Amount
  <2> QED
    BY <2>1, <2>2, <2>3
<1>2. deposits[a] >= n /\ balance >= n
  BY DEF WithdrawDeposit
<1>3. deposits[a] - n = deposits[a] + m /\ balance - n = balance + m
  BY <1>1
<1>4. /\ deposits' = [deposits EXCEPT ![a] = deposits[a] + m]
      /\ balance' = balance + m
      /\ UNCHANGED <<claims, games, sessionsClaimId, openFor, proposal, facts>>
  BY <1>3 DEF WithdrawDeposit
<1>5. deposits[a] + m \in Nat /\ balance + m \in Nat
  BY <1>1, <1>2
<1> HIDE DEF m
<1>6. /\ deposits' \in Amount
      /\ SumFunctionOnSet(deposits', Accounts) =
           SumFunctionOnSet(deposits, Accounts) + m
  BY <1>1, <1>4, <1>5, OneDeposit
<1> QED
  BY <1>1, <1>4, <1>5, <1>6, DepositsStep

-----------------------------------------------------------------------------
(* The actions on games.                                                   *)

\* A message is sent in game s, which becomes g.
LEMMA SpokenStep ==
  ASSUME IInv, NEW s \in DOMAIN games, NEW g \in Game,
         GoodGame(g, facts), Follows(g, games[s], facts),
         games' = [games EXCEPT ![s] = g],
         UNCHANGED <<claims, sessionsClaimId, deposits, balance, openFor, proposal,
                     facts>>
  PROVE  Kept
<1>1. GamesGo(games') /\ Len(games') = Len(games)
  BY OneGame
<1> QED
  BY <1>1, StateFacts, KeptGames

\* query: an honest challenger keeps the wrong step in the interval, and a query
\* brings no wrong hash into it.
LEMMA QueryStep ==
  ASSUME IInv, NEW s \in DOMAIN games, NEW step \in 0 .. steps, Query(s, step)
  PROVE  Kept
<1> DEFINE q == Queried(games[s], step)
<1> DEFINE g == Spoke(q, "challenger")
<1>1. PICK game \in Game : game = games[s] /\ GoodGame(game, facts)
  BY GameFacts
<1>2. /\ isLive(game) /\ CanQuery(game, step)
      /\ game.challenger \in facts.honest => Sensible(game, step)
      /\ games' = [games EXCEPT ![s] = g]
      /\ UNCHANGED <<claims, sessionsClaimId, deposits, balance, openFor, proposal,
                     facts>>
  BY <1>1 DEF Query, MayQuery, Spoken, isHonest
<1>3. /\ game.challenger \in Accounts /\ Begun(game) /\ Shape(game)
      /\ game.challenger \in facts.honest => game.lowHash = "right"
  BY <1>1, <1>2 DEF GoodGame
<1>4. /\ q \in Game /\ SameParties(q, game) /\ Begun(q)
      /\ Brackets(game) /\ Sensible(game, step) => Brackets(q)
  BY <1>1, <1>2, <1>3, QueriedGame
<1>5. /\ Shape(q) /\ (CanRespond(q) \/ CanPerform(q))
      /\ NeverWrong(game) => NeverWrong(q)
  BY <1>1, <1>2, <1>3, QueriedShape
<1>6. game.challenger \in facts.honest => Brackets(q)
  BY <1>2, <1>3, <1>4 DEF Brackets, Sensible
<1> HIDE DEF q
<1>7. SameInterval(g, q) /\ ~IsDue(g, "challenger")
  BY <1>4, SpokeGame, SpokeTurn DEF Sides
<1> HIDE DEF g
<1>8. /\ g \in Game /\ SameParties(g, game)
      /\ Shape(g) /\ Begun(g) /\ Turns(g)
  BY <1>4, <1>5, <1>7
  DEF SameInterval, SameParties, Shape, Begun, Turns, CanRespond, CanPerform
<1>9. /\ game.challenger \in facts.honest => Brackets(g)
      /\ NeverWrong(game) => NeverWrong(g)
  BY <1>5, <1>6, <1>7 DEF SameInterval, Brackets, NeverWrong
<1>10. GoodGame(g, facts)
  BY <1>3, <1>8, <1>9 DEF GoodGame, SameParties, Brackets
<1>11. Follows(g, game, facts)
  BY <1>2, <1>8, <1>9 DEF Follows, HonestWins, SameParties
<1> QED
  BY <1>1, <1>2, <1>8, <1>10, <1>11, SpokenStep

\* respond: the ends of the interval stay, and an honest claimant is right.
LEMMA RespondStep ==
  ASSUME IInv, NEW s \in DOMAIN games, NEW hash \in {"right", "wrong"}, Respond(s, hash)
  PROVE  Kept
<1> DEFINE q == Responded(games[s], hash)
<1> DEFINE g == Spoke(q, "claimant")
<1>1. PICK game \in Game : game = games[s] /\ GoodGame(game, facts)
  BY GameFacts
<1>2. /\ isLive(game) /\ CanRespond(game)
      /\ game.claimant \in facts.honest => hash = "right"
      /\ games' = [games EXCEPT ![s] = g]
      /\ UNCHANGED <<claims, sessionsClaimId, deposits, balance, openFor, proposal,
                     facts>>
  BY <1>1 DEF Respond, MayRespond, Spoken, isHonest
<1>3. game.challenger \in Accounts /\ Begun(game) /\ Shape(game)
  BY <1>1, <1>2 DEF GoodGame
<1>4. /\ q \in Game /\ SameParties(q, game)
      /\ q.lowStep = game.lowStep /\ q.lowHash = game.lowHash
      /\ q.medStep = game.medStep /\ q.medHash = hash
      /\ q.highStep = game.highStep /\ q.highHash = game.highHash
  <2>1. hash \in Hash
    BY DEF Hash
  <2> QED
    BY <1>1, <2>1, SetMedHash DEF Responded
<1> HIDE DEF q
<1>5. SameInterval(g, q) /\ ~IsDue(g, "claimant")
  BY <1>4, SpokeGame, SpokeTurn DEF Sides
<1> HIDE DEF g
<1>6. ~CanPerform(g)
  <2>1. /\ game.lowStep \in Nat /\ game.medStep \in Nat /\ game.highStep \in Nat
        /\ steps > 2
    BY GameFields
  <2>2. ~CanPerform(game)
    BY <1>2, <1>3, <2>1 DEF Shape, CanRespond, CanPerform
  <2> QED
    BY <1>4, <1>5, <2>2 DEF SameInterval, CanPerform
<1>7. /\ g \in Game /\ SameParties(g, game)
      /\ Shape(g) /\ Begun(g) /\ Turns(g)
  BY <1>2, <1>3, <1>4, <1>5, <1>6
  DEF SameInterval, SameParties, Shape, Begun, Turns, CanRespond, CanPerform
<1>8. /\ g.lowHash = game.lowHash /\ g.highHash = game.highHash
      /\ g.medStep = game.medStep /\ g.medHash = hash
  BY <1>4, <1>5 DEF SameInterval
<1>9. GoodGame(g, facts)
  BY <1>1, <1>2, <1>3, <1>7, <1>8 DEF GoodGame, SameParties
<1>10. Follows(g, game, facts)
  BY <1>2, <1>7, <1>8 DEF Follows, HonestWins, SameParties, NeverWrong, Brackets
<1> QED
  BY <1>1, <1>2, <1>7, <1>9, <1>10, SpokenStep

\* A block makes no game but an older one of it.
LEMMA AgedGoes ==
  ASSUME NEW g \in Game, NEW f, GoodGame(g, f)
  PROVE  Aged(g) \in Game /\ GoodGame(Aged(g), f) /\ Follows(Aged(g), g, f)
<1>1. SameInterval(Aged(g), g)
  BY AgedGame
<1>2. /\ IsDue(Aged(g), "claimant") => IsDue(g, "claimant")
      /\ IsDue(Aged(g), "challenger") => IsDue(g, "challenger")
  BY AgedTurn DEF Sides
<1> DEFINE h == Aged(g)
<1> HIDE DEF h
<1>3. SameInterval(h, g)
  BY <1>1 DEF h
<1>4. /\ IsDue(h, "claimant") => IsDue(g, "claimant")
      /\ IsDue(h, "challenger") => IsDue(g, "challenger")
  BY <1>2 DEF h
<1>5. h \in Game /\ GoodGame(h, f) /\ Follows(h, g, f)
  BY <1>3, <1>4
  DEF SameInterval, SameParties, GoodGame, Follows, HonestWins, isLive, Begun, Shape,
      Turns, NeverWrong, Brackets, CanRespond, CanPerform
<1> QED
  BY <1>5 DEF h

\* A block goes by.
LEMMA TickStep ==
  ASSUME IInv, Tick
  PROVE  Kept
<1>1. /\ openFor' = [c \in ClaimIds |-> IF openFor[c] > 0 THEN openFor[c] - 1 ELSE 0]
      /\ games' = [s \in DOMAIN games |-> Aged(games[s])]
      /\ UNCHANGED <<claims, sessionsClaimId, deposits, balance, proposal, facts>>
  BY DEF Tick
<1>2. openFor' \in [ClaimIds -> 0 .. defaultChallengeTimeout + 1]
  <2>1. \A c \in ClaimIds : openFor[c] \in 0 .. defaultChallengeTimeout + 1
    BY StateFacts
  <2>2. \A c \in ClaimIds : (IF openFor[c] > 0 THEN openFor[c] - 1 ELSE 0)
                               \in 0 .. defaultChallengeTimeout + 1
    BY <2>1
  <2> QED
    BY <1>1, <2>2
<1>3. \A s \in DOMAIN games : /\ Aged(games[s]) \in Game
                              /\ GoodGame(Aged(games[s]), facts)
                              /\ Follows(Aged(games[s]), games[s], facts)
  BY GameFacts, AgedGoes
<1>4. DOMAIN games = 1 .. Len(games) /\ Len(games) \in Nat
  BY StateFacts
<1>5. games' \in [1 .. Len(games) -> Game]
  BY <1>1, <1>3, <1>4
<1>6. games' \in Seq(Game) /\ Len(games') = Len(games)
  <2>1. games' \in Seq(Game)
    BY <1>4, <1>5, IsASeq
  <2> QED
    BY <1>4, <1>5, <2>1, LenProperties
<1>7. DOMAIN games' = DOMAIN games
  BY <1>4, <1>5
<1>8. GamesGo(games')
  BY <1>1, <1>3, <1>6, <1>7 DEF GamesGo
<1> QED
  BY <1>1, <1>2, <1>6, <1>8, StateFacts, KeptGames

\* A game as it begins, between whoever it may be.
LEMMA BegunGood ==
  ASSUME NEW a \in Accounts, NEW b \in Accounts, NEW output \in {"right", "wrong"}, NEW f
  PROVE  LET g == claimComputation(a, b, output)
         IN  g \in Game /\ GoodGame(g, f)
<1> DEFINE g == claimComputation(a, b, output)
<1>1. /\ g \in Game /\ g.claimant = a /\ g.challenger = b
      /\ Begun(g) /\ g.lowHash = "right" /\ g.highHash = output
      /\ g.medStep = 0
  BY BegunGame
<1>2. Shape(g) /\ Turns(g)
  BY BegunTurns
<1> HIDE DEF g
<1>3. g \in Game /\ GoodGame(g, f)
  BY <1>1, <1>2 DEF GoodGame
<1> QED
  BY <1>3 DEF g

\* claimComputation, called by anyone.
LEMMA BeginGameStep ==
  ASSUME IInv, NEW c \in ClaimIds, NEW a \in Accounts, NEW b \in Accounts,
         NEW output \in {"right", "wrong"}, BeginGame(c, a, b, output)
  PROVE  Kept
<1> DEFINE g == claimComputation(b, a, output)
<1>1. /\ games' = Append(games, g)
      /\ sessionsClaimId' = Append(sessionsClaimId, c)
      /\ UNCHANGED <<claims, deposits, balance, openFor, proposal, facts>>
  BY DEF BeginGame
<1>2. g \in Game /\ GoodGame(g, facts)
  BY BegunGood
<1> HIDE DEF g
<1>3. GamesGo(games') /\ Len(games') = Len(games) + 1
  BY <1>1, <1>2, SameGames, MoreGames
<1>4. sessionsClaimId' \in Seq(ClaimIds) /\ Len(sessionsClaimId') = Len(games')
  BY <1>1, <1>3, StateFacts, AppendProperties
<1> QED
  BY <1>1, <1>3, <1>4, StateFacts, KeptGames

\* sessionDecided of another contract.
LEMMA DecidedElsewhereStep ==
  ASSUME IInv, NEW s \in DOMAIN games, DecidedElsewhere(s)
  PROVE  Kept
<1>1. /\ games' = Disabled(s)
      /\ UNCHANGED <<claims, sessionsClaimId, deposits, balance, openFor, proposal,
                     facts>>
  BY DEF DecidedElsewhere
<1>2. GamesGo(games') /\ Len(games') = Len(games)
  BY <1>1, DisabledGames
<1> QED
  BY <1>1, <1>2, StateFacts, KeptGames

-----------------------------------------------------------------------------
(* The actions on claims.                                                  *)

\* checkScryptHash: the claim is new, so nothing was bonded for it.
LEMMA CheckScryptStep ==
  ASSUME IInv, NEW c \in ClaimIds, NEW value \in Amounts \cup {0}, CheckScrypt(c, value)
  PROVE  Kept
<1> DEFINE p == facts.submitter[c]
<1> DEFINE x == [deposits EXCEPT ![p] = deposits[p] + value]
<1> DEFINE k == [NoClaim EXCEPT !.claimant = p]
<1> DEFINE q == Bond(k, p)
<1>1. /\ x[p] >= minDeposit
      /\ deposits' = [x EXCEPT ![p] = x[p] - minDeposit]
      /\ balance' = balance + value
      /\ claims' = [claims EXCEPT ![c] = q]
      /\ openFor' = [openFor EXCEPT ![c] = defaultChallengeTimeout + 1]
      /\ proposal' = [proposal EXCEPT ![c] = "pending"]
      /\ UNCHANGED <<games, sessionsClaimId, facts>>
      /\ ~claimExists(c)
  BY DEF CheckScrypt, BondDeposit
<1>2. /\ value \in Nat /\ minDeposit \in Nat /\ deposits \in Amount /\ p \in Accounts
      /\ balance \in Nat
  BY StateFacts, ClaimFacts
<1>3. p # NoAccount
  BY <1>2
<1> HIDE DEF p
<1>4. deposits[p] \in Nat
  BY <1>2 DEF Amount
<1>5. /\ x[p] = deposits[p] + value
      /\ \A y \in Accounts \ {p} : x[y] = deposits[y]
      /\ x \in Amount
  BY <1>2, <1>4 DEF Amount
<1> HIDE DEF x
<1>6. /\ deposits' \in Amount
      /\ deposits'[p] = (deposits[p] + value) - minDeposit
      /\ \A y \in Accounts \ {p} : deposits'[y] = deposits[y]
  <2>1. x[p] - minDeposit \in Nat
    BY <1>1, <1>2, <1>4, <1>5
  <2> QED
    BY <1>1, <1>2, <1>5, <2>1 DEF Amount
<1> DEFINE b == claims[c].bondedDeposits
<1> DEFINE e == q.bondedDeposits
<1>7. b \in Amount /\ \A y \in Accounts : b[y] = 0
  <2>1. claims[c] = NoClaim
    BY <1>1, ClaimFacts DEF GoodClaim, claimExists
  <2> QED
    BY <2>1, ClaimFacts, NoClaimType
<1>8. /\ k \in ScryptClaim /\ k.challengers = <<>> /\ k.claimant = p
      /\ ~k.verificationOngoing /\ k.bondedDeposits = [a \in Accounts |-> 0]
  BY <1>2, NoClaimType, SetClaimant
<1> HIDE DEF k
<1>9. /\ q \in ScryptClaim /\ SameWait(q, k)
      /\ e = [k.bondedDeposits EXCEPT ![p] = k.bondedDeposits[p] + minDeposit]
  BY <1>2, <1>8, BondClaim
<1> HIDE DEF q
<1>10. /\ e[p] = minDeposit
       /\ \A y \in Accounts \ {p} : e[y] = 0
       /\ e \in Amount
  BY <1>2, <1>8, <1>9 DEF Amount
<1>11. Total(deposits', e) <= Total(deposits, b) + value
  <2>1. \A y \in Accounts \ {p} : deposits'[y] + e[y] = deposits[y] + b[y]
    BY <1>6, <1>7, <1>10
  <2>2. (deposits'[p] + e[p]) - (deposits[p] + b[p]) = value
    BY <1>2, <1>4, <1>6, <1>7, <1>10
  <2> HIDE DEF b, e
  <2>3. Total(deposits', e) =
          Total(deposits, b) + ((deposits'[p] + e[p]) - (deposits[p] + b[p]))
    BY <1>2, <1>6, <1>7, <1>10, <2>1, TotalGain
  <2>4. Total(deposits, b) \in Nat
    BY <1>2, <1>7, TotalType
  <2> QED
    BY <1>2, <2>2, <2>3, <2>4
<1>12. GoodClaim(c, q, facts) /\ Waits(q, games', facts)
  <2>1. DOMAIN q.challengers = {}
    BY <1>8, <1>9 DEF SameWait, SameQueue
  <2> QED
    BY <1>3, <1>8, <1>9, <2>1 DEF GoodClaim, Waits, SameWait, SameQueue, p
<1>13. /\ openFor' \in [ClaimIds -> 0 .. defaultChallengeTimeout + 1]
       /\ proposal' \in [ClaimIds -> {"requested", "pending", "verified", "failed"}]
  <2>1. defaultChallengeTimeout + 1 \in 0 .. defaultChallengeTimeout + 1
    OBVIOUS
  <2> QED
    BY <1>1, <2>1, StateFacts
<1>14. GamesGo(games') /\ sessionsClaimId' \in Seq(ClaimIds)
       /\ Len(sessionsClaimId') = Len(games')
  BY <1>1, StateFacts, SameGames
<1>15. IInv'
  <2>1. value \in Int /\ balance' \in Nat
    BY <1>1, <1>2
  <2> QED
    BY <1>1, <1>6, <1>9, <1>11, <1>12, <1>13, <1>14, <2>1, KeptClaim
<1>16. HonestStep
  <2>1. \A y \in Accounts : b[y] > 0 => e[y] # 0
    BY <1>7
  <2> QED
    BY <1>1, <2>1, Unforfeited
<1> QED
  BY <1>15, <1>16 DEF Kept

\* A challenger is queued by a claim that may be waiting for a game.
LEMMA QueuedWaits ==
  ASSUME NEW q \in ScryptClaim, NEW p \in ScryptClaim, NEW gs, NEW f, Waits(p, gs, f),
         NEW a \in Accounts, q.claimant = p.claimant,
         q.challengers = Append(p.challengers, a), q.decided = p.decided,
         q.sessions = p.sessions, q.currentChallenger = p.currentChallenger,
         q.verificationOngoing = p.verificationOngoing
  PROVE  Waits(q, gs, f)
<1> SUFFICES ASSUME q.verificationOngoing
             PROVE  /\ ~q.decided
                    /\ q.currentChallenger \in DOMAIN q.challengers
                    /\ LastSession(q) = LastSession(p)
  BY DEF Waits
<1>1. ~p.decided /\ p.currentChallenger \in DOMAIN p.challengers
  BY DEF Waits
<1>2. p.challengers \in Seq(Accounts)
  BY ClaimFields
<1>3. /\ \A i \in DOMAIN p.challengers : q.challengers[i] = p.challengers[i]
      /\ DOMAIN p.challengers \subseteq DOMAIN q.challengers
  BY <1>2, AppendProperties, LenProperties
<1> QED
  BY <1>1, <1>3 DEF LastSession

\* challengeClaim.
LEMMA ChallengeClaimStep ==
  ASSUME IInv, NEW c \in ClaimIds, NEW a \in Accounts, ChallengeClaim(c, a)
  PROVE  Kept
<1> DEFINE k == Bond(claims[c], a)
<1> DEFINE q == [k EXCEPT !.challengers = Append(@, a)]
<1>1. /\ claimExists(c)
      /\ a \in facts.honest => ~facts.right[c]
      /\ deposits[a] >= minDeposit
      /\ deposits' = [deposits EXCEPT ![a] = deposits[a] - minDeposit]
      /\ claims' = [claims EXCEPT ![c] = q]
      /\ openFor' = [openFor EXCEPT ![c] = defaultChallengeTimeout + 1]
      /\ UNCHANGED <<games, sessionsClaimId, balance, proposal, facts>>
  BY DEF ChallengeClaim, BondDeposit, isHonest
<1>2. /\ minDeposit \in Nat /\ deposits \in Amount /\ claims[c] \in ScryptClaim
      /\ claims[c].bondedDeposits \in Amount
  BY StateFacts, ClaimFacts
<1> DEFINE b == claims[c].bondedDeposits
<1> DEFINE e == q.bondedDeposits
<1>3. deposits[a] \in Nat /\ b[a] \in Nat
  BY <1>2 DEF Amount
<1>4. /\ deposits' \in Amount /\ deposits'[a] = deposits[a] - minDeposit
      /\ \A y \in Accounts \ {a} : deposits'[y] = deposits[y]
  <2>1. deposits[a] - minDeposit \in Nat
    BY <1>1, <1>2, <1>3
  <2> QED
    BY <1>1, <1>2, <2>1 DEF Amount
<1>5. /\ k \in ScryptClaim /\ SameWait(k, claims[c])
      /\ k.bondedDeposits = [b EXCEPT ![a] = b[a] + minDeposit]
  BY <1>2, BondClaim
<1> HIDE DEF k
<1>6. /\ q \in ScryptClaim /\ q.claimant = k.claimant
      /\ q.challengers = Append(k.challengers, a)
      /\ q.bondedDeposits = k.bondedDeposits /\ q.decided = k.decided
      /\ q.sessions = k.sessions /\ q.currentChallenger = k.currentChallenger
      /\ q.verificationOngoing = k.verificationOngoing
  BY <1>5, SetQueue
<1> HIDE DEF q
<1>7. /\ e \in Amount /\ e[a] = b[a] + minDeposit
      /\ \A y \in Accounts \ {a} : e[y] = b[y]
  BY <1>2, <1>3, <1>5, <1>6 DEF Amount
<1>8. Total(deposits', e) <= Total(deposits, b) + 0
  <2>1. \A y \in Accounts \ {a} : deposits'[y] + e[y] = deposits[y] + b[y]
    BY <1>4, <1>7
  <2>2. deposits'[a] + e[a] = deposits[a] + b[a]
    BY <1>2, <1>3, <1>4, <1>7
  <2>3. \A y \in Accounts : deposits'[y] + e[y] = deposits[y] + b[y]
    BY <2>1, <2>2
  <2>4. b \in Amount
    BY <1>2
  <2> HIDE DEF b, e
  <2>5. Total(deposits', e) = Total(deposits, b) /\ Total(deposits, b) \in Nat
    BY <1>2, <1>4, <1>7, <2>3, <2>4, TotalSame, TotalType
  <2> QED
    BY <2>5
<1>9. GoodClaim(c, q, facts)
  <2>1. GoodClaim(c, claims[c], facts) /\ claims[c].claimant # NoAccount
    BY <1>1, ClaimFacts DEF claimExists
  <2>2. claims[c].challengers \in Seq(Accounts)
    BY <1>2, ClaimFields
  <2>3. \A i \in DOMAIN q.challengers :
          \/ i \in DOMAIN claims[c].challengers
               /\ q.challengers[i] = claims[c].challengers[i]
          \/ q.challengers[i] = a
    BY <1>5, <1>6, <2>2, AppendProperties, LenProperties DEF SameWait, SameQueue
  <2>4. q.claimant = claims[c].claimant
    BY <1>5, <1>6 DEF SameWait, SameQueue
  <2> QED
    BY <1>1, <2>1, <2>3, <2>4 DEF GoodClaim
<1>10. Waits(q, games', facts)
  <2>1. Waits(claims[c], games, facts)
    BY ClaimFacts
  <2>2. Waits(q, games, facts)
    BY <1>2, <1>5, <1>6, <2>1, QueuedWaits DEF SameWait, SameQueue
  <2> QED
    BY <1>1, <2>2
<1>11. openFor' \in [ClaimIds -> 0 .. defaultChallengeTimeout + 1]
  <2>1. defaultChallengeTimeout + 1 \in 0 .. defaultChallengeTimeout + 1
    OBVIOUS
  <2> QED
    BY <1>1, <2>1, StateFacts
<1>12. GamesGo(games') /\ sessionsClaimId' \in Seq(ClaimIds)
       /\ Len(sessionsClaimId') = Len(games')
  BY <1>1, StateFacts, SameGames
<1>13. IInv'
  <2>1. 0 \in Int /\ balance' = balance + 0 /\ balance' \in Nat
    BY <1>1, StateFacts
  <2>2. proposal' \in [ClaimIds -> {"requested", "pending", "verified", "failed"}]
    BY <1>1, StateFacts
  <2> QED
    BY <1>1, <1>4, <1>6, <1>8, <1>9, <1>10, <1>11, <1>12, <2>1, <2>2, KeptClaim
<1>14. \A y \in Accounts : b[y] > 0 => e[y] # 0
  BY <1>2, <1>3, <1>7
<1>15. HonestStep
  BY <1>1, <1>14, Unforfeited
<1> QED
  BY <1>13, <1>15 DEF Kept

\* A bond of a decided claim is released.
LEMMA ReleasedStep ==
  ASSUME IInv, NEW c \in ClaimIds, claimExists(c), NEW k \in ScryptClaim,
         SameQueue(k, claims[c]), k.bondedDeposits = claims[c].bondedDeposits,
         k.decided, ~k.verificationOngoing, NEW a \in Accounts,
         claims' = [claims EXCEPT ![c] = Unbonded(k, a)],
         deposits' = [deposits EXCEPT ![a] = @ + claims[c].bondedDeposits[a]],
         proposal' \in [ClaimIds -> {"requested", "pending", "verified", "failed"}],
         UNCHANGED <<games, sessionsClaimId, balance, openFor, facts>>
  PROVE  Kept
<1> DEFINE q == Unbonded(k, a)
<1>1. /\ q \in ScryptClaim /\ SameWait(q, k)
      /\ q.bondedDeposits = [claims[c].bondedDeposits EXCEPT ![a] = 0]
  BY UnbondedClaim
<1>2. claims' = [claims EXCEPT ![c] = q]
  OBVIOUS
<1> HIDE DEF q
<1>3. /\ deposits' \in Amount
      /\ Total(deposits', q.bondedDeposits) <=
           Total(deposits, claims[c].bondedDeposits) + 0
  <2>1. PICK d \in Amount, b \in Amount :
          d = deposits /\ b = claims[c].bondedDeposits
    BY StateFacts, ClaimFacts
  <2> DEFINE e == [d EXCEPT ![a] = d[a] + b[a]]
  <2> DEFINE f == [b EXCEPT ![a] = 0]
  <2>2. e \in Amount /\ f \in Amount /\ Total(e, f) = Total(d, b)
    BY ReleasedTotal
  <2>3. deposits' = e /\ q.bondedDeposits = f
    BY <1>1, <2>1
  <2>4. Total(d, b) \in Nat
    BY TotalType
  <2> HIDE DEF e, f
  <2>5. Total(e, f) <= Total(d, b) + 0
    BY <2>2, <2>4
  <2> QED
    BY <2>1, <2>2, <2>3, <2>5
<1>4. q.decided /\ GoodClaim(c, q, facts) /\ Waits(q, games', facts)
  <2>1. GoodClaim(c, claims[c], facts) /\ claims[c].claimant # NoAccount
    BY ClaimFacts DEF claimExists
  <2>2. /\ q.claimant = claims[c].claimant /\ q.challengers = claims[c].challengers
        /\ q.decided /\ ~q.verificationOngoing
    BY <1>1 DEF SameWait, SameQueue
  <2> QED
    BY <2>1, <2>2 DEF GoodClaim, Waits
<1>5. GamesGo(games') /\ sessionsClaimId' \in Seq(ClaimIds)
      /\ Len(sessionsClaimId') = Len(games')
  BY StateFacts, SameGames
<1>6. IInv'
  <2>1. 0 \in Int /\ balance' = balance + 0 /\ balance' \in Nat
        /\ openFor' \in [ClaimIds -> 0 .. defaultChallengeTimeout + 1]
    BY StateFacts
  <2> QED
    BY <1>1, <1>2, <1>3, <1>4, <1>5, <2>1, KeptClaim
<1>7. HonestStep
  BY <1>2, <1>4, Unforfeited
<1> QED
  BY <1>6, <1>7 DEF Kept

\* A claim that was found invalid is closed, and its bonds stay.
LEMMA ClosedStep ==
  ASSUME IInv, NEW c \in ClaimIds, claimExists(c), NEW k \in ScryptClaim,
         SameQueue(k, claims[c]), k.bondedDeposits = claims[c].bondedDeposits,
         k.decided, ~k.verificationOngoing,
         claims' = [claims EXCEPT ![c] = k],
         proposal' \in [ClaimIds -> {"requested", "pending", "verified", "failed"}],
         UNCHANGED <<games, sessionsClaimId, deposits, balance, openFor, facts>>
  PROVE  Kept
<1>1. GoodClaim(c, k, facts) /\ Waits(k, games', facts)
  <2>1. GoodClaim(c, claims[c], facts) /\ claims[c].claimant # NoAccount
    BY ClaimFacts DEF claimExists
  <2> QED
    BY <2>1 DEF GoodClaim, Waits, SameQueue
<1>2. Total(deposits', k.bondedDeposits) <=
        Total(deposits, claims[c].bondedDeposits) + 0
  <2>1. Total(deposits, claims[c].bondedDeposits) \in Nat
    BY StateFacts, ClaimFacts, TotalType
  <2> QED
    BY <2>1
<1>3. GamesGo(games') /\ sessionsClaimId' \in Seq(ClaimIds)
      /\ Len(sessionsClaimId') = Len(games')
  BY StateFacts, SameGames
<1>4. /\ 0 \in Int /\ balance' = balance + 0 /\ balance' \in Nat
      /\ openFor' \in [ClaimIds -> 0 .. defaultChallengeTimeout + 1]
      /\ deposits' \in Amount
  BY StateFacts
<1>5. IInv'
  BY <1>1, <1>2, <1>3, <1>4, KeptClaim
<1>6. HonestStep
  BY Unforfeited
<1> QED
  BY <1>5, <1>6 DEF Kept

\* checkClaimSuccessful.
LEMMA CheckClaimSuccessfulStep ==
  ASSUME IInv, NEW c \in ClaimIds, CheckClaimSuccessful(c)
  PROVE  Kept
<1> DEFINE k == [claims[c] EXCEPT !.decided = TRUE]
<1> DEFINE a == claims[c].claimant
<1>1. /\ claimExists(c) /\ ~claims[c].verificationOngoing
      /\ UNCHANGED <<games, sessionsClaimId, balance, openFor, facts>>
      /\ \/ /\ claims' = [claims EXCEPT ![c] = k]
            /\ proposal' = [proposal EXCEPT ![c] = "failed"]
            /\ deposits' = deposits
         \/ /\ claims' = [claims EXCEPT ![c] = Unbonded(k, a)]
            /\ deposits' = [deposits EXCEPT ![a] = @ + claims[c].bondedDeposits[a]]
            /\ proposal' = [proposal EXCEPT ![c] = "verified"]
  BY DEF CheckClaimSuccessful
<1>2. proposal' \in [ClaimIds -> {"requested", "pending", "verified", "failed"}]
  BY <1>1, StateFacts
<1>3. /\ k \in ScryptClaim /\ SameQueue(k, claims[c]) /\ k.decided
      /\ k.bondedDeposits = claims[c].bondedDeposits
      /\ ~k.verificationOngoing
  BY <1>1, ClaimFacts, SetDecided
<1> HIDE DEF k
<1>4. a \in Accounts
  BY <1>1, ClaimFacts DEF GoodClaim, claimExists
<1>5. CASE claims' = [claims EXCEPT ![c] = k] /\ deposits' = deposits
  BY <1>1, <1>2, <1>3, <1>5, ClosedStep
<1>6. CASE /\ claims' = [claims EXCEPT ![c] = Unbonded(k, a)]
           /\ deposits' = [deposits EXCEPT ![a] = @ + claims[c].bondedDeposits[a]]
  <2> HIDE DEF a
  <2> QED
    BY <1>1, <1>2, <1>3, <1>4, <1>6, ReleasedStep
<1> QED
  BY <1>1, <1>5, <1>6

\* unbondDeposit.
LEMMA UnbondDepositStep ==
  ASSUME IInv, NEW c \in ClaimIds, NEW a \in Accounts, UnbondDeposit(c, a)
  PROVE  Kept
<1>1. /\ claimExists(c) /\ claims[c].decided
      /\ claims' = [claims EXCEPT ![c] = Unbonded(claims[c], a)]
      /\ deposits' = [deposits EXCEPT ![a] = @ + claims[c].bondedDeposits[a]]
      /\ UNCHANGED <<games, sessionsClaimId, balance, openFor, proposal, facts>>
  BY StateFacts DEF UnbondDeposit
<1>2. /\ claims[c] \in ScryptClaim /\ SameQueue(claims[c], claims[c])
      /\ ~claims[c].verificationOngoing
  BY <1>1, ClaimFacts DEF SameQueue, Waits
<1>3. proposal' \in [ClaimIds -> {"requested", "pending", "verified", "failed"}]
  BY <1>1, StateFacts
<1> QED
  BY <1>1, <1>2, <1>3, ReleasedStep

-----------------------------------------------------------------------------
(* The actions that begin and end the games of claims.                     *)

\* runNextVerificationGame: the claim waits for a game which who is honest in it
\* has the better of, or for none.
LEMMA RunNextMakes ==
  ASSUME IInv, NEW c \in ClaimIds, NEW claim \in ScryptClaim, GoodClaim(c, claim, facts),
         claim.claimant # NoAccount, NEW gs, GamesGo(gs), Len(gs) = Len(games),
         RunNext(c, claim, gs)
  PROVE  \E k \in ScryptClaim :
           /\ claims' = [claims EXCEPT ![c] = k]
           /\ GoodClaim(c, k, facts) /\ Waits(k, games', facts)
           /\ k.bondedDeposits = claim.bondedDeposits
           /\ GamesGo(games') /\ sessionsClaimId' \in Seq(ClaimIds)
           /\ Len(sessionsClaimId') = Len(games')
           /\ \A s \in DOMAIN gs : games'[s] = gs[s]
<1> DEFINE i == claim.currentChallenger + 1
<1> DEFINE next == claim.challengers[i]
<1>1. ~claim.decided /\ ~claim.verificationOngoing
  BY DEF RunNext, CanRunNext
<1>2. /\ claim.claimant \in Accounts /\ claim.claimant = facts.submitter[c]
      /\ claim.claimant \in facts.honest => facts.right[c]
  BY ClaimFacts DEF GoodClaim
<1> DEFINE id == Len(gs) + 1
<1> DEFINE g == claimComputation(claim.claimant, next, Output(c))
<1> DEFINE k == Begins(claim, next, id)
<1>3. \/ /\ i <= Len(claim.challengers)
         /\ claims' = [claims EXCEPT ![c] = k]
         /\ games' = Append(gs, g)
         /\ sessionsClaimId' = Append(sessionsClaimId, c)
      \/ /\ claims' = [claims EXCEPT ![c] = claim]
         /\ games' = gs /\ sessionsClaimId' = sessionsClaimId
  BY Zenon DEF RunNext, Begins
<1>4. CASE /\ i <= Len(claim.challengers)
           /\ claims' = [claims EXCEPT ![c] = k]
           /\ games' = Append(gs, g)
           /\ sessionsClaimId' = Append(sessionsClaimId, c)
  <2>2. i \in Nat /\ i \in DOMAIN claim.challengers
    BY <1>4, ClaimFields, LenProperties
  <2>3. next \in Accounts
    BY <2>2, ClaimFields, ElementOfSeq
  <2>4. next \in facts.honest => ~facts.right[c]
    BY <2>2 DEF GoodClaim
  <2> HIDE DEF i, next
  <2>5. Output(c) \in {"right", "wrong"}
    BY DEF Output
  <2>6. /\ g.claimant = claim.claimant /\ g.challenger = next
        /\ g.lowHash = "right" /\ g.highHash = Output(c)
    BY <1>2, <2>3, <2>5, BegunGame
  <2>7. g \in Game /\ GoodGame(g, facts)
    BY <1>2, <2>3, <2>5, BegunGood
  <2>8. Output(c) = "right" => NeverWrong(g)
    BY <1>2, <2>3, <2>5, BegunTurns
  <2>9. HonestWins(g, facts)
    BY <1>2, <2>4, <2>6, <2>8 DEF HonestWins, Output, Brackets
  <2> HIDE DEF g
  <2>10. /\ GamesGo(games') /\ Len(games') = id /\ games'[id] = g
         /\ id \in DOMAIN games'
         /\ \A s \in DOMAIN gs : games'[s] = gs[s]
    BY <1>4, <2>7, MoreGames
  <2>11. id \in Nat
    BY StateFacts
  <2> HIDE DEF id
  <2>12. /\ k \in ScryptClaim /\ SameQueue(k, claim)
         /\ k.bondedDeposits = claim.bondedDeposits /\ k.decided = claim.decided
         /\ k.currentChallenger = i /\ k.sessions[next] = id
    BY <2>3, <2>11, SetBegins DEF i
  <2> HIDE DEF k
  <2>13. LastSession(k) = id
    BY <2>12 DEF LastSession, SameQueue, next
  <2>14. Waits(k, games', facts)
    BY <1>1, <2>2, <2>6, <2>9, <2>10, <2>12, <2>13 DEF Waits, SameQueue
  <2>15. GoodClaim(c, k, facts)
    BY <2>12 DEF GoodClaim, SameQueue
  <2>16. /\ sessionsClaimId' \in Seq(ClaimIds)
         /\ Len(sessionsClaimId') = Len(games')
    BY <1>4, <2>10, StateFacts, AppendProperties DEF id
  <2> QED
    BY <1>4, <2>10, <2>12, <2>14, <2>15, <2>16
<1>5. CASE /\ claims' = [claims EXCEPT ![c] = claim]
           /\ games' = gs /\ sessionsClaimId' = sessionsClaimId
  <2>1. Waits(claim, games', facts)
    BY <1>1 DEF Waits
  <2> QED
    BY <1>5, <2>1, StateFacts
<1> QED
  BY <1>3, <1>4, <1>5

\* A claim whose bonds change so that no more is owed, with the game it waits for.
LEMMA KeptWaiting ==
  ASSUME IInv, NEW c \in ClaimIds, NEW k \in ScryptClaim,
         claims' = [claims EXCEPT ![c] = k],
         GoodClaim(c, k, facts), Waits(k, games', facts),
         GamesGo(games'), sessionsClaimId' \in Seq(ClaimIds),
         Len(sessionsClaimId') = Len(games'),
         Total(deposits, k.bondedDeposits) <= Total(deposits, claims[c].bondedDeposits),
         UNCHANGED <<deposits, balance, openFor, proposal, facts>>
  PROVE  IInv'
<1>1. /\ 0 \in Int /\ balance' = balance + 0 /\ balance' \in Nat
      /\ deposits' \in Amount
      /\ openFor' \in [ClaimIds -> 0 .. defaultChallengeTimeout + 1]
      /\ proposal' \in [ClaimIds -> {"requested", "pending", "verified", "failed"}]
  BY StateFacts
<1>2. Total(deposits', k.bondedDeposits) <=
        Total(deposits, claims[c].bondedDeposits) + 0
  <2>1. Total(deposits, claims[c].bondedDeposits) \in Nat
    BY StateFacts, ClaimFacts, TotalType
  <2> QED
    BY <2>1
<1> QED
  BY <1>1, <1>2, KeptClaim

\* runNextVerificationGame, called by anyone.
LEMMA RunNextVerificationGameStep ==
  ASSUME IInv, NEW c \in ClaimIds, RunNextVerificationGame(c)
  PROVE  Kept
<1>1. /\ claims[c].claimant # NoAccount /\ RunNext(c, claims[c], games)
      /\ UNCHANGED <<deposits, balance, openFor, proposal, facts>>
  BY DEF RunNextVerificationGame, claimExists
<1>2. PICK k \in ScryptClaim :
        /\ claims' = [claims EXCEPT ![c] = k]
        /\ GoodClaim(c, k, facts) /\ Waits(k, games', facts)
        /\ k.bondedDeposits = claims[c].bondedDeposits
        /\ GamesGo(games') /\ sessionsClaimId' \in Seq(ClaimIds)
        /\ Len(sessionsClaimId') = Len(games')
  BY <1>1, ClaimFacts, SameGames, RunNextMakes
<1>3. Total(deposits, k.bondedDeposits) <= Total(deposits, claims[c].bondedDeposits)
  BY <1>2, StateFacts, ClaimFacts, TotalType
<1>4. IInv'
  BY <1>1, <1>2, <1>3, KeptWaiting
<1>5. HonestStep
  <2>1. \A a \in Accounts : claims[c].bondedDeposits[a] > 0 => k.bondedDeposits[a] # 0
    BY <1>2, ClaimFacts DEF Amount
  <2> QED
    BY <1>2, <2>1, Unforfeited
<1> QED
  BY <1>4, <1>5 DEF Kept

\* sessionDecided: the invariant stays, the game that called it is over, and none
\* but the loser is left without a bond.
LEMMA SessionDecidedStep ==
  ASSUME IInv, NEW s \in DOMAIN games, NEW c \in ClaimIds,
         NEW w \in Accounts, NEW l \in Accounts, SessionDecided(s, c, w, l)
  PROVE  /\ IInv' /\ ~isLive(games'[s])
         /\ \E k \in ScryptClaim :
              /\ claims' = [claims EXCEPT ![c] = k]
              /\ \A a \in Accounts \ {l} :
                   claims[c].bondedDeposits[a] > 0 => k.bondedDeposits[a] # 0
<1> DEFINE b == claims[c].bondedDeposits
<1> DEFINE e == Won(b, w, l)
<1> DEFINE over == Over(claims[c], e)
<1>1. /\ claims[c].claimant # NoAccount /\ claims[c].verificationOngoing
      /\ \/ /\ claims' = [claims EXCEPT ![c] = Lost(over, Len(over.challengers))]
            /\ games' = Disabled(s)
            /\ sessionsClaimId' = sessionsClaimId
         \/ RunNext(c, over, Disabled(s))
      /\ UNCHANGED <<deposits, balance, openFor, proposal, facts>>
  <2>1. BondsAfter(b, w, l) = e
    BY DEF BondsAfter, Won
  <2>2. over = Settled(claims[c], w, l)
    BY <2>1 DEF Over, Settled
  <2> HIDE DEF e, over
  <2> QED
    BY <2>2 DEF SessionDecided, CanDecide, Lost, claimExists
<1>2. /\ claims[c] \in ScryptClaim /\ b \in Amount /\ deposits \in Amount
      /\ GoodClaim(c, claims[c], facts)
  BY StateFacts, ClaimFacts
<1>3. /\ e \in Amount
      /\ w # l => e[w] = b[w] + b[l]
      /\ \A a \in Accounts \ {w, l} : e[a] = b[a]
  <2> HIDE DEF b
  <2> QED
    BY <1>2, WonBonds
<1>4. Total(deposits, e) <= Total(deposits, b)
  <2> HIDE DEF b
  <2> QED
    BY <1>2, TotalWon
<1>5. /\ over \in ScryptClaim /\ SameQueue(over, claims[c])
      /\ over.bondedDeposits = e /\ ~over.verificationOngoing
  <2>1. e \in [Accounts -> Nat]
    BY <1>3 DEF Amount
  <2> HIDE DEF e
  <2> QED
    BY <1>2, <2>1, SetOver
<1> HIDE DEF e, over
<1>6. GoodClaim(c, over, facts) /\ over.claimant # NoAccount
  BY <1>1, <1>2, <1>5 DEF GoodClaim, SameQueue
<1>7. /\ GamesGo(Disabled(s)) /\ Len(Disabled(s)) = Len(games)
      /\ ~isLive(Disabled(s)[s]) /\ s \in DOMAIN Disabled(s)
  BY DisabledGames DEF GamesGo
<1> DEFINE Made(k) ==
        /\ claims' = [claims EXCEPT ![c] = k]
        /\ GoodClaim(c, k, facts) /\ Waits(k, games', facts)
        /\ k.bondedDeposits = e
        /\ GamesGo(games') /\ sessionsClaimId' \in Seq(ClaimIds)
        /\ Len(sessionsClaimId') = Len(games')
        /\ games'[s] = Disabled(s)[s]
<1>8. \E k \in ScryptClaim : Made(k)
  <2>1. ASSUME claims' = [claims EXCEPT ![c] = Lost(over, Len(over.challengers))],
               games' = Disabled(s), sessionsClaimId' = sessionsClaimId
        PROVE  \E k \in ScryptClaim : Made(k)
    <3>1. Len(over.challengers) \in Nat
      BY <1>5, ClaimFields, LenProperties
    <3> DEFINE k == Lost(over, Len(over.challengers))
    <3>2. /\ k \in ScryptClaim /\ SameQueue(k, over)
          /\ k.bondedDeposits = over.bondedDeposits
          /\ k.verificationOngoing = over.verificationOngoing
      BY <1>5, <3>1, SetLost
    <3>3. claims' = [claims EXCEPT ![c] = k]
      BY <2>1
    <3> HIDE DEF k
    <3>4. GoodClaim(c, k, facts) /\ Waits(k, games', facts)
      BY <1>5, <1>6, <3>2 DEF GoodClaim, Waits, SameQueue
    <3> QED
      BY <1>5, <1>7, <2>1, <3>2, <3>3, <3>4, StateFacts
  <2>2. ASSUME RunNext(c, over, Disabled(s))
        PROVE  \E k \in ScryptClaim : Made(k)
    BY <1>5, <1>6, <1>7, <2>2, RunNextMakes
  <2> QED
    BY <1>1, <2>1, <2>2
<1>9. PICK k \in ScryptClaim : Made(k)
  BY <1>8
<1>10. IInv'
  BY <1>1, <1>4, <1>9, KeptWaiting
<1>11. ASSUME NEW a \in Accounts \ {l}, b[a] > 0
       PROVE  k.bondedDeposits[a] # 0
  <2>1. b[a] \in Nat /\ b[l] \in Nat
    BY <1>2 DEF Amount
  <2> QED
    BY <1>3, <1>9, <1>11, <2>1
<1> QED
  BY <1>7, <1>9, <1>10, <1>11

\* A game is decided against l, who is not honest or late in it.
LEMMA DecidedStep ==
  ASSUME IInv, NEW s \in DOMAIN games, isLive(games[s]), NEW c \in ClaimIds,
         NEW w \in Accounts, NEW l \in Accounts, SessionDecided(s, c, w, l),
         l \in facts.honest =>
           \E p \in Sides : Player(games[s], p) = l /\ IsOverdue(games[s], p)
  PROVE  Kept
<1>1. IInv' /\ ~isLive(games'[s])
  BY SessionDecidedStep
<1>2. PICK k \in ScryptClaim :
        /\ claims' = [claims EXCEPT ![c] = k]
        /\ \A a \in Accounts \ {l} :
             claims[c].bondedDeposits[a] > 0 => k.bondedDeposits[a] # 0
  BY SessionDecidedStep
<1>3. ASSUME NEW d \in ClaimIds, NEW a \in facts.honest, Forfeits(d, a)
      PROVE  EndsLate(s, a)
  <2>1. a \in Accounts /\ claims \in [ClaimIds -> ScryptClaim]
    BY StateFacts
  <2>2. claims'[c] = k /\ (d # c => claims'[d] = claims[d])
    BY <1>2, <2>1
  <2>3. d = c
    BY <1>3, <2>1, <2>2 DEF Forfeits
  <2>4. a = l
    BY <1>2, <1>3, <2>1, <2>2, <2>3 DEF Forfeits
  <2> QED
    BY <1>1, <1>3, <2>4 DEF EndsLate
<1>4. HonestStep
  BY <1>3 DEF HonestStep
<1> QED
  BY <1>1, <1>4 DEF Kept

\* The parties of a game that is live.
LEMMA PartyFacts ==
  ASSUME IInv, NEW s \in DOMAIN games, isLive(games[s])
  PROVE  /\ games[s].claimant \in Accounts /\ games[s].challenger \in Accounts
         /\ \A p \in Sides : Player(games[s], p) \in Accounts /\ Opponent(p) \in Sides
<1>1. games[s].claimant \in Accounts /\ games[s].challenger \in Accounts
  BY GameFacts, GameFields DEF GoodGame, isLive
<1> QED
  BY <1>1 DEF Player, Sides, Opponent

\* performStepVerification: an honest claimant proves the step, and an honest
\* challenger has led to one that cannot be proved.
LEMMA PerformStepVerificationStep ==
  ASSUME IInv, NEW s \in DOMAIN games, NEW verified \in BOOLEAN,
         PerformStepVerification(s, verified)
  PROVE  Kept
<1> DEFINE p == Loser(verified)
<1> DEFINE l == Player(games[s], p)
<1> DEFINE w == Player(games[s], Opponent(p))
<1>1. /\ isLive(games[s]) /\ CanPerform(games[s])
      /\ verified \in StepVerdicts(games[s])
      /\ games[s].claimant \in facts.honest => verified
      /\ \/ SessionDecided(s, sessionsClaimId[s], w, l)
         \/ DecidedElsewhere(s)
  BY DEF PerformStepVerification, MayPerform, Convicted, isHonest
<1>2. CASE DecidedElsewhere(s)
  BY <1>2, DecidedElsewhereStep
<1>3. CASE SessionDecided(s, sessionsClaimId[s], w, l)
  <2>1. sessionsClaimId[s] \in ClaimIds
    BY StateFacts, ElementOfSeq, LenProperties
  <2>2. p \in Sides
    BY DEF Loser, Sides
  <2>3. w \in Accounts /\ l \in Accounts
    BY <1>1, <2>2, PartyFacts
  <2>4. l \notin facts.honest
    <3> SUFFICES ASSUME l \in facts.honest PROVE FALSE
      OBVIOUS
    <3>1. CASE verified
      <4>1. l = games[s].challenger
        BY <3>1 DEF Loser, Player
      <4>2. /\ Begun(games[s]) /\ games[s].lowHash = "right"
            /\ games[s].medStep # 0 => games[s].highHash = "wrong"
        BY <1>1, <4>1, GameFacts DEF GoodGame
      <4>3. games[s].medStep # 0
        <5>1. steps \in Nat /\ steps > 2
          OBVIOUS
        <5> QED
          BY <1>1, <4>2, <5>1 DEF Begun, CanPerform
      <4> QED
        BY <1>1, <3>1, <4>2, <4>3 DEF StepVerdicts
    <3>2. CASE ~verified
      <4>1. l = games[s].claimant
        BY <3>2 DEF Loser, Player
      <4> QED
        BY <1>1, <3>2, <4>1
    <3> QED
      BY <3>1, <3>2
  <2> HIDE DEF w, l
  <2> QED
    BY <1>1, <1>3, <2>1, <2>3, <2>4, DecidedStep
<1> QED
  BY <1>1, <1>2, <1>3

\* timeout, for whatever claim.
LEMMA TimeoutStep ==
  ASSUME IInv, NEW s \in DOMAIN games, NEW c \in ClaimIds, Timeout(s, c)
  PROVE  Kept
<1>1. PICK p \in Sides :
        /\ isLive(games[s]) /\ IsOverdue(games[s], p)
        /\ SessionDecided(s, c, Player(games[s], Opponent(p)), Player(games[s], p))
  BY DEF Timeout, IsLate, Convicted
<1>2. Player(games[s], Opponent(p)) \in Accounts /\ Player(games[s], p) \in Accounts
  BY <1>1, PartyFacts
<1> QED
  BY <1>1, <1>2, DecidedStep

-----------------------------------------------------------------------------
(* The theorems.                                                           *)

\* Nothing is deposited, bonded or played in the initial state.
LEMMA InitHolds == Init => IInv
<1> SUFFICES ASSUME Init
             PROVE  IInv
  OBVIOUS
<1>1. /\ claims = [c \in ClaimIds |-> NoClaim] /\ games = <<>>
      /\ sessionsClaimId = <<>>
      /\ deposits = [a \in Accounts |-> 0] /\ balance = 0
      /\ openFor = [c \in ClaimIds |-> 0]
      /\ proposal = [c \in ClaimIds |-> "requested"] /\ facts \in Facts
  BY DEF Init
<1>2. /\ NoClaim \in ScryptClaim /\ NoClaim.challengers = <<>>
      /\ NoClaim.claimant = NoAccount /\ ~NoClaim.verificationOngoing
      /\ NoClaim.bondedDeposits = [a \in Accounts |-> 0]
  BY NoClaimType
<1>3. TypeOK
  <2>1. deposits \in [Accounts -> Nat]
    BY <1>1
  <2>2. 0 \in 0 .. defaultChallengeTimeout + 1 /\ 0 \in Nat
    OBVIOUS
  <2> QED
    BY <1>1, <1>2, <2>1, <2>2 DEF TypeOK
<1>4. \A c \in ClaimIds :
        GoodClaim(c, claims[c], facts) /\ Waits(claims[c], games, facts)
  BY <1>1, <1>2 DEF GoodClaim, Waits
<1>5. \A s \in DOMAIN games : GoodGame(games[s], facts)
  BY <1>1
<1>6. Owed = 0
  <2>1. SumFunctionOnSet(deposits, Accounts) = 0
    BY <1>1, SumZero
  <2> DEFINE f == [c \in ClaimIds |-> Bonded(claims[c])]
  <2>2. \A c \in ClaimIds : f[c] = 0
    <3>1. Bonded(NoClaim) = 0
      BY <1>2, SumZero DEF Bonded
    <3> QED
      BY <1>1, <3>1
  <2>3. SumFunctionOnSet(f, ClaimIds) = 0
    <3> HIDE DEF f
    <3> QED
      BY <2>2, SumZero
  <2> QED
    BY <2>1, <2>3 DEF Owed
<1> QED
  BY <1>1, <1>3, <1>4, <1>5, <1>6 DEF IInv

\* Each action keeps the invariant and the bonds of who is honest.
LEMMA NextHolds == IInv /\ Next => Kept
<1> SUFFICES ASSUME IInv, Next
             PROVE  Kept
  OBVIOUS
<1>1. CASE OfAccount
  BY <1>1, MakeDepositStep, WithdrawDepositStep DEF OfAccount
<1>2. CASE OfClaim
  <2>1. PICK c \in ClaimIds :
          \/ \E n \in Amounts \cup {0} : CheckScrypt(c, n)
          \/ \E a \in Accounts : ChallengeClaim(c, a)
          \/ \E a, b \in Accounts, output \in {"right", "wrong"} :
               BeginGame(c, a, b, output)
          \/ RunNextVerificationGame(c)
          \/ CheckClaimSuccessful(c)
          \/ \E a \in Accounts : UnbondDeposit(c, a)
    BY <1>2 DEF OfClaim
  <2>2. ASSUME NEW n \in Amounts \cup {0}, CheckScrypt(c, n)
        PROVE  Kept
    BY <2>2, CheckScryptStep
  <2>3. ASSUME NEW a \in Accounts, ChallengeClaim(c, a)
        PROVE  Kept
    BY <2>3, ChallengeClaimStep
  <2>4. ASSUME NEW a \in Accounts, NEW b \in Accounts, NEW output \in {"right", "wrong"},
               BeginGame(c, a, b, output)
        PROVE  Kept
    BY <2>4, BeginGameStep
  <2>5. CASE RunNextVerificationGame(c)
    BY <2>5, RunNextVerificationGameStep
  <2>6. CASE CheckClaimSuccessful(c)
    BY <2>6, CheckClaimSuccessfulStep
  <2>7. ASSUME NEW a \in Accounts, UnbondDeposit(c, a)
        PROVE  Kept
    BY <2>7, UnbondDepositStep
  <2> QED
    BY <2>1, <2>2, <2>3, <2>4, <2>5, <2>6, <2>7
<1>3. CASE OfGame
  <2>1. PICK s \in DOMAIN games :
          \/ \E step \in 0 .. steps : Query(s, step)
          \/ \E hash \in {"right", "wrong"} : Respond(s, hash)
          \/ \E verified \in BOOLEAN : PerformStepVerification(s, verified)
          \/ \E c \in ClaimIds : Timeout(s, c)
          \/ TimeoutElsewhere(s)
    BY <1>3 DEF OfGame
  <2>2. ASSUME NEW step \in 0 .. steps, Query(s, step)
        PROVE  Kept
    BY <2>2, QueryStep
  <2>3. ASSUME NEW hash \in {"right", "wrong"}, Respond(s, hash)
        PROVE  Kept
    BY <2>3, RespondStep
  <2>4. ASSUME NEW verified \in BOOLEAN, PerformStepVerification(s, verified)
        PROVE  Kept
    BY <2>4, PerformStepVerificationStep
  <2>5. ASSUME NEW c \in ClaimIds, Timeout(s, c)
        PROVE  Kept
    BY <2>5, TimeoutStep
  <2>6. CASE TimeoutElsewhere(s)
    BY <2>6, DecidedElsewhereStep DEF TimeoutElsewhere
  <2> QED
    BY <2>1, <2>2, <2>3, <2>4, <2>5, <2>6
<1>4. CASE Tick
  BY <1>4, TickStep
<1> QED
  BY <1>1, <1>2, <1>3, <1>4 DEF Next

\* A step that changes nothing does neither.
LEMMA StutterHolds == IInv /\ UNCHANGED vars => Kept
<1> SUFFICES ASSUME IInv, UNCHANGED vars
             PROVE  Kept
  OBVIOUS
<1>1. UNCHANGED <<claims, games, sessionsClaimId, deposits, balance, openFor, proposal,
                  facts>>
  BY DEF vars
<1>2. GamesGo(games') /\ Len(sessionsClaimId') = Len(games')
  BY <1>1, SameGames, StateFacts
<1> QED
  BY <1>1, <1>2, StateFacts, KeptGames

\* A claim is its submitter's and no honest account queues against a right hash;
\* a game that is live can be played on, whoever began it; a claim that waits
\* waits for a game of its own submitter in which who is honest has the better
\* of it, if that game is live; and what is owed is there.
THEOREM Invariance == Spec => []IInv
<1>1. Init => IInv
  BY InitHolds
<1>2. IInv /\ [Next]_vars => IInv'
  BY NextHolds, StutterHolds DEF Kept
<1> QED
  BY <1>1, <1>2, PTL DEF Spec

\* Whatever is deposited, bonded, won, lost, released and withdrawn, by however
\* many accounts in however many claims, and whatever games decide them: no
\* deposit and no bond goes below zero, and the contract holds the sum of them.
THEOREM SolventHolds == Spec => []Solvent
<1>1. IInv => Solvent
  BY DEF IInv, Solvent
<1> QED
  BY <1>1, Invariance, PTL

\* For any number of claims, games, steps and any timeout: an honest account has
\* a bond taken only in a step that ends a game of its own in which its answer
\* is overdue, never for what the bisection finds, whoever began the game and
\* whatever claim and contract its end is reported to.
THEOREM HonestKeepsBondHolds == Spec => HonestKeepsBond
<1>1. IInv /\ [Next]_vars => [HonestStep]_vars
  BY NextHolds DEF Kept
<1>2. Spec => [][HonestStep]_vars
  BY <1>1, Invariance, PTL DEF Spec
<1> QED
  BY <1>2 DEF HonestKeepsBond, HonestStep

-----------------------------------------------------------------------------
(* A game goes on.                                                         *)

\* The claim takes the result of the game it waits for, whoever wins.
LEMMA BothCanBeConvicted ==
  ASSUME IInv, NEW c \in ClaimIds, IsAwaited(c)
  PROVE  /\ Awaited(c) \in DOMAIN games /\ isLive(games[Awaited(c)])
         /\ HonestWins(games[Awaited(c)], facts)
         /\ \A p \in Sides : CanConvict(Awaited(c), p, c)
<1>1. Awaited(c) = LastSession(claims[c])
  BY DEF Awaited, LastSession
<1>2. /\ claims[c].verificationOngoing /\ ~claims[c].decided
      /\ isLive(games[Awaited(c)]) /\ Awaited(c) \in DOMAIN games
      /\ games[Awaited(c)].claimant = claims[c].claimant
      /\ HonestWins(games[Awaited(c)], facts)
  BY <1>1, ClaimFacts DEF IsAwaited, Waits
<1>3. claimExists(c) /\ claims[c] \in ScryptClaim
  BY <1>2, ClaimFacts DEF claimExists, isLive
<1>4. \A w, l \in Accounts : CanRunNext(Settled(claims[c], w, l))
  <2> SUFFICES ASSUME NEW w \in Accounts, NEW l \in Accounts
               PROVE  CanRunNext(Settled(claims[c], w, l))
    OBVIOUS
  <2> DEFINE x == BondsAfter(claims[c].bondedDeposits, w, l)
  <2>1. Settled(claims[c], w, l) =
          [claims[c] EXCEPT !.verificationOngoing = FALSE, !.bondedDeposits = x]
    BY DEF Settled
  <2> HIDE DEF x
  <2> QED
    BY <1>2, <1>3, <2>1 DEF CanRunNext, ScryptClaim
<1>5. games[Awaited(c)].challenger \in Accounts /\ games[Awaited(c)].claimant \in Accounts
  BY <1>2, PartyFacts
<1>6. \A p \in Sides : CanConvict(Awaited(c), p, c)
  BY <1>2, <1>3, <1>4, <1>5 DEF CanConvict, CanDecide, Player, Opponent, Sides
<1> QED
  BY <1>2, <1>6

\* A challenger who is due can ask, and one who is honest below a wrong hash or
\* above a right one.
LEMMA CanAsk ==
  ASSUME NEW game \in Game, isLive(game), Shape(game), Turns(game),
         isHonest(game.challenger) => Brackets(game), IsDue(game, "challenger")
  PROVE  \E step \in 0 .. steps : MayQuery(game, step)
<1>1. ~CanRespond(game) /\ ~CanPerform(game)
  BY DEF Turns
<1>2. /\ game.lowStep \in Nat /\ game.medStep \in 0 .. steps
      /\ game.highStep \in 0 .. steps /\ game.medStep \in Nat /\ game.highStep \in Nat
      /\ game.medHash # "none" /\ steps \in Nat /\ steps > 2
  BY <1>1, GameFields DEF CanRespond
<1> DEFINE turns(step) ==
      game.medStep # 0 =>
        IF game.medHash = "right" THEN step >= game.medStep ELSE step < game.medStep
<1>3. \A step \in 0 .. steps :
        CanQuery(game, step) /\ turns(step) => MayQuery(game, step)
  BY DEF MayQuery, Sensible, Brackets
<1>4. CASE game.medStep = 0
  <2>1. Within(game, 1) /\ turns(1) /\ 1 \in 0 .. steps
    BY <1>2, <1>4 DEF Shape, Within
  <2> QED
    BY <1>2, <1>3, <2>1 DEF CanQuery
<1>5. CASE game.medStep # 0 /\ game.medHash = "right"
  <2>1. game.medStep < game.highStep
    BY <1>1, <1>5 DEF Shape
  <2>2. CASE game.medStep + 1 = game.highStep
    <3>1. QueriesHighEnd(game, game.medStep) /\ turns(game.medStep)
      BY <1>2, <1>5, <2>2 DEF QueriesHighEnd
    <3> QED
      BY <1>2, <1>3, <3>1 DEF CanQuery
  <2>3. CASE game.medStep + 1 # game.highStep
    <3> DEFINE s == game.medStep + 1
    <3>1. s \in 0 .. steps /\ Within(game, s) /\ turns(s)
      BY <1>1, <1>2, <1>5, <2>1, <2>3 DEF Shape, Within
    <3> QED
      BY <1>2, <1>3, <3>1 DEF CanQuery
  <2> QED
    BY <2>2, <2>3
<1>6. CASE game.medStep # 0 /\ game.medHash # "right"
  <2>1. game.lowStep < game.medStep
    BY <1>1, <1>6 DEF Shape
  <2>2. CASE game.lowStep + 1 = game.medStep
    <3>1. /\ QueriesLowEnd(game, game.lowStep) /\ turns(game.lowStep)
          /\ game.lowStep \in 0 .. steps
      BY <1>2, <1>6, <2>1, <2>2 DEF QueriesLowEnd
    <3> QED
      BY <1>2, <1>3, <3>1 DEF CanQuery
  <2>3. CASE game.lowStep + 1 # game.medStep
    <3> DEFINE s == game.lowStep + 1
    <3>1. s \in 0 .. steps /\ Within(game, s) /\ turns(s)
      BY <1>1, <1>2, <1>6, <2>1, <2>3 DEF Shape, Within
    <3> QED
      BY <1>2, <1>3, <3>1 DEF CanQuery
  <2> QED
    BY <2>2, <2>3
<1> QED
  BY <1>4, <1>5, <1>6

\* A claimant who is due can answer, or perform the step that is left; an honest
\* one, who ends with no wrong hash, can prove it.
LEMMA CanAnswer ==
  ASSUME NEW game, isLive(game), Turns(game),
         isHonest(game.claimant) => NeverWrong(game), IsDue(game, "claimant")
  PROVE  \/ \E hash \in {"right", "wrong"} : MayRespond(game, hash)
         \/ \E verified \in BOOLEAN : MayPerform(game, verified)
<1>1. CanRespond(game) \/ CanPerform(game)
  BY DEF Turns
<1>2. CASE CanRespond(game)
  BY <1>2 DEF MayRespond
<1>3. CASE CanPerform(game) /\ isHonest(game.claimant)
  <2>1. TRUE \in StepVerdicts(game)
    BY <1>3 DEF StepVerdicts, NeverWrong
  <2> QED
    BY <1>3, <2>1 DEF MayPerform
<1>4. CASE CanPerform(game) /\ ~isHonest(game.claimant)
  <2>1. FALSE \in StepVerdicts(game)
    BY DEF StepVerdicts
  <2> QED
    BY <1>4, <2>1 DEF MayPerform
<1> QED
  BY <1>1, <1>2, <1>3, <1>4

\* For any number of claims, games and steps and any timeout: while the game that
\* a claim waits for is live, the party that is due in it has a message to send
\* that is accepted, an honest one a message it stands by, and a party that is
\* late can be convicted, by ScryptClaims as well.
THEOREM NoImpasseHolds == Spec => []NoImpasse
<1>1. IInv => NoImpasse
  <2> SUFFICES ASSUME IInv, NEW c \in ClaimIds, IsAwaited(c),
                      NEW game, game = games[Awaited(c)]
               PROVE  /\ IsDue(game, "claimant") =>
                           \/ \E hash \in {"right", "wrong"} : MayRespond(game, hash)
                           \/ \E verified \in BOOLEAN :
                                MayPerform(game, verified)
                                  /\ CanConvict(Awaited(c), Loser(verified), c)
                      /\ IsDue(game, "challenger") =>
                           \E step \in 0 .. steps : MayQuery(game, step)
                      /\ \A p \in Sides :
                           IsOverdue(game, p) => CanConvict(Awaited(c), p, c)
    BY DEF NoImpasse
  <2>1. /\ isLive(game) /\ HonestWins(game, facts)
        /\ game \in Game /\ GoodGame(game, facts)
        /\ \A p \in Sides : CanConvict(Awaited(c), p, c)
    BY BothCanBeConvicted, GameFacts
  <2>2. /\ Shape(game) /\ Turns(game)
        /\ isHonest(game.challenger) => Brackets(game)
        /\ isHonest(game.claimant) => NeverWrong(game)
    BY <2>1 DEF GoodGame, HonestWins, isHonest
  <2>3. \A verified \in BOOLEAN : CanConvict(Awaited(c), Loser(verified), c)
    BY <2>1 DEF Loser, Sides
  <2> QED
    BY <2>1, <2>2, <2>3, CanAnswer, CanAsk
<1> QED
  BY <1>1, Invariance, PTL
=============================================================================
