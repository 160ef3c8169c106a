----------------------------- MODULE ScryptClaims -----------------------------
(***************************************************************************)
(* contracts/scrypt-interactive/ScryptClaims.sol with DepositsManager.sol: *)
(* the claims that scrypt hashes are right, the queues of their            *)
(* challengers, and the games of ScryptVerifier (module Verifier).  Each   *)
(* action is one transaction that does not revert.                         *)
(*                                                                         *)
(* A claim is that of a hash which a battle of DogeBattleManager has asked *)
(* a submitter for.  Claims share the deposits and the games: anyone may   *)
(* begin a game between any two accounts about any claim, and whoever ends *)
(* a game says which contract is to decide with it, and for a timeout      *)
(* which claim as well, whatever the game was begun for.  Another contract *)
(* may do in its turn what is an action here; the game is deleted by the   *)
(* first sessionDecided that returns, so it decides one claim at most.     *)
(***************************************************************************)
EXTENDS Integers, Sequences, FiniteSets, Functions

CONSTANTS
  Accounts, NoAccount,      \* addresses; the address 0
  ClaimIds,
  minDeposit,               \* 1 in the contract
  defaultChallengeTimeout,  \* in blocks
  responseTime,
  steps,                    \* of the computation, 2050 in the contract
  Amounts,                  \* amounts deposited and withdrawn
  MaxBalance,               \* bound on the ether of the contract
  MaxChallenges,            \* bound on the queue of a claim
  MaxBegun                  \* others begin a game while there are fewer

ASSUME AccountsAssumption ==
  NoAccount \notin Accounts /\ IsFiniteSet(Accounts) /\ IsFiniteSet(ClaimIds)
ASSUME NumbersAssumption ==
  /\ {minDeposit, defaultChallengeTimeout, responseTime} \subseteq Nat
  /\ steps \in Nat /\ steps > 2
  /\ Amounts \subseteq Nat

VARIABLES
  claims,           \* claim id -> ScryptClaim; zeros until it is made
  games,            \* the sessions, at their ids; zeros when they are over
  sessionsClaimId,  \* session id -> the claim it was begun for
  deposits,         \* account -> free deposit
  balance,          \* ether held by the contract
  openFor,          \* claim id -> blocks until its timeouts are exceeded
  proposal,         \* claim id -> how far the battle has got with the hash
  facts             \* fixed: whose the claims are, which hashes are right,
                    \* and who is honest

vars == <<claims, games, sessionsClaimId, deposits, balance, openFor, proposal,
          facts>>

INSTANCE Verifier WITH Players <- Accounts, NoPlayer <- NoAccount

\* Queued accounts map to the id of their last session, 0 if none.
ScryptClaim ==
  [claimant : Accounts \cup {NoAccount}, challengers : Seq(Accounts),
   sessions : [Accounts -> Nat], currentChallenger : Nat,
   verificationOngoing : BOOLEAN, bondedDeposits : [Accounts -> Nat],
   decided : BOOLEAN, invalid : BOOLEAN]

NoClaim ==
  [claimant |-> NoAccount, challengers |-> <<>>,
   sessions |-> [a \in Accounts |-> 0], currentChallenger |-> 0,
   verificationOngoing |-> FALSE, bondedDeposits |-> [a \in Accounts |-> 0],
   decided |-> FALSE, invalid |-> FALSE]

claimExists(c) == claims[c].claimant # NoAccount

\* An honest submitter has the right hash.
Facts ==
  {f \in [submitter : [ClaimIds -> Accounts], right : [ClaimIds -> BOOLEAN],
          honest : SUBSET Accounts] :
     \A c \in ClaimIds : f.submitter[c] \in f.honest => f.right[c]}

isHonest(a) == a \in facts.honest
Output(c) == IF facts.right[c] THEN "right" ELSE "wrong"

Init ==
  /\ claims = [c \in ClaimIds |-> NoClaim]
  /\ games = <<>>
  /\ sessionsClaimId = <<>>
  /\ deposits = [a \in Accounts |-> 0]
  /\ balance = 0
  /\ openFor = [c \in ClaimIds |-> 0]
  /\ proposal = [c \in ClaimIds |-> "requested"]
  /\ facts \in Facts

-----------------------------------------------------------------------------
(* Deposits.                                                               *)

MakeDeposit(a, amount) ==
  /\ balance + amount <= MaxBalance
  /\ deposits' = [deposits EXCEPT ![a] = @ + amount]
  /\ balance' = balance + amount
  /\ deposits'[a] <= balance'
  /\ UNCHANGED <<claims, games, sessionsClaimId, openFor, proposal, facts>>

WithdrawDeposit(a, amount) ==
  /\ deposits[a] >= amount
  /\ balance >= amount
  /\ deposits' = [deposits EXCEPT ![a] = @ - amount]
  /\ balance' = balance - amount
  /\ UNCHANGED <<claims, games, sessionsClaimId, openFor, proposal, facts>>

\* Mutant: the deposit is not looked at.
BondDepositUnchecked(a, available) ==
  deposits' = [available EXCEPT ![a] = @ - minDeposit]

\* bondDeposit of minDeposit, out of the deposits available.
BondDeposit(a, available) ==
  /\ available[a] >= minDeposit
  /\ deposits' = [available EXCEPT ![a] = @ - minDeposit]

Bond(claim, a) == [claim EXCEPT !.bondedDeposits[a] = @ + minDeposit]

-----------------------------------------------------------------------------
(* Claims and games.                                                       *)

\* The claim, made with ether for the deposit or without; the battle session
\* is told of it and refuses it of anyone but its submitter.
CheckScrypt(c, value) ==
  LET submitter == facts.submitter[c]
  IN  /\ ~claimExists(c)
      /\ proposal[c] = "requested"
      /\ balance + value <= MaxBalance
      /\ BondDeposit(submitter, [deposits EXCEPT ![submitter] = @ + value])
      /\ balance' = balance + value
      /\ claims' = [claims EXCEPT ![c] =
                      Bond([NoClaim EXCEPT !.claimant = submitter], submitter)]
      /\ openFor' = [openFor EXCEPT ![c] = defaultChallengeTimeout + 1]
      /\ proposal' = [proposal EXCEPT ![c] = "pending"]
      /\ UNCHANGED <<games, sessionsClaimId, facts>>

\* The same account may queue again until its first game is begun; a claim that
\* was found invalid is still open to challenges.
ChallengeClaim(c, a) ==
  /\ claimExists(c)
  /\ ~claims[c].decided
  /\ claims[c].sessions[a] = 0
  /\ Len(claims[c].challengers) < MaxChallenges
  /\ isHonest(a) => ~facts.right[c]
  /\ BondDeposit(a, deposits)
  /\ claims' = [claims EXCEPT ![c] =
                  [Bond(claims[c], a) EXCEPT !.challengers = Append(@, a)]]
  /\ openFor' = [openFor EXCEPT ![c] = defaultChallengeTimeout + 1]
  /\ UNCHANGED <<games, sessionsClaimId, balance, proposal, facts>>

\* claimComputation of the verifier is public, and takes the claim, the parties,
\* the input and the output from its caller.
BeginGame(c, challenger, claimant, output) ==
  /\ Len(games) < MaxBegun
  /\ games' = Append(games, claimComputation(claimant, challenger, output))
  /\ sessionsClaimId' = Append(sessionsClaimId, c)
  /\ UNCHANGED <<claims, deposits, balance, openFor, proposal, facts>>

\* runNextVerificationGame, of a claim and games as its caller has left them.
CanRunNext(claim) == ~claim.decided /\ ~claim.verificationOngoing

RunNext(c, claim, sessions) ==
  LET i == claim.currentChallenger + 1
      next == claim.challengers[i]
  IN  /\ CanRunNext(claim)
      /\ \/ /\ i <= Len(claim.challengers)
            /\ claims' = [claims EXCEPT ![c] =
                 [claim EXCEPT !.sessions[next] = Len(sessions) + 1,
                               !.verificationOngoing = TRUE,
                               !.currentChallenger = i]]
            /\ games' = Append(sessions,
                               claimComputation(claim.claimant, next, Output(c)))
            /\ sessionsClaimId' = Append(sessionsClaimId, c)
         \/ /\ i > Len(claim.challengers)
            /\ claims' = [claims EXCEPT ![c] = claim]
            /\ games' = sessions
            /\ UNCHANGED sessionsClaimId

RunNextVerificationGame(c) ==
  /\ claimExists(c)
  /\ RunNext(c, claims[c], games)
  /\ UNCHANGED <<deposits, balance, openFor, proposal, facts>>

\* Mutant: the loser keeps its bond.
BondsAfterKept(bonds, winner, loser) == [bonds EXCEPT ![winner] = @ + bonds[loser]]

\* The winner gets the bond of the loser, which a winner of itself loses.
BondsAfter(bonds, winner, loser) ==
  [bonds EXCEPT ![winner] = @ + bonds[loser], ![loser] = 0]

\* Mutant: the claim waits on.
SettledOngoing(claim, winner, loser) ==
  [claim EXCEPT !.bondedDeposits = BondsAfter(@, winner, loser)]

\* A claim when a game has decided it.
Settled(claim, winner, loser) ==
  [claim EXCEPT !.verificationOngoing = FALSE,
                !.bondedDeposits = BondsAfter(@, winner, loser)]

CanDecide(c, winner, loser) ==
  /\ claimExists(c)
  /\ claims[c].verificationOngoing
  /\ \/ claims[c].claimant = loser
     \/ /\ claims[c].claimant = winner
        /\ CanRunNext(Settled(claims[c], winner, loser))

Disabled(s) == [games EXCEPT ![s] = NoGame]

\* sessionDecided of a claim that waits for some game, and the end of game s,
\* which called it.
SessionDecided(s, c, winner, loser) ==
  LET claim == Settled(claims[c], winner, loser)
  IN  /\ CanDecide(c, winner, loser)
      /\ \/ /\ claims[c].claimant = loser
            /\ claims' = [claims EXCEPT ![c] =
                 [claim EXCEPT !.invalid = TRUE,
                               !.currentChallenger = Len(claim.challengers)]]
            /\ games' = Disabled(s)
            /\ UNCHANGED sessionsClaimId
         \/ /\ claims[c].claimant # loser
            /\ RunNext(c, claim, Disabled(s))
      /\ UNCHANGED <<deposits, balance, openFor, proposal, facts>>

\* sessionDecided of another contract: the game ends and nobody here is told.
DecidedElsewhere(s) ==
  /\ games' = Disabled(s)
  /\ UNCHANGED <<claims, sessionsClaimId, deposits, balance, openFor, proposal,
                 facts>>

-----------------------------------------------------------------------------
(* Messages of a game.                                                     *)

Spoken(s, game, p) ==
  /\ games' = [games EXCEPT ![s] = Spoke(game, p)]
  /\ UNCHANGED <<claims, sessionsClaimId, deposits, balance, openFor, proposal,
                 facts>>

\* Someone who knows the computation asks nothing of a right output, and turns
\* below a wrong hash and above a right one; the rules of the game let a
\* challenger ask for any step.
Sensible(game, step) ==
  /\ game.highHash = "wrong"
  /\ game.medStep # 0 =>
       IF game.medHash = "right" THEN step >= game.medStep ELSE step < game.medStep

MayQuery(game, step) ==
  /\ isLive(game)
  /\ CanQuery(game, step)
  /\ isHonest(game.challenger) => Sensible(game, step)

Query(s, step) ==
  /\ MayQuery(games[s], step)
  /\ Spoken(s, Queried(games[s], step), "challenger")

MayRespond(game, hash) ==
  /\ isLive(game)
  /\ CanRespond(game)
  /\ isHonest(game.claimant) => hash = "right"

Respond(s, hash) ==
  /\ MayRespond(games[s], hash)
  /\ Spoken(s, Responded(games[s], hash), "claimant")

Player(game, p) == IF p = "claimant" THEN game.claimant ELSE game.challenger

\* Mutant: the verdict is taken the other way round.
LoserSwapped(verified) == IF verified THEN "claimant" ELSE "challenger"

Loser(verified) == IF verified THEN "challenger" ELSE "claimant"

\* An honest claimant has the states and the proof.
MayPerform(game, verified) ==
  /\ isLive(game)
  /\ CanPerform(game)
  /\ verified \in StepVerdicts(game)
  /\ isHonest(game.claimant) => verified

\* The game of s ends against p, before claim c.
CanConvict(s, p, c) ==
  CanDecide(c, Player(games[s], Opponent(p)), Player(games[s], p))
Convicted(s, p, c) ==
  SessionDecided(s, c, Player(games[s], Opponent(p)), Player(games[s], p))

\* The claim must be that of the session; the contract is the claimant's word.
PerformStepVerification(s, verified) ==
  /\ MayPerform(games[s], verified)
  /\ \/ Convicted(s, Loser(verified), sessionsClaimId[s])
     \/ DecidedElsewhere(s)

\* Mutant: who is due is taken for overdue.
IsLateAtOnce(game, p) == isLive(game) /\ IsDue(game, p)

IsLate(game, p) == isLive(game) /\ IsOverdue(game, p)

\* Anyone may call it, and names the claim and the contract.
Timeout(s, c) == \E p \in Sides : IsLate(games[s], p) /\ Convicted(s, p, c)

TimeoutElsewhere(s) ==
  /\ \E p \in Sides : IsLate(games[s], p)
  /\ DecidedElsewhere(s)

-----------------------------------------------------------------------------
(* The end of a claim.                                                     *)

Unbonded(claim, a) == [claim EXCEPT !.bondedDeposits[a] = 0]

\* checkClaimSuccessful.  The battle session takes one result; a second call
\* reverts in it.
CheckClaimSuccessful(c) ==
  LET claim == claims[c]
      decided == [claim EXCEPT !.decided = TRUE]
  IN  /\ claimExists(c)
      /\ ~claim.verificationOngoing
      /\ openFor[c] = 0
      /\ Len(claim.challengers) = claim.currentChallenger
      /\ proposal[c] = "pending"
      /\ \/ /\ claim.invalid
            /\ claims' = [claims EXCEPT ![c] = decided]
            /\ proposal' = [proposal EXCEPT ![c] = "failed"]
            /\ UNCHANGED deposits
         \/ /\ ~claim.invalid
            /\ claims' = [claims EXCEPT ![c] = Unbonded(decided, claim.claimant)]
            /\ deposits' = [deposits EXCEPT ![claim.claimant] =
                              @ + claim.bondedDeposits[claim.claimant]]
            /\ proposal' = [proposal EXCEPT ![c] = "verified"]
      /\ UNCHANGED <<games, sessionsClaimId, balance, openFor, facts>>

\* Anyone may call it for anyone.
UnbondDeposit(c, a) ==
  /\ claimExists(c)
  /\ claims[c].decided
  /\ claims' = [claims EXCEPT ![c] = Unbonded(@, a)]
  /\ deposits' = [deposits EXCEPT ![a] = @ + claims[c].bondedDeposits[a]]
  /\ UNCHANGED <<games, sessionsClaimId, balance, openFor, proposal, facts>>

\* A block goes by.
Tick ==
  /\ \/ \E c \in ClaimIds : openFor[c] > 0
     \/ \E s \in DOMAIN games : CanAge(games[s])
  /\ openFor' = [c \in ClaimIds |-> IF openFor[c] > 0 THEN openFor[c] - 1 ELSE 0]
  /\ games' = [s \in DOMAIN games |-> Aged(games[s])]
  /\ UNCHANGED <<claims, sessionsClaimId, deposits, balance, proposal, facts>>

OfAccount ==
  \E a \in Accounts :
    \/ \E n \in Amounts : MakeDeposit(a, n)
    \/ \E n \in Amounts : WithdrawDeposit(a, n)

OfClaim ==
  \E c \in ClaimIds :
    \/ \E n \in Amounts \cup {0} : CheckScrypt(c, n)
    \/ \E a \in Accounts : ChallengeClaim(c, a)
    \/ \E a, b \in Accounts, output \in {"right", "wrong"} : BeginGame(c, a, b, output)
    \/ RunNextVerificationGame(c)
    \/ CheckClaimSuccessful(c)
    \/ \E a \in Accounts : UnbondDeposit(c, a)

OfGame ==
  \E s \in DOMAIN games :
    \/ \E step \in 0 .. steps : Query(s, step)
    \/ \E hash \in {"right", "wrong"} : Respond(s, hash)
    \/ \E verified \in BOOLEAN : PerformStepVerification(s, verified)
    \/ \E c \in ClaimIds : Timeout(s, c)
    \/ TimeoutElsewhere(s)

Next == OfAccount \/ OfClaim \/ OfGame \/ Tick

Spec == Init /\ [][Next]_vars

\* Blocks come, someone calls timeout for the claim the game was begun for, and
\* the claimant makes every move of its own that it can.  Nothing is assumed of
\* the challenger.
ProperTimeout == \E s \in DOMAIN games : Timeout(s, sessionsClaimId[s])
ClaimantMove ==
  \E s \in DOMAIN games :
    \/ \E hash \in {"right", "wrong"} : Respond(s, hash)
    \/ \E verified \in BOOLEAN : PerformStepVerification(s, verified)

FairSpec ==
  Spec /\ WF_vars(Tick) /\ WF_vars(ProperTimeout) /\ WF_vars(ClaimantMove)

-----------------------------------------------------------------------------
(* Properties                                                              *)

\* Every variable has its type, and every session its claim.
TypeOK ==
  /\ claims \in [ClaimIds -> ScryptClaim]
  /\ games \in Seq(Game)
  /\ sessionsClaimId \in Seq(ClaimIds)
  /\ Len(sessionsClaimId) = Len(games)
  /\ deposits \in [Accounts -> Nat]
  /\ balance \in Nat
  /\ openFor \in [ClaimIds -> 0 .. defaultChallengeTimeout + 1]
  /\ proposal \in [ClaimIds -> {"requested", "pending", "verified", "failed"}]
  /\ facts \in Facts

\* The bond of a is taken while claim c is undecided.
Forfeits(c, a) ==
  /\ claims[c].bondedDeposits[a] > 0
  /\ claims'[c].bondedDeposits[a] = 0
  /\ ~claims'[c].decided

\* Game s ends in this step, and a was late in it.
EndsLate(s, a) ==
  /\ \E p \in Sides : Player(games[s], p) = a /\ IsOverdue(games[s], p)
  /\ isLive(games[s]) /\ ~isLive(games'[s])

\* The bisection finds the step at which a wrong party is wrong: a claimant who
\* answers with the right hashes, and a challenger of a wrong hash who turns
\* below wrong hashes and above right ones, lose a bond only by being late in a
\* game of their own, whatever their opponents ask and answer.  It may be a
\* game that a stranger began in their name, or of another claim than the one
\* which takes the bond.
HonestKeepsBond ==
  [][\A c \in ClaimIds, a \in facts.honest :
       Forfeits(c, a) => \E s \in DOMAIN games : EndsLate(s, a)]_vars

\* The session that claim c waits for, when it says it waits for one.
Awaited(c) ==
  LET claim == claims[c]
  IN  claim.sessions[claim.challengers[claim.currentChallenger]]
IsAwaited(c) == claims[c].verificationOngoing /\ isLive(games[Awaited(c)])

\* As long as a claim waits for a game that is live, the game goes on: the party
\* whose turn it is has a message to send, an honest one a message it stands
\* by, and once it is late the timeout is accepted, by this contract as well.
NoImpasse ==
  \A c \in ClaimIds : IsAwaited(c) =>
    LET game == games[Awaited(c)]
    IN  /\ IsDue(game, "claimant") =>
             \/ \E hash \in {"right", "wrong"} : MayRespond(game, hash)
             \/ \E verified \in BOOLEAN :
                  MayPerform(game, verified)
                    /\ CanConvict(Awaited(c), Loser(verified), c)
        /\ IsDue(game, "challenger") => \E step \in 0 .. steps : MayQuery(game, step)
        /\ \A p \in Sides :
             IsOverdue(game, p) => CanConvict(Awaited(c), p, c)

Bonded(claim) == SumFunctionOnSet(claim.bondedDeposits, Accounts)

Owed ==
  SumFunctionOnSet(deposits, Accounts)
    + SumFunctionOnSet([c \in ClaimIds |-> Bonded(claims[c])], ClaimIds)

\* No deposit or bond is ever below zero, and the contract holds what it owes,
\* free or bonded in any claim, through games won and lost, accounts that queue
\* twice, games that decide claims they were not begun for, and claims that are
\* closed.  (A claimant that loses to itself leaves its bond behind, so the two
\* need not be equal.)
Solvent == TypeOK /\ Owed <= balance

\* "Able to trigger conviction if time of response is too high" (Verifier.sol:
\* 242): a challenger that stops asking loses in the end, so the game of an
\* honest claimant, who makes every move it can, ends.
GameEnds ==
  LET against(c, a) ==
        IsAwaited(c) /\ games[Awaited(c)].challenger = a /\ facts.submitter[c] # a
  IN  \A c \in ClaimIds, a \in Accounts :
        isHonest(facts.submitter[c]) /\ against(c, a) ~> ~against(c, a)
=============================================================================
