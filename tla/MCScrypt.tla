------------------------------ MODULE MCScrypt ------------------------------
(* Scrypt claims in three scopes, which the facts of the start tell apart: *)
(* one claim, of Third, and three accounts any of which may be honest; two *)
(* claims of two other accounts, one of which is honest; and one claim of  *)
(* such an account beside which a stranger begins a game of the two.       *)
EXTENDS ScryptClaims, TLC

CONSTANT Third

Others == Accounts \ {Third}

Symmetry == Permutations(Others) \cup Permutations(ClaimIds)

\* Only one claim is made, so the facts of the others do not matter.
OneClaim ==
  /\ Cardinality({c \in ClaimIds : claimExists(c)}) <= 1
  /\ \A c, d \in ClaimIds : /\ facts.submitter[c] = facts.submitter[d]
                            /\ facts.right[c] = facts.right[d]

ClaimOfThird ==
  /\ OneClaim /\ \A c \in ClaimIds : facts.submitter[c] = Third
  /\ balance <= 3

\* A game whose interval was not narrowed yet.
IsWhole(s) == isLive(games[s]) /\ games[s].lowStep = 0 /\ games[s].highStep = steps

\* Third has no part in the claims, and each is challenged once.  Every game
\* begins in the middle, and of two at a time only one goes further.
ClaimsOfOthers ==
  /\ Cardinality(facts.honest) = 1 /\ ~isHonest(Third)
  /\ deposits[Third] = 0
  /\ \A c \in ClaimIds : /\ facts.submitter[c] # Third
                         /\ Third \notin Range(claims[c].challengers)
                         /\ Len(claims[c].challengers) <= 1
  /\ \A s \in DOMAIN games : IsWhole(s) => games[s].medStep \in {0, steps \div 2}
  /\ \A s, t \in DOMAIN games :
       isLive(games[s]) /\ isLive(games[t]) => s = t \/ IsWhole(s) \/ IsWhole(t)

\* The games that no claim knows of.
Strange == {s \in DOMAIN games : \A c \in ClaimIds, a \in Others : claims[c].sessions[a] # s}

StrangeGame ==
  /\ OneClaim
  /\ balance <= 2
  /\ \A s \in Strange : isLive(games[s]) =>
       IsWhole(s) /\ {games[s].claimant, games[s].challenger} = Others

Scope == ClaimOfThird \/ (ClaimsOfOthers /\ (Strange = {} \/ StrangeGame))

StrangerBegins == Len(games') > Len(games) /\ UNCHANGED claims

ScopedNext == Next /\ Scope' /\ (StrangerBegins => ClaimsOfOthers)

ScopedInit == Init /\ Scope

ScopedSpec == ScopedInit /\ [][ScopedNext]_vars
=============================================================================
