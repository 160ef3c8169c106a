--------------------------- MODULE Deployment_proofs ---------------------------
(***************************************************************************)
(* Proofs about Deployment, for any number of runs of any scripts, killed  *)
(* anywhere and in any order: a deployment is written down only when its   *)
(* contracts know one another, and stays written down.                     *)
(***************************************************************************)
EXTENDS Deployment, SequenceTheorems, TLAPS

USE RunsAssumption, MayRunAssumption

-----------------------------------------------------------------------------
(* The scripts.                                                            *)

\* The contracts, and what they are told.
Names ==
  {"scryptChecker", "scryptVerifier", "dogeUsdOracle", "ethUsdOracle",
   "dogeMessageLibrary", "superblocks", "battleManager", "superblockClaims",
   "setLibrary", "dogeToken", "genesis", "operator", "operatorDeposit"}

\* A call of a contract.
ContractCall ==
  [to : Names, fn : {"create", "call"}, from : {"deployer", "operator"},
   told : SUBSET Names, awaited : BOOLEAN]

Call == ContractCall \cup {Storing}

\* What a sequence holds.
Holds(s) == {s[i] : i \in DOMAIN s}

\* What two calls tell is told once, if they are of the same contract.
Clear(c, d) == c.to = d.to => c.told \cap d.told = {}

\* A deployment, or what is left of one: it tells nothing twice, and the call
\* before the last is waited for.
Distinct(s) == \A i, j \in 1 .. Len(s) : i # j => Clear(s[i], s[j])

OfDeployer(c) == c.from = "deployer" /\ c.told # {"operatorDeposit"}

IsDeployment(s) ==
  /\ Distinct(s)
  /\ \A i \in 1 .. Len(s) :
       /\ OfDeployer(s[i])
       /\ s[i].fn = "store" => i = Len(s)
       /\ i + 1 = Len(s) => s[i].awaited

\* A longest deployment.
Longest ==
  <<Creation("scryptChecker", {}, 0),
    Creation("dogeUsdOracle", {}, 1),
    Creation("ethUsdOracle", {}, 1),
    Creation("dogeMessageLibrary", {}, 0),
    Creation("superblocks", {}, 1),
    Creation("battleManager", InitArguments["battleManager"], 1),
    Creation("superblockClaims", InitArguments["superblockClaims"], 1),
    Telling("superblocks", "deployer", {"superblockClaims"}, FALSE),
    Telling("battleManager", "deployer", {"superblockClaims"}, FALSE),
    Creation("setLibrary", {}, 1),
    Creation("dogeToken", InitArguments["dogeToken"], 1),
    Storing>>

LEMMA CallTypes ==
  /\ \A c \in Names, told \in SUBSET Names, n \in Nat :
       Creation(c, told, n) \in ContractCall
  /\ \A c \in Names, from \in {"deployer", "operator"}, told \in SUBSET Names,
        awaited \in BOOLEAN :
       Telling(c, from, told, awaited) \in ContractCall
  /\ \A c \in ContractCall : c.fn # "store"
  /\ Storing.fn = "store"
<1>1. \A c \in Names, told \in SUBSET Names, n \in Nat :
        Creation(c, told, n) \in ContractCall
  BY DEF Creation, ContractCall
<1>2. \A c \in Names, from \in {"deployer", "operator"}, told \in SUBSET Names,
         awaited \in BOOLEAN :
        Telling(c, from, told, awaited) \in ContractCall
  BY DEF Telling, ContractCall
<1>3. /\ \A c \in ContractCall : c.fn # "store"
      /\ Storing.fn = "store"
  BY DEF Storing, ContractCall
<1> QED
  BY <1>1, <1>2, <1>3

LEMMA Arguments ==
  /\ InitArguments["battleManager"] = {"superblocks", "scryptChecker"}
  /\ InitArguments["superblockClaims"] = {"superblocks", "battleManager"}
  /\ InitArguments["dogeToken"] = {"superblocks", "dogeUsdOracle", "ethUsdOracle"}
  /\ InitArguments["superblocks"] = {"genesis"}
  /\ InitArguments["scryptChecker"] = {"scryptVerifier"}
<1>1. /\ InitArguments["battleManager"] = {"superblocks", "scryptChecker"}
      /\ InitArguments["superblockClaims"] = {"superblocks", "battleManager"}
  BY DEF InitArguments
<1>2. InitArguments["dogeToken"] = {"superblocks", "dogeUsdOracle", "ethUsdOracle"}
  BY DEF InitArguments
<1>3. /\ InitArguments["superblocks"] = {"genesis"}
      /\ InitArguments["scryptChecker"] = {"scryptVerifier"}
  BY DEF InitArguments
<1> QED
  BY <1>1, <1>2, <1>3

LEMMA ArgumentTypes ==
  \A c \in {"battleManager", "superblockClaims", "dogeToken", "superblocks",
            "scryptChecker"} : c \in Names /\ InitArguments[c] \in SUBSET Names
BY Arguments DEF Names

LEMMA TwelveType ==
  ASSUME NEW S, NEW a \in S, NEW b \in S, NEW c \in S, NEW d \in S, NEW e \in S,
         NEW f \in S, NEW g \in S, NEW h \in S, NEW i \in S, NEW j \in S,
         NEW k \in S, NEW l \in S
  PROVE  /\ <<a, b, c, d, e, f, g, h, i, j, k, l>> \in Seq(S)
         /\ Len(<<a, b, c, d, e, f, g, h, i, j, k, l>>) = 12
OBVIOUS

LEMMA LongestType ==
  /\ Longest \in Seq(Call)
  /\ Len(Longest) = 12
  /\ \A i \in 1 .. 12 : Longest[i] \in Call
<1>1. /\ Creation("scryptChecker", {}, 0) \in Call
      /\ Creation("dogeUsdOracle", {}, 1) \in Call
      /\ Creation("ethUsdOracle", {}, 1) \in Call
      /\ Creation("dogeMessageLibrary", {}, 0) \in Call
      /\ Creation("superblocks", {}, 1) \in Call
      /\ Creation("setLibrary", {}, 1) \in Call
  BY CallTypes DEF Names, Call
<1>2. /\ Creation("battleManager", InitArguments["battleManager"], 1) \in Call
      /\ Creation("superblockClaims", InitArguments["superblockClaims"], 1) \in Call
      /\ Creation("dogeToken", InitArguments["dogeToken"], 1) \in Call
  BY CallTypes, ArgumentTypes DEF Call
<1>3. /\ Telling("superblocks", "deployer", {"superblockClaims"}, FALSE) \in Call
      /\ Telling("battleManager", "deployer", {"superblockClaims"}, FALSE) \in Call
  BY CallTypes DEF Names, Call
<1>4. Storing \in Call
  BY DEF Call
<1>5. Longest \in Seq(Call) /\ Len(Longest) = 12
  BY <1>1, <1>2, <1>3, <1>4, TwelveType, Zenon DEF Longest
<1> QED
  BY <1>5, ElementOfSeq

\* A piece of that list.
Piece(m, n) == SubSeq(Longest, m, n)

\* One from m to k and one from l to n follow one another.
LEMMA Pieces ==
  ASSUME NEW m \in 1 .. 12, NEW k \in m .. 12, NEW l \in 2 .. 13, l = k + 1,
         NEW n \in k .. 12
  PROVE  SubSeq(Longest, m, k) \o SubSeq(Longest, l, n) = SubSeq(Longest, m, n)
BY LongestType, ConcatAdjacentSubSeq

LEMMA WholePiece == Piece(1, 12) = Longest
BY SubSeqFull, LongestType DEF Piece

LEMMA PieceType ==
  ASSUME NEW m \in 1 .. 12, NEW n \in m .. 12
  PROVE  Piece(m, n) \in Seq(Call)
<1>1. \A i \in m .. n : Longest[i] \in Call
  BY LongestType
<1> QED
  BY <1>1, SubSeqProperties DEF Piece

LEMMA OnePiece ==
  ASSUME NEW m \in 1 .. 12
  PROVE  <<Longest[m]>> = Piece(m, m)
<1> DEFINE s == <<Longest[m]>>
<1>1. Longest[m] \in Call
  BY LongestType
<1>2. s \in Seq(Call) /\ Len(s) = 1 /\ s[1] = Longest[m]
  BY <1>1
<1>3. /\ Piece(m, m) \in Seq(Call) /\ Len(Piece(m, m)) = 1
      /\ Piece(m, m)[1] = Longest[m]
  <2>1. \A i \in m .. m : Longest[i] \in Call
    BY <1>1
  <2> QED
    BY <2>1, SubSeqProperties DEF Piece
<1>4. s = Piece(m, m)
  <2> HIDE DEF s
  <2> QED
    BY <1>2, <1>3, SeqEqual
<1> QED
  BY <1>4

LEMMA TwoPieces ==
  ASSUME NEW m \in 1 .. 11
  PROVE  <<Longest[m], Longest[m + 1]>> = Piece(m, m + 1)
<1> DEFINE s == <<Longest[m], Longest[m + 1]>>
           t == Piece(m, m + 1)
<1>1. \A i \in m .. m + 1 : Longest[i] \in Call
  BY LongestType
<1>2. /\ s \in Seq(Call) /\ Len(s) = 2
      /\ s[1] = Longest[m] /\ s[2] = Longest[m + 1]
  BY <1>1
<1>3. /\ t \in Seq(Call) /\ Len(t) = 2
      /\ t[1] = Longest[m] /\ t[2] = Longest[m + 1]
  BY <1>1, SubSeqProperties DEF Piece
<1>4. s = t
  <2> HIDE DEF s, t
  <2> QED
    BY <1>2, <1>3, SeqEqual
<1> QED
  BY <1>4

\* deployDogethereum.ts makes the calls of the list, the first only if it is to
\* deploy a dummy of the scrypt checker.
LEMMA DeployScripts ==
  /\ DeployScript(TRUE) = Longest
  /\ DeployScript(FALSE) = SubSeq(Longest, 2, 12)
<1> DEFINE o == [useProxy |-> TRUE, confirmations |-> 1]
<1>1. /\ o.useProxy /\ o.confirmations = 1
  OBVIOUS
<1>2. deployOracleMocks(o) = Piece(2, 3)
  <2>1. deployOracleMocks(o) = <<Longest[2]>> \o <<Longest[3]>>
    BY <1>1 DEF deployOracleMocks, deployPlain, Longest
  <2>2. <<Longest[2]>> = Piece(2, 2) /\ <<Longest[3]>> = Piece(3, 3)
    BY OnePiece
  <2>3. Piece(2, 2) \o Piece(3, 3) = Piece(2, 3)
    BY Pieces DEF Piece
  <2> QED
    BY <2>1, <2>2, <2>3
<1>3. deployMainSystem(o) = Piece(4, 9)
  <2>1. deployMainSystem(o) =
          <<Longest[4]>> \o <<Longest[5]>> \o <<Longest[6]>> \o <<Longest[7]>>
            \o <<Longest[8], Longest[9]>>
    BY <1>1 DEF deployMainSystem, deployPlain, deployPrimitive, deployProxy, Wiring,
                Longest
  <2>2. /\ <<Longest[4]>> = Piece(4, 4) /\ <<Longest[5]>> = Piece(5, 5)
        /\ <<Longest[6]>> = Piece(6, 6) /\ <<Longest[7]>> = Piece(7, 7)
    BY OnePiece
  <2>3. <<Longest[8], Longest[9]>> = Piece(8, 9)
    BY TwoPieces
  <2>4. /\ Piece(4, 4) \o Piece(5, 5) = Piece(4, 5)
        /\ Piece(4, 5) \o Piece(6, 6) = Piece(4, 6)
        /\ Piece(4, 6) \o Piece(7, 7) = Piece(4, 7)
        /\ Piece(4, 7) \o Piece(8, 9) = Piece(4, 9)
    BY Pieces DEF Piece
  <2> QED
    BY <2>1, <2>2, <2>3, <2>4
<1>4. deployToken(o) = Piece(10, 11)
  <2>1. deployToken(o) = <<Longest[10]>> \o <<Longest[11]>>
    BY <1>1 DEF deployToken, deployPlain, deployPrimitive, deployProxy, Longest
  <2>2. <<Longest[10]>> = Piece(10, 10) /\ <<Longest[11]>> = Piece(11, 11)
    BY OnePiece
  <2>3. Piece(10, 10) \o Piece(11, 11) = Piece(10, 11)
    BY Pieces DEF Piece
  <2> QED
    BY <2>1, <2>2, <2>3
<1>5. deployDogethereum(o) = Piece(2, 11)
  <2>1. /\ Piece(2, 3) \o Piece(4, 9) = Piece(2, 9)
        /\ Piece(2, 9) \o Piece(10, 11) = Piece(2, 11)
    BY Pieces DEF Piece
  <2> QED
    BY <1>2, <1>3, <1>4, <2>1 DEF deployDogethereum
<1>6. <<Storing>> = Piece(12, 12) /\ <<Creation("scryptChecker", {}, 0)>> = Piece(1, 1)
  <2>1. Longest[12] = Storing /\ Longest[1] = Creation("scryptChecker", {}, 0)
    BY DEF Longest
  <2>2. <<Longest[12]>> = Piece(12, 12) /\ <<Longest[1]>> = Piece(1, 1)
    BY OnePiece
  <2> QED
    BY <2>1, <2>2
<1>7. /\ Piece(1, 1) \o Piece(2, 11) = Piece(1, 11)
      /\ Piece(1, 11) \o Piece(12, 12) = Piece(1, 12)
      /\ Piece(2, 11) \o Piece(12, 12) = Piece(2, 12)
  BY Pieces DEF Piece
<1>8. <<>> \o Piece(2, 11) = Piece(2, 11)
  BY PieceType, ConcatEmptySeq
<1>9. /\ DeployScript(TRUE) = (Piece(1, 1) \o Piece(2, 11)) \o Piece(12, 12)
      /\ DeployScript(FALSE) = (<<>> \o Piece(2, 11)) \o Piece(12, 12)
  BY <1>5, <1>6 DEF DeployScript, deployOrGetScryptChecker
<1>10. DeployScript(TRUE) = Piece(1, 12) /\ DeployScript(FALSE) = Piece(2, 12)
  BY <1>7, <1>8, <1>9
<1> QED
  BY <1>10, WholePiece DEF Piece

LEMMA LongestCalls ==
  /\ \A i \in {1, 2, 3, 4, 5, 10, 12} : Longest[i].told = {}
  /\ Longest[6].to = "battleManager"
  /\ Longest[6].told = InitArguments["battleManager"]
  /\ Longest[7].to = "superblockClaims"
  /\ Longest[7].told = InitArguments["superblockClaims"]
  /\ Longest[8].to = "superblocks" /\ Longest[8].told = {"superblockClaims"}
  /\ Longest[9].to = "battleManager" /\ Longest[9].told = {"superblockClaims"}
  /\ Longest[11].to = "dogeToken" /\ Longest[11].told = InitArguments["dogeToken"]
  /\ Longest[11].awaited
  /\ Longest[12] = Storing
  /\ \A i \in 1 .. 12 : Longest[i].from = "deployer"
  /\ \A i \in 1 .. 11 : Longest[i] \in ContractCall
<1>1. \A i \in {1, 2, 3, 4, 5, 10, 12} : Longest[i].told = {}
  BY DEF Longest, Creation, Storing
<1>2. /\ Longest[6].to = "battleManager"
      /\ Longest[6].told = InitArguments["battleManager"]
      /\ Longest[7].to = "superblockClaims"
      /\ Longest[7].told = InitArguments["superblockClaims"]
  BY DEF Longest, Creation
<1>3. /\ Longest[8].to = "superblocks" /\ Longest[8].told = {"superblockClaims"}
      /\ Longest[9].to = "battleManager" /\ Longest[9].told = {"superblockClaims"}
  BY DEF Longest, Telling
<1>4. /\ Longest[11].to = "dogeToken" /\ Longest[11].told = InitArguments["dogeToken"]
      /\ Longest[11].awaited
  <2>1. Longest[11] = Creation("dogeToken", InitArguments["dogeToken"], 1)
    BY DEF Longest
  <2>2. Longest[11].to = "dogeToken" /\ Longest[11].told = InitArguments["dogeToken"]
    BY <2>1 DEF Creation
  <2>3. Longest[11].awaited
    <3>1. (1 > 0) = TRUE
      OBVIOUS
    <3>2. Longest[11] =
            [to |-> "dogeToken", fn |-> "create", from |-> "deployer",
             told |-> InitArguments["dogeToken"], awaited |-> TRUE]
      BY <2>1, <3>1, Zenon DEF Creation
    <3> QED
      BY <3>2
  <2> QED
    BY <2>2, <2>3
<1>5. Longest[12] = Storing
  BY DEF Longest
<1>6. \A i \in 1 .. 12 : Longest[i].from = "deployer"
  <2>1. \A i \in {1, 2, 3, 4, 5, 6, 7, 10, 11} : Longest[i].from = "deployer"
    BY DEF Longest, Creation
  <2>2. \A i \in {8, 9, 12} : Longest[i].from = "deployer"
    BY DEF Longest, Telling, Storing
  <2> QED
    BY <2>1, <2>2
<1>7. \A i \in 1 .. 11 : Longest[i] # Storing
  <2>1. \A i \in {1, 2, 3, 4, 5, 6, 7, 10, 11} : Longest[i].fn = "create"
    BY DEF Longest, Creation
  <2>2. \A i \in {8, 9} : Longest[i].fn = "call"
    BY DEF Longest, Telling
  <2> QED
    BY <2>1, <2>2, CallTypes
<1> QED
  BY <1>1, <1>2, <1>3, <1>4, <1>5, <1>6, <1>7, LongestType DEF Call

LEMMA LongestIsDeployment == IsDeployment(Longest)
<1>1. Distinct(Longest)
  <2> SUFFICES ASSUME NEW i \in 1 .. 12, NEW j \in 1 .. 12, i # j,
                      Longest[i].to = Longest[j].to,
                      Longest[i].told # {}, Longest[j].told # {}
               PROVE  Longest[i].told \cap Longest[j].told = {}
    BY LongestType DEF Distinct, Clear
  <2>1. i \in {6, 7, 8, 9, 11} /\ j \in {6, 7, 8, 9, 11}
    BY LongestCalls
  <2>2. {i, j} = {6, 9}
    BY <2>1, LongestCalls
  <2> QED
    BY <2>2, LongestCalls, Arguments
<1>2. \A i \in 1 .. 12 : OfDeployer(Longest[i])
  BY LongestCalls, Arguments DEF OfDeployer
<1>3. \A i \in 1 .. 12 : Longest[i].fn = "store" => i = 12
  BY LongestCalls, CallTypes
<1> QED
  BY <1>1, <1>2, <1>3, LongestType, LongestCalls DEF IsDeployment

\* What is left of a deployment after a call is one.
LEMMA TailIsDeployment ==
  ASSUME NEW s \in Seq(Call), s # <<>>, IsDeployment(s)
  PROVE  IsDeployment(Tail(s))
<1>1. /\ Len(Tail(s)) = Len(s) - 1 /\ Len(s) \in Nat /\ Len(s) > 0
      /\ \A i \in 1 .. Len(s) - 1 : Tail(s)[i] = s[i + 1]
  BY HeadTailProperties, LenProperties, EmptySeq
<1>2. /\ Distinct(s)
      /\ \A i \in 1 .. Len(s) :
           /\ OfDeployer(s[i])
           /\ s[i].fn = "store" => i = Len(s)
           /\ i + 1 = Len(s) => s[i].awaited
  BY DEF IsDeployment
<1>3. ASSUME NEW i \in 1 .. Len(Tail(s)), NEW j \in 1 .. Len(Tail(s)), i # j
      PROVE  Clear(Tail(s)[i], Tail(s)[j])
  <2>1. PICK m \in 1 .. Len(s), n \in 1 .. Len(s) : m = i + 1 /\ n = j + 1
    BY <1>1
  <2>2. Tail(s)[i] = s[m] /\ Tail(s)[j] = s[n] /\ m # n
    BY <1>1, <1>3, <2>1
  <2> QED
    BY <1>2, <2>2 DEF Distinct
<1>4. ASSUME NEW i \in 1 .. Len(Tail(s))
      PROVE  /\ OfDeployer(Tail(s)[i])
             /\ Tail(s)[i].fn = "store" => i = Len(Tail(s))
             /\ i + 1 = Len(Tail(s)) => Tail(s)[i].awaited
  <2>1. PICK m \in 1 .. Len(s) : m = i + 1
    BY <1>1
  <2>2. Tail(s)[i] = s[m]
    BY <1>1, <2>1
  <2>3. m = Len(s) <=> i = Len(Tail(s))
    BY <1>1, <2>1
  <2>4. m + 1 = Len(s) <=> i + 1 = Len(Tail(s))
    BY <1>1, <2>1
  <2> QED
    BY <1>2, <2>2, <2>3, <2>4
<1> QED
  BY <1>3, <1>4 DEF IsDeployment, Distinct

\* What the contracts of a deployment must have been told.
Needs ==
  {[to |-> "superblocks", told |-> {"superblockClaims"}],
   [to |-> "battleManager", told |-> InitArguments["battleManager"]],
   [to |-> "battleManager", told |-> {"superblockClaims"}],
   [to |-> "superblockClaims", told |-> InitArguments["superblockClaims"]],
   [to |-> "dogeToken", told |-> InitArguments["dogeToken"]]}

LEMMA DeployScriptProperties ==
  ASSUME NEW dummy \in BOOLEAN
  PROVE  /\ DeployScript(dummy) \in Seq(Call)
         /\ IsDeployment(DeployScript(dummy))
         /\ \A n \in Needs : \E c \in Holds(DeployScript(dummy)) :
                              c.to = n.to /\ c.told = n.told
<1> DEFINE Covers(s) == \A n \in Needs : \E c \in Holds(s) : c.to = n.to /\ c.told = n.told
<1>1. Longest # <<>> /\ Tail(Longest) = SubSeq(Longest, 2, 12)
  <2>1. Longest # <<>>
    <3>1. Len(<<>>) = 0 /\ Len(Longest) = 12
      BY LongestType
    <3> QED
      BY <3>1
  <2> QED
    BY <2>1, LongestType, TailIsSubSeq
<1>2. ASSUME NEW n \in Needs
      PROVE  \E i \in 6 .. 11 : Longest[i].to = n.to /\ Longest[i].told = n.told
  <2>1. \E i \in {6, 7, 8, 9, 11} : n = [to |-> Longest[i].to, told |-> Longest[i].told]
    BY LongestCalls DEF Needs
  <2> QED
    BY <2>1
<1>3. Covers(Longest)
  <2>1. \A i \in 6 .. 11 : Longest[i] \in Holds(Longest)
    BY LongestType, LenProperties DEF Holds
  <2> QED
    BY <1>2, <2>1
<1>4. /\ Tail(Longest) \in Seq(Call) /\ Len(Tail(Longest)) = 11
      /\ \A i \in 1 .. 11 : Tail(Longest)[i] = Longest[i + 1]
  <2>1. /\ Tail(Longest) \in Seq(Call) /\ Len(Tail(Longest)) = Len(Longest) - 1
        /\ \A i \in 1 .. Len(Tail(Longest)) : Tail(Longest)[i] = Longest[i + 1]
    BY <1>1, LongestType, HeadTailProperties
  <2>2. Len(Longest) = 12
    BY LongestType
  <2>3. Len(Tail(Longest)) = 11
    BY <2>1, <2>2
  <2> QED
    BY <2>1, <2>3
<1>5. Covers(Tail(Longest))
  <2>1. \A i \in 1 .. 11 : Tail(Longest)[i] \in Holds(Tail(Longest))
    BY <1>4, LenProperties DEF Holds
  <2>2. ASSUME NEW i \in 6 .. 11
        PROVE  Longest[i] \in Holds(Tail(Longest))
    <3>1. i - 1 \in 1 .. 11 /\ (i - 1) + 1 = i
      OBVIOUS
    <3> QED
      BY <1>4, <2>1, <3>1
  <2> QED
    BY <1>2, <2>2
<1>6. IsDeployment(Tail(Longest))
  BY <1>1, LongestType, LongestIsDeployment, TailIsDeployment
<1> HIDE DEF Covers
<1>7. \A s : Covers(s) => \A n \in Needs : \E c \in Holds(s) : c.to = n.to /\ c.told = n.told
  BY DEF Covers
<1>8. CASE dummy
  <2>1. DeployScript(dummy) = Longest
    BY <1>8, DeployScripts
  <2> QED
    BY <1>3, <1>7, <2>1, LongestType, LongestIsDeployment
<1>9. CASE ~dummy
  <2>1. DeployScript(dummy) = Tail(Longest)
    BY <1>1, <1>9, DeployScripts
  <2> QED
    BY <1>4, <1>5, <1>6, <1>7, <2>1
<1> QED
  BY <1>8, <1>9

LEMMA SeqConcat ==
  ASSUME NEW S, NEW s \in Seq(S), NEW t \in Seq(S)
  PROVE  s \o t \in Seq(S)
BY ConcatProperties

\* The other scripts call contracts only.
LEMMA OtherScripts ==
  /\ deployFixture \in Seq(ContractCall)
  /\ \A dummy \in BOOLEAN : initSuperblockChain(dummy) \in Seq(ContractCall)
  /\ initContracts \in Seq(ContractCall)
<1> DEFINE o == FixtureOptions
           Plain == Seq(ContractCall)
<1>1. o.confirmations = 0 /\ ~o.useProxy /\ (0 > 0) \in BOOLEAN
  BY DEF FixtureOptions
<1>2. \A s \in Plain, t \in Plain : s \o t \in Plain
  BY SeqConcat
<1>3. \A c \in ContractCall, d \in ContractCall, e \in ContractCall :
        <<c>> \in Plain /\ <<c, d>> \in Plain /\ <<c, d, e>> \in Plain
  OBVIOUS
<1>4. \A c \in Names : Creation(c, {}, 0) \in ContractCall
  BY CallTypes
<1>5. ASSUME NEW c \in Names
      PROVE  deployPlain(c, o) \in Plain
  BY <1>1, <1>3, <1>4 DEF deployPlain
<1>6. ASSUME NEW c \in {"battleManager", "superblockClaims", "dogeToken",
                       "superblocks", "scryptChecker"}
      PROVE  /\ deployPlainWithInit(c, o) \in Plain
             /\ deployPrimitive(c, o) = deployPlainWithInit(c, o)
  <2>1. Telling(c, "deployer", InitArguments[c], 0 > 0) \in ContractCall
    BY <1>1, CallTypes, ArgumentTypes
  <2>2. deployPlainWithInit(c, o) =
          <<Creation(c, {}, 0), Telling(c, "deployer", InitArguments[c], 0 > 0)>>
    BY <1>1 DEF deployPlainWithInit
  <2>3. deployPlainWithInit(c, o) \in Plain
    BY <1>3, <1>4, <2>1, <2>2, ArgumentTypes
  <2> QED
    BY <1>1, <2>3 DEF deployPrimitive
<1>7. Wiring \in Plain
  BY <1>3, CallTypes DEF Wiring, Names
<1> DEFINE Deployed == deployDogethereum(o)
<1>8. Deployed \in Plain
  <2> HIDE DEF o, Plain
  <2>1. deployOracleMocks(o) \in Plain
    BY <1>2, <1>5 DEF deployOracleMocks, Names
  <2>2. deployToken(o) \in Plain
    BY <1>2, <1>5, <1>6 DEF deployToken, Names
  <2>3. <<Creation("dogeMessageLibrary", {}, 0)>> \in Plain
    BY <1>3, <1>4 DEF Names
  <2>4. deployMainSystem(o) \in Plain
    BY <1>2, <1>5, <1>6, <1>7, <2>3 DEF deployMainSystem, Names
  <2> QED
    BY <1>2, <2>1, <2>2, <2>4 DEF deployDogethereum
<1>9. deployFixture \in Plain
  <2>1. <<Creation("scryptChecker", {}, 0)>> \in Plain
    BY <1>3, <1>4 DEF Names
  <2> HIDE DEF Plain
  <2> QED
    BY <1>2, <1>8, <2>1 DEF deployFixture, deployOrGetScryptChecker
<1>10. ASSUME NEW dummy \in BOOLEAN
       PROVE  initSuperblockChain(dummy) \in Plain
  <2>1. /\ <<Creation("scryptChecker", {}, 0)>> \in Plain
        /\ <<Creation("scryptVerifier", {}, 0)>> \in Plain
        /\ <<Creation("dogeMessageLibrary", {}, 0)>> \in Plain
    BY <1>3, <1>4 DEF Names
  <2>2. \A c \in {"superblocks", "scryptChecker", "battleManager", "superblockClaims"} :
          deployPlainWithInit(c, FixtureOptions) \in Plain
    BY <1>6
  <2>3. (IF dummy THEN <<Creation("scryptChecker", {}, 0)>>
         ELSE <<Creation("scryptVerifier", {}, 0)>>
                \o deployPlainWithInit("scryptChecker", FixtureOptions)) \in Plain
    <3> HIDE DEF Plain
    <3> QED
      BY <1>2, <2>1, <2>2
  <2> HIDE DEF Plain
  <2> QED
    BY <1>2, <1>7, <2>1, <2>2, <2>3 DEF initSuperblockChain
<1>11. initContracts \in Plain
  <2>1. /\ Telling("dogeToken", "operator", {"operator"}, TRUE) \in ContractCall
        /\ Telling("dogeToken", "operator", {"operatorDeposit"}, TRUE) \in ContractCall
        /\ Telling("superblocks", "deployer", {"genesis"}, FALSE) \in ContractCall
    BY CallTypes DEF Names
  <2> HIDE DEF Plain
  <2> QED
    BY <1>3, <2>1 DEF initContracts
<1> QED
  BY <1>9, <1>10, <1>11

LEMMA PlainIsStoringFree ==
  ASSUME NEW s \in Seq(ContractCall)
  PROVE  s \in Seq(Call) /\ Storing \notin Holds(s)
<1>1. \A i \in DOMAIN s : s[i] \in ContractCall
  BY ElementOfSeq, LenProperties
<1> QED
  BY <1>1, CallTypes, SeqMonotonic DEF Holds, Call

-----------------------------------------------------------------------------
(* The invariant.                                                          *)

Typed ==
  /\ contracts = [r \in Runs |-> contracts[r]]
  /\ mempool \in Seq([call : Call, by : Runs])
  /\ script \in [Runs -> Seq(Call)]
  /\ pc \in [Runs -> {"new", "running", "waiting", "storing", "done", "failed",
                      "killed"}]
  /\ system \in [Runs -> Runs \cup {NoRun}]
  /\ file \in Runs \cup {NoRun, Torn}

\* The run is a deployment that has not written its file.
Deploying(r) == Storing \in Holds(script[r])

SentBy(r) == {i \in DOMAIN mempool : mempool[i].by = r}

\* The calls that run r will make, and those that it made.
Pending(r) == Holds(script[r]) \cup {mempool[i].call : i \in SentBy(r)}

\* The transaction that a deployment waits for is its last, and before the file
\* is written there is none.
Ordered(r) ==
  /\ pc[r] = "waiting" =>
       \A i, j \in SentBy(r) : mempool[i].call.awaited => j <= i
  /\ pc[r] \in {"running", "storing"} =>
       \A i \in SentBy(r) : ~mempool[i].call.awaited /\ Len(script[r]) # 1

\* Nothing is told twice, so no transaction of a deployment will be refused.
Fresh(r) ==
  /\ \A i \in SentBy(r) : OfDeployer(mempool[i].call)
  /\ \A i, j \in SentBy(r) : i # j => Clear(mempool[i].call, mempool[j].call)
  /\ \A i \in SentBy(r) : \A c \in Holds(script[r]) : Clear(mempool[i].call, c)
  /\ \A c \in Pending(r) :
       c.to \in DOMAIN contracts[r] => c.told \cap contracts[r][c.to] = {}

\* What the contracts must be told, they were told or will be.
Coming(r) ==
  \A n \in Needs : \/ Told(r, n.to, n.told)
                  \/ \E c \in Pending(r) : c.to = n.to /\ c.told = n.told

OnItsWay(r) ==
  Deploying(r) => /\ system[r] = r
                  /\ IsDeployment(script[r])
                  /\ Ordered(r) /\ Fresh(r) /\ Coming(r)

\* A run that has not begun made no call and created no contract.
Idle(r) ==
  pc[r] = "new" => /\ script[r] = <<>> /\ system[r] = NoRun
                   /\ SentBy(r) = {} /\ DOMAIN contracts[r] = {}

\* A run that writes the file has this left to do only.
Writing(r) == pc[r] = "storing" => Deploying(r) /\ Len(script[r]) = 1

\* What is written down, or initialized by another run, is a deployment that
\* is over.
IsOver(r) == pc[r] # "new" /\ ~Deploying(r)

Targeted(r) == system[r] \in Runs \ {r} => IsOver(system[r])

Complete(r) == \A n \in Needs : Told(r, n.to, n.told)

Stored == file \in Runs => IsOver(file) /\ Complete(file)

DeployInv ==
  /\ Typed
  /\ \A r \in Runs : Idle(r) /\ Writing(r) /\ Targeted(r) /\ OnItsWay(r)
  /\ Stored

-----------------------------------------------------------------------------
LEMMA NotNew == \A r \in Runs : r # NoRun /\ r # Torn
OBVIOUS

LEMMA NotEmpty ==
  ASSUME NEW S, NEW s \in Seq(S), Len(s) > 0
  PROVE  s # <<>>
BY EmptySeq

LEMMA NothingHeld == Holds(<<>>) = {}
BY DEF Holds

LEMMA InitHolds == Init => DeployInv
<1> SUFFICES ASSUME Init
             PROVE  DeployInv
  OBVIOUS
<1> USE DEF Init
<1>1. Typed
  BY DEF Typed
<1>2. ASSUME NEW r \in Runs
      PROVE  Idle(r) /\ Writing(r) /\ Targeted(r) /\ OnItsWay(r)
  <2>1. ~Deploying(r)
    BY NothingHeld DEF Deploying
  <2> QED
    BY <2>1 DEF Idle, Writing, Targeted, OnItsWay, SentBy
<1>3. Stored
  BY DEF Stored
<1> QED
  BY <1>1, <1>2, <1>3 DEF DeployInv

\* A deployment stays on its way while its transactions keep their order, its
\* contracts and its script are left alone, and it goes no further than to the
\* file.
LEMMA Carried ==
  ASSUME Typed, Typed', NEW r \in Runs, NEW f, OnItsWay(r),
         script'[r] = script[r], system'[r] = system[r],
         contracts'[r] = contracts[r],
         \/ pc'[r] = pc[r]
         \/ pc'[r] \in {"running", "storing"} /\ pc[r] \in {"running", "storing"}
         \/ pc'[r] \notin {"running", "waiting", "storing"},
         \A i \in SentBy(r)' : f[i] \in SentBy(r) /\ mempool'[i] = mempool[f[i]],
         \A i, j \in SentBy(r)' : (i # j => f[i] # f[j]) /\ (f[j] <= f[i] => j <= i),
         \A i \in SentBy(r) : \E j \in SentBy(r)' : f[j] = i
  PROVE  OnItsWay(r)'
<1> SUFFICES ASSUME Deploying(r)'
             PROVE  (/\ system[r] = r
                     /\ IsDeployment(script[r])
                     /\ Ordered(r) /\ Fresh(r) /\ Coming(r))'
  BY DEF OnItsWay
<1>1. Deploying(r) /\ Holds(script[r])' = Holds(script[r])
  BY DEF Deploying
<1>2. Ordered(r) /\ Fresh(r) /\ Coming(r) /\ system[r] = r /\ IsDeployment(script[r])
  BY <1>1 DEF OnItsWay
<1>3. Ordered(r)'
  BY <1>2 DEF Ordered
<1>4. Pending(r)' = Pending(r)
  <2>1. {mempool'[i].call : i \in SentBy(r)'} = {mempool[i].call : i \in SentBy(r)}
    OBVIOUS
  <2> QED
    BY <1>1, <2>1 DEF Pending
<1>5. Fresh(r)'
  <2>1. \A i \in SentBy(r)' : OfDeployer(mempool'[i].call)
    BY <1>2 DEF Fresh
  <2>2. \A i, j \in SentBy(r)' : i # j => Clear(mempool'[i].call, mempool'[j].call)
    BY <1>2 DEF Fresh
  <2>3. \A i \in SentBy(r)' : \A c \in Holds(script[r])' : Clear(mempool'[i].call, c)
    BY <1>1, <1>2 DEF Fresh
  <2>4. \A c \in Pending(r)' :
          c.to \in DOMAIN contracts'[r] => c.told \cap contracts'[r][c.to] = {}
    BY <1>2, <1>4 DEF Fresh
  <2> QED
    BY <2>1, <2>2, <2>3, <2>4 DEF Fresh, OfDeployer, Clear
<1>6. Coming(r)'
  BY <1>2, <1>4 DEF Coming, Told
<1>7. IsDeployment(script[r])'
  BY <1>2 DEF IsDeployment, Distinct, OfDeployer, Clear
<1> QED
  BY <1>2, <1>3, <1>5, <1>6, <1>7

\* While its transactions stay where they are, too.
LEMMA Unmoved ==
  ASSUME Typed, Typed', NEW r \in Runs, OnItsWay(r),
         script'[r] = script[r], system'[r] = system[r],
         contracts'[r] = contracts[r],
         SentBy(r)' = SentBy(r), \A i \in SentBy(r) : mempool'[i] = mempool[i],
         \/ pc'[r] = pc[r]
         \/ pc'[r] \in {"running", "storing"} /\ pc[r] \in {"running", "storing"}
         \/ pc'[r] \notin {"running", "waiting", "storing"}
  PROVE  OnItsWay(r)'
<1> DEFINE f == [i \in DOMAIN mempool |-> i]
<1>1. \A i \in SentBy(r) : f[i] = i
  BY DEF SentBy
<1> HIDE DEF f
<1>2. /\ \A i \in SentBy(r)' : f[i] \in SentBy(r) /\ mempool'[i] = mempool[f[i]]
      /\ \A i, j \in SentBy(r)' : (i # j => f[i] # f[j]) /\ (f[j] <= f[i] => j <= i)
      /\ \A i \in SentBy(r) : \E j \in SentBy(r)' : f[j] = i
  BY <1>1
<1> QED
  BY <1>2, Carried

\* A run that is over stays so.
LEMMA OverStays ==
  ASSUME NEW r \in Runs, IsOver(r), Holds(script'[r]) \subseteq Holds(script[r]),
         pc'[r] # "new"
  PROVE  IsOver(r)'
BY DEF IsOver, Deploying

\* A script begins.
LEMMA BeginStep ==
  ASSUME DeployInv, NEW r \in Runs, NEW target \in Runs, NEW calls \in Seq(Call),
         Begin(r, target, calls),
         target # r => IsOver(target),
         Storing \in Holds(calls) =>
           /\ target = r
           /\ IsDeployment(calls)
           /\ \A n \in Needs : \E c \in Holds(calls) : c.to = n.to /\ c.told = n.told
  PROVE  DeployInv'
<1> USE DEF Begin
<1>1. Typed /\ Stored
      /\ \A q \in Runs : Idle(q) /\ Writing(q) /\ Targeted(q) /\ OnItsWay(q)
  BY DEF DeployInv
<1>2. Typed'
  BY <1>1 DEF Typed
<1>3. /\ pc'[r] = "running" /\ script'[r] = calls /\ system'[r] = target
      /\ \A q \in Runs \ {r} : /\ pc'[q] = pc[q] /\ script'[q] = script[q]
                             /\ system'[q] = system[q]
      /\ \A q \in Runs : SentBy(q)' = SentBy(q)
  BY <1>1 DEF Typed, SentBy
<1>4. ASSUME NEW q \in Runs, IsOver(q)
      PROVE  q # r /\ IsOver(q)'
  BY <1>3, <1>4 DEF IsOver, Deploying
<1>5. ASSUME NEW q \in Runs, q # r
      PROVE  (Idle(q) /\ Writing(q) /\ Targeted(q) /\ OnItsWay(q))'
  <2>1. Idle(q)' /\ Writing(q)'
    BY <1>1, <1>3, <1>5 DEF Idle, Writing, Deploying
  <2>2. Targeted(q)'
    BY <1>1, <1>3, <1>4, <1>5 DEF Targeted
  <2>3. OnItsWay(q)'
    BY <1>1, <1>2, <1>3, <1>5, Unmoved
  <2> QED
    BY <2>1, <2>2, <2>3
<1>6. (Idle(r) /\ Writing(r) /\ Targeted(r) /\ OnItsWay(r))'
  <2>1. Idle(r)' /\ Writing(r)'
    BY <1>3 DEF Idle, Writing
  <2>2. Targeted(r)'
    BY <1>3, <1>4 DEF Targeted
  <2>3. ASSUME Deploying(r)'
        PROVE  (/\ system[r] = r /\ IsDeployment(script[r])
                /\ Ordered(r) /\ Fresh(r) /\ Coming(r))'
    <3>1. SentBy(r)' = {} /\ DOMAIN contracts'[r] = {}
      BY <1>1, <1>3 DEF Idle
    <3>2. /\ target = r /\ IsDeployment(calls)
          /\ \A n \in Needs : \E c \in Holds(calls) : c.to = n.to /\ c.told = n.told
      BY <1>3, <2>3 DEF Deploying
    <3>3. Ordered(r)' /\ Fresh(r)'
      BY <3>1 DEF Ordered, Fresh
    <3>4. Coming(r)'
      BY <1>3, <3>2 DEF Coming, Pending
    <3>5. IsDeployment(script[r])'
      BY <1>3, <3>2
    <3> QED
      BY <1>3, <3>2, <3>3, <3>4, <3>5
  <2> QED
    BY <2>1, <2>2, <2>3 DEF OnItsWay
<1>7. Stored'
  BY <1>1, <1>4 DEF Stored, Complete, Told
<1> QED
  BY <1>2, <1>5, <1>6, <1>7 DEF DeployInv

\* A run fails, ends or is killed, or begins to write its file.
LEMMA PcStep ==
  ASSUME DeployInv, NEW r \in Runs, pc[r] # "new",
         NEW state \in {"done", "failed", "killed", "storing"},
         pc' = [pc EXCEPT ![r] = state],
         UNCHANGED <<contracts, mempool, script, system>>,
         state = "storing" =>
           pc[r] = "running" /\ Deploying(r) /\ Len(script[r]) = 1,
         file' \in {file, Torn}
  PROVE  DeployInv'
<1>1. Typed /\ Stored
      /\ \A q \in Runs : Idle(q) /\ Writing(q) /\ Targeted(q) /\ OnItsWay(q)
  BY DEF DeployInv
<1>2. Typed'
  BY <1>1 DEF Typed
<1>3. /\ pc'[r] = state
      /\ \A q \in Runs \ {r} : pc'[q] = pc[q]
      /\ \A q \in Runs : SentBy(q)' = SentBy(q)
  BY <1>1 DEF Typed, SentBy
<1>4. ASSUME NEW q \in Runs, IsOver(q)
      PROVE  IsOver(q)'
  BY <1>3, <1>4 DEF IsOver, Deploying
<1>5. ASSUME NEW q \in Runs
      PROVE  (Idle(q) /\ Writing(q) /\ Targeted(q) /\ OnItsWay(q))'
  <2>1. Idle(q)' /\ Writing(q)'
    BY <1>1, <1>3 DEF Idle, Writing, Deploying
  <2>2. Targeted(q)'
    BY <1>1, <1>4 DEF Targeted
  <2>3. OnItsWay(q)'
    BY <1>1, <1>2, <1>3, Unmoved
  <2> QED
    BY <2>1, <2>2, <2>3
<1>6. Stored'
  BY <1>1, <1>4 DEF Stored, Complete, Told
<1> QED
  BY <1>2, <1>5, <1>6 DEF DeployInv

\* The file is written.
LEMMA EndStoreStep ==
  ASSUME DeployInv, NEW r \in Runs, EndStore(r)
  PROVE  DeployInv'
<1> USE DEF EndStore
<1>1. Typed /\ Stored
      /\ \A q \in Runs : Idle(q) /\ Writing(q) /\ Targeted(q) /\ OnItsWay(q)
  BY DEF DeployInv
<1>2. Deploying(r) /\ Len(script[r]) = 1 /\ script[r] \in Seq(Call)
  BY <1>1 DEF Writing, Typed
<1>3. script[r][1] = Storing /\ Holds(script[r]) = {Storing}
  <2>1. DOMAIN script[r] = {1}
    BY <1>2, LenProperties
  <2> QED
    BY <1>2, <2>1 DEF Deploying, Holds
<1>4. Tail(script[r]) = <<>> /\ Tail(script[r]) \in Seq(Call)
  <2> HIDE DEF EndStore
  <2>1. script[r] # <<>>
    <3>1. script[r] \in Seq(Call) /\ Len(script[r]) > 0
      BY <1>2
    <3> QED
      BY <3>1, NotEmpty, Zenon
  <2>2. Tail(script[r]) \in Seq(Call) /\ Len(Tail(script[r])) = 0
    BY <1>2, <2>1, HeadTailProperties
  <2> QED
    BY <2>2, EmptySeq
<1>5. Typed'
  BY <1>1, <1>4 DEF Typed
<1>6. /\ pc'[r] = "running" /\ script'[r] = <<>> /\ file' = r
      /\ \A q \in Runs \ {r} : pc'[q] = pc[q] /\ script'[q] = script[q]
      /\ \A q \in Runs : SentBy(q)' = SentBy(q)
  <2>1. system[r] = r
    BY <1>1, <1>2 DEF OnItsWay
  <2> QED
    BY <1>1, <1>4, <2>1 DEF Typed, SentBy
<1>7. IsOver(r)' /\ ~Deploying(r)'
  BY <1>6, NothingHeld DEF IsOver, Deploying
<1>8. ASSUME NEW q \in Runs, IsOver(q)
      PROVE  IsOver(q)'
  BY <1>6, <1>7, <1>8 DEF IsOver, Deploying
<1>9. ASSUME NEW q \in Runs
      PROVE  (Idle(q) /\ Writing(q) /\ Targeted(q) /\ OnItsWay(q))'
  <2>1. Idle(q)' /\ Writing(q)'
    BY <1>1, <1>6 DEF Idle, Writing, Deploying
  <2>2. Targeted(q)'
    BY <1>1, <1>8 DEF Targeted
  <2>3. OnItsWay(q)'
    <3>1. CASE q = r
      BY <1>7, <3>1 DEF OnItsWay
    <3>2. CASE q # r
      BY <1>1, <1>5, <1>6, <3>2, Unmoved
    <3> QED
      BY <3>1, <3>2
  <2> QED
    BY <2>1, <2>2, <2>3
<1>10. Complete(r)
  <2>1. Ordered(r) /\ Coming(r)
    BY <1>1, <1>2 DEF OnItsWay
  <2>2. SentBy(r) = {}
    BY <1>2, <2>1 DEF Ordered
  <2>3. \A c \in Pending(r) : c.to = "file"
    BY <1>3, <2>2 DEF Pending, Storing
  <2>4. \A n \in Needs : n.to # "file"
    BY DEF Needs
  <2> QED
    BY <2>1, <2>3, <2>4 DEF Coming, Complete
<1>11. Stored'
  BY <1>6, <1>7, <1>10 DEF Stored, Complete, Told
<1> QED
  BY <1>5, <1>9, <1>11 DEF DeployInv

LEMMA TailHolds ==
  ASSUME NEW S, NEW s \in Seq(S), s # <<>>
  PROVE  /\ Tail(s) \in Seq(S) /\ Len(Tail(s)) = Len(s) - 1
         /\ Head(s) = s[1] /\ Head(s) \in S
         /\ Holds(s) = Holds(Tail(s)) \cup {Head(s)}
         /\ 1 \in 1 .. Len(s) /\ DOMAIN s = 1 .. Len(s)
         /\ \A i \in 1 .. Len(Tail(s)) : Tail(s)[i] = s[i + 1]
         /\ DOMAIN Tail(s) = 1 .. Len(Tail(s))
<1>1. /\ Head(s) \in S /\ Tail(s) \in Seq(S) /\ Len(Tail(s)) = Len(s) - 1
      /\ \A i \in 1 .. Len(Tail(s)) : Tail(s)[i] = s[i + 1]
  BY HeadTailProperties
<1>2. /\ Len(s) \in Nat \ {0}
      /\ DOMAIN s = 1 .. Len(s) /\ DOMAIN Tail(s) = 1 .. Len(Tail(s))
  BY <1>1, EmptySeq, LenProperties
<1>3. Head(s) = s[1]
  OBVIOUS
<1>4. ASSUME NEW c \in Holds(s), c # s[1]
      PROVE  c \in Holds(Tail(s))
  <2>1. PICK i \in 1 .. Len(s) : c = s[i]
    BY <1>2 DEF Holds
  <2>2. i - 1 \in 1 .. Len(Tail(s)) /\ (i - 1) + 1 = i
    BY <1>1, <1>2, <1>4, <2>1
  <2>3. Tail(s)[i - 1] = c
    BY <1>1, <2>1, <2>2
  <2> QED
    BY <1>2, <2>2, <2>3 DEF Holds
<1>5. ASSUME NEW c \in Holds(Tail(s))
      PROVE  c \in Holds(s)
  <2>1. PICK i \in 1 .. Len(Tail(s)) : c = Tail(s)[i]
    BY <1>2 DEF Holds
  <2>2. i + 1 \in 1 .. Len(s)
    BY <1>1, <1>2
  <2> QED
    BY <1>1, <1>2, <2>1, <2>2 DEF Holds
<1>6. s[1] \in Holds(s) /\ 1 \in 1 .. Len(s)
  BY <1>2 DEF Holds
<1> QED
  BY <1>1, <1>2, <1>3, <1>4, <1>5, <1>6

\* A transaction is sent: what it tells was never told.
LEMMA SendStep ==
  ASSUME DeployInv, NEW r \in Runs, pc[r] = "running", script[r] # <<>>,
         Head(script[r]).fn # "store",
         mempool' = Append(mempool, [call |-> Head(script[r]), by |-> r]),
         script' = [script EXCEPT ![r] = Tail(@)],
         pc' = [pc EXCEPT ![r] = IF Head(script[r]).awaited THEN "waiting" ELSE @],
         UNCHANGED <<contracts, system, file>>
  PROVE  DeployInv'
<1> DEFINE call == Head(script[r])
           tx == [call |-> call, by |-> r]
           n == Len(mempool) + 1
<1>1. Typed /\ Stored
      /\ \A q \in Runs : Idle(q) /\ Writing(q) /\ Targeted(q) /\ OnItsWay(q)
  BY DEF DeployInv
<1>2. /\ mempool \in Seq([call : Call, by : Runs])
      /\ script[r] \in Seq(Call)
  BY <1>1 DEF Typed
<1>3. /\ Tail(script[r]) \in Seq(Call) /\ Len(Tail(script[r])) = Len(script[r]) - 1
      /\ call = script[r][1] /\ call \in Call
      /\ Holds(script[r]) = Holds(Tail(script[r])) \cup {call}
      /\ 1 \in 1 .. Len(script[r]) /\ DOMAIN script[r] = 1 .. Len(script[r])
      /\ \A i \in 1 .. Len(Tail(script[r])) : Tail(script[r])[i] = script[r][i + 1]
      /\ DOMAIN Tail(script[r]) = 1 .. Len(Tail(script[r]))
  BY <1>2, TailHolds
<1> HIDE DEF call
<1>4. /\ mempool' \in Seq([call : Call, by : Runs]) /\ DOMAIN mempool = 1 .. n - 1
      /\ DOMAIN mempool' = 1 .. n /\ n \in Nat
      /\ \A i \in 1 .. n - 1 : mempool'[i] = mempool[i]
      /\ mempool'[n] = tx
  <2>1. tx \in [call : Call, by : Runs] /\ mempool' = Append(mempool, tx)
    BY <1>3 DEF call
  <2> HIDE DEF tx
  <2> QED
    BY <1>2, <2>1, AppendProperties, LenProperties
<1>5. Typed'
  BY <1>1, <1>3, <1>4 DEF Typed
<1>6. /\ pc'[r] \in {"running", "waiting"} /\ script'[r] = Tail(script[r])
      /\ pc'[r] = IF call.awaited THEN "waiting" ELSE "running"
      /\ \A q \in Runs \ {r} : pc'[q] = pc[q] /\ script'[q] = script[q]
  BY <1>1 DEF Typed, call
<1>7. /\ SentBy(r)' = SentBy(r) \cup {n} /\ SentBy(r) \subseteq 1 .. n - 1
      /\ \A q \in Runs \ {r} : SentBy(q)' = SentBy(q)
  BY <1>4 DEF SentBy
<1>8. ASSUME NEW q \in Runs, IsOver(q)
      PROVE  IsOver(q)'
  BY <1>3, <1>6, <1>8 DEF IsOver, Deploying
<1>9. ASSUME NEW q \in Runs, q # r
      PROVE  OnItsWay(q)'
  <2>1. SentBy(q)' = SentBy(q) /\ \A i \in SentBy(q) : mempool'[i] = mempool[i]
    BY <1>4, <1>7, <1>9 DEF SentBy
  <2>2. /\ script'[q] = script[q] /\ pc'[q] = pc[q]
        /\ system'[q] = system[q] /\ contracts'[q] = contracts[q]
    BY <1>6, <1>9
  <2>3. Typed /\ Typed' /\ OnItsWay(q)
    BY <1>1, <1>5
  <2> QED
    BY <2>1, <2>2, <2>3, Unmoved
<1>10. ASSUME Deploying(r)'
       PROVE  (/\ system[r] = r /\ IsDeployment(script[r])
               /\ Ordered(r) /\ Fresh(r) /\ Coming(r))'
  <2>1. /\ system[r] = r /\ IsDeployment(script[r])
        /\ Ordered(r) /\ Fresh(r) /\ Coming(r)
    BY <1>1, <1>3, <1>6, <1>10 DEF OnItsWay, Deploying
  <2>2. IsDeployment(script[r])'
    BY <1>2, <1>6, <2>1, TailIsDeployment
  <2>3. \A c \in Holds(Tail(script[r])) : Clear(call, c)
    <3>1. ASSUME NEW i \in 1 .. Len(Tail(script[r]))
          PROVE  Clear(call, Tail(script[r])[i])
      <4>1. i + 1 \in 1 .. Len(script[r]) /\ i + 1 # 1
        BY <1>3
      <4> QED
        BY <1>3, <2>1, <4>1 DEF IsDeployment, Distinct
    <3>2. \A c \in Holds(Tail(script[r])) :
            \E i \in 1 .. Len(Tail(script[r])) : c = Tail(script[r])[i]
      BY <1>3 DEF Holds
    <3> QED
      BY <3>1, <3>2
  <2>4. Pending(r)' = Pending(r)
    <3>1. {mempool'[i].call : i \in SentBy(r)'} =
            {mempool[i].call : i \in SentBy(r)} \cup {call}
      BY <1>4, <1>7
    <3> QED
      BY <1>3, <1>6, <3>1 DEF Pending
  <2>5. Ordered(r)'
    <3>1. \A i \in SentBy(r) : ~mempool[i].call.awaited
      BY <2>1 DEF Ordered
    <3>2. CASE call.awaited
      BY <1>4, <1>6, <1>7, <3>1, <3>2 DEF Ordered
    <3>3. CASE ~call.awaited
      <4>1. Len(script[r]) # 2
        <5>1. 1 + 1 = Len(script[r]) => script[r][1].awaited
          BY <1>3, <2>1 DEF IsDeployment
        <5> QED
          BY <1>3, <3>3, <5>1
      <4>2. Len(script'[r]) # 1
        <5>1. Len(script[r]) \in Nat /\ Len(Tail(script[r])) = Len(script[r]) - 1
          BY <1>2, <1>3, LenProperties
        <5>2. Len(Tail(script[r])) # 1
          BY <4>1, <5>1
        <5> QED
          BY <1>6, <5>2
      <4>3. \A i \in SentBy(r)' : ~mempool'[i].call.awaited
        BY <1>4, <1>7, <3>1, <3>3
      <4>4. pc'[r] = "running"
        BY <1>6, <3>3
      <4> QED
        BY <4>2, <4>3, <4>4 DEF Ordered
    <3> QED
      BY <3>2, <3>3
  <2>6. Fresh(r)'
    <3>1. \A i \in SentBy(r)' : OfDeployer(mempool'[i].call)
      <4>1. OfDeployer(call)
        BY <1>3, <2>1 DEF IsDeployment
      <4> QED
        BY <1>4, <1>7, <2>1, <4>1 DEF Fresh
    <3>2. \A i \in SentBy(r) : Clear(mempool[i].call, call) /\ Clear(call, mempool[i].call)
      BY <1>3, <2>1 DEF Fresh, Clear
    <3>3. \A i, j \in SentBy(r)' : i # j => Clear(mempool'[i].call, mempool'[j].call)
      BY <1>4, <1>7, <2>1, <3>2 DEF Fresh
    <3>4. \A i \in SentBy(r)' : \A c \in Holds(script[r])' : Clear(mempool'[i].call, c)
      BY <1>3, <1>4, <1>6, <1>7, <2>1, <2>3 DEF Fresh
    <3>5. \A c \in Pending(r)' :
            c.to \in DOMAIN contracts'[r] => c.told \cap contracts'[r][c.to] = {}
      BY <2>1, <2>4 DEF Fresh
    <3> QED
      BY <3>1, <3>3, <3>4, <3>5 DEF Fresh, OfDeployer, Clear
  <2>7. Coming(r)'
    BY <2>1, <2>4 DEF Coming, Told
  <2> QED
    BY <2>1, <2>2, <2>5, <2>6, <2>7
<1>11. ASSUME NEW q \in Runs
       PROVE  (Idle(q) /\ Writing(q) /\ Targeted(q) /\ OnItsWay(q))'
  <2>1. Idle(q)' /\ Writing(q)'
    BY <1>1, <1>6, <1>7 DEF Idle, Writing, Deploying
  <2>2. Targeted(q)'
    BY <1>1, <1>8 DEF Targeted
  <2>3. OnItsWay(q)'
    BY <1>9, <1>10 DEF OnItsWay
  <2> QED
    BY <2>1, <2>2, <2>3
<1>12. Stored'
  BY <1>1, <1>8 DEF Stored, Complete, Told
<1> QED
  BY <1>5, <1>11, <1>12 DEF DeployInv

\* What is left when an element is taken out of a sequence.
LEMMA Removed ==
  ASSUME NEW S, NEW m \in Seq(S), NEW i \in 1 .. Len(m)
  PROVE  LET t == SubSeq(m, 1, i - 1) \o SubSeq(m, i + 1, Len(m))
         IN  /\ t \in Seq(S) /\ Len(t) = Len(m) - 1
             /\ \A j \in 1 .. Len(m) - 1 : t[j] = m[IF j < i THEN j ELSE j + 1]
<1> DEFINE a == SubSeq(m, 1, i - 1)
           b == SubSeq(m, i + 1, Len(m))
           t == a \o b
<1>1. Len(m) \in Nat /\ \A j \in 1 .. Len(m) : m[j] \in S
  BY ElementOfSeq, LenProperties
<1>2. /\ a \in Seq(S) /\ Len(a) = i - 1
      /\ \A j \in 1 .. i - 1 : a[j] = m[j]
  <2>1. /\ 1 \in Int /\ i - 1 \in Int
        /\ \A j \in 1 .. i - 1 : m[j] \in S
    BY <1>1
  <2>2. /\ a \in Seq(S) /\ Len(a) = IF 1 <= i - 1 THEN (i - 1) - 1 + 1 ELSE 0
        /\ \A j \in 1 .. (i - 1) - 1 + 1 : a[j] = m[1 + j - 1]
    BY <2>1, SubSeqProperties
  <2> HIDE DEF a
  <2> QED
    BY <1>1, <2>2
<1>3. /\ b \in Seq(S) /\ Len(b) = Len(m) - i
      /\ \A j \in 1 .. Len(m) - i : b[j] = m[i + j]
  <2>1. /\ i + 1 \in Int /\ Len(m) \in Int
        /\ \A j \in i + 1 .. Len(m) : m[j] \in S
    BY <1>1
  <2>2. /\ b \in Seq(S) /\ Len(b) = IF i + 1 <= Len(m) THEN Len(m) - (i + 1) + 1 ELSE 0
        /\ \A j \in 1 .. Len(m) - (i + 1) + 1 : b[j] = m[(i + 1) + j - 1]
    BY <2>1, SubSeqProperties
  <2> HIDE DEF b
  <2>3. Len(b) = Len(m) - i
    BY <1>1, <2>2
  <2>4. \A j \in 1 .. Len(m) - i : b[j] = m[i + j]
    <3> SUFFICES ASSUME NEW j \in 1 .. Len(m) - i
                 PROVE  b[j] = m[i + j]
      OBVIOUS
    <3>1. (i + 1) + j - 1 = i + j /\ j \in 1 .. Len(m) - (i + 1) + 1
      BY <1>1
    <3> QED
      BY <2>2, <3>1
  <2> QED
    BY <2>2, <2>3, <2>4
<1> HIDE DEF a, b
<1>4. /\ t \in Seq(S) /\ Len(t) = Len(a) + Len(b)
      /\ \A j \in 1 .. Len(a) + Len(b) : t[j] = IF j <= Len(a) THEN a[j] ELSE b[j - Len(a)]
  <2>1. a \in Seq(S) /\ b \in Seq(S)
    BY <1>2, <1>3
  <2> QED
    BY <2>1, ConcatProperties
<1> HIDE DEF t
<1>5. Len(t) = Len(m) - 1
  <2>1. Len(t) = Len(a) + Len(b) /\ Len(a) = i - 1 /\ Len(b) = Len(m) - i
    BY <1>2, <1>3, <1>4
  <2> QED
    BY <1>1, <2>1
<1>6. ASSUME NEW j \in 1 .. Len(m) - 1
      PROVE  t[j] = m[IF j < i THEN j ELSE j + 1]
  <2>1. CASE j < i
    <3>1. j \in 1 .. i - 1 /\ j \in 1 .. Len(a) + Len(b) /\ j <= Len(a)
      BY <1>1, <1>2, <1>3, <2>1
    <3> QED
      BY <1>2, <1>4, <2>1, <3>1
  <2>2. CASE ~(j < i)
    <3>1. /\ j - (i - 1) \in 1 .. Len(m) - i /\ i + (j - (i - 1)) = j + 1
          /\ j \in 1 .. Len(a) + Len(b) /\ ~(j <= Len(a))
      BY <1>1, <1>2, <1>3, <2>2
    <3>2. t[j] = b[j - (i - 1)]
      BY <1>2, <1>4, <3>1
    <3> QED
      BY <1>3, <2>2, <3>1, <3>2
  <2> QED
    BY <2>1, <2>2
<1> QED
  BY <1>4, <1>5, <1>6 DEF t, a, b

\* The function from the places of the transactions after one was included to
\* those before.
Places(f, m, i) ==
  /\ \A j \in 1 .. m - 1 : f[j] = IF j < i THEN j ELSE j + 1
  /\ \A j \in 1 .. m - 1 : f[j] \in 1 .. m /\ f[j] # i
  /\ \A j, k \in 1 .. m - 1 : (j # k => f[j] # f[k]) /\ (f[k] <= f[j] => k <= j)
  /\ \A k \in 1 .. m : k # i => \E j \in 1 .. m - 1 : f[j] = k

LEMMA PlacesExist ==
  ASSUME NEW m \in Nat, NEW i \in 1 .. m
  PROVE  \E f : Places(f, m, i)
<1> DEFINE f == [j \in 1 .. m |-> IF j < i THEN j ELSE j + 1]
<1>1. \A j \in 1 .. m - 1 : f[j] = IF j < i THEN j ELSE j + 1
  OBVIOUS
<1> HIDE DEF f
<1>2. ASSUME NEW k \in 1 .. m, k # i
      PROVE  \E j \in 1 .. m - 1 : f[j] = k
  <2>1. CASE k < i
    <3>1. k \in 1 .. m - 1
      BY <2>1
    <3> QED
      BY <1>1, <2>1, <3>1
  <2>2. CASE k > i
    <3>1. k - 1 \in 1 .. m - 1 /\ ~(k - 1 < i) /\ (k - 1) + 1 = k
      BY <2>2
    <3> QED
      BY <1>1, <3>1
  <2> QED
    BY <1>2, <2>1, <2>2
<1>3. \A j \in 1 .. m - 1 : f[j] \in 1 .. m /\ f[j] # i
  BY <1>1
<1>4. ASSUME NEW j \in 1 .. m - 1, NEW k \in 1 .. m - 1
      PROVE  (j # k => f[j] # f[k]) /\ (f[k] <= f[j] => k <= j)
  <2>1. /\ f[j] = IF j < i THEN j ELSE j + 1
        /\ f[k] = IF k < i THEN k ELSE k + 1
    BY <1>1
  <2> QED
    BY <2>1
<1> QED
  BY <1>1, <1>2, <1>3, <1>4 DEF Places

\* A transaction is included; one of a deployment is accepted.
LEMMA IncludeStep ==
  ASSUME DeployInv, NEW i \in DOMAIN mempool, Include(i),
         NEW call, call = mempool[i].call, NEW r, r = mempool[i].by,
         NEW s, s = system[r]
  PROVE  DeployInv'
<1> DEFINE grown(state) ==
             [c \in DOMAIN state \cup {call.to} |->
                (IF c \in DOMAIN state THEN state[c] ELSE {})
                  \cup (IF c = call.to THEN call.told ELSE {})]
<1>1. Typed /\ Stored
      /\ \A q \in Runs : Idle(q) /\ Writing(q) /\ Targeted(q) /\ OnItsWay(q)
  BY DEF DeployInv
<1>2. PICK m \in Nat :
        /\ m = Len(mempool) /\ DOMAIN mempool = 1 .. m
        /\ mempool \in Seq([call : Call, by : Runs])
  BY <1>1, LenProperties DEF Typed
<1>3. i \in 1 .. m /\ call \in Call /\ r \in Runs /\ i \in SentBy(r)
  <2>1. mempool[i] \in [call : Call, by : Runs]
    BY <1>2, ElementOfSeq
  <2> QED
    BY <1>2, <2>1 DEF SentBy
<1>4. /\ \A j \in 1 .. i - 1 : mempool[j].call.from # call.from
      /\ UNCHANGED <<script, system, file>>
      /\ \/ /\ Accepted(call, s)
            /\ contracts' = [contracts EXCEPT ![s] = grown(@)]
            /\ pc' = [pc EXCEPT ![r] = IF call.awaited /\ @ = "waiting" THEN "running" ELSE @]
         \/ /\ ~Accepted(call, s)
            /\ pc' = [pc EXCEPT ![r] = IF call.awaited /\ @ = "waiting" THEN "failed" ELSE @]
            /\ contracts' = contracts
  BY DEF Include
<1>5. PICK f : Places(f, m, i)
  BY <1>3, PlacesExist
<1>6. /\ mempool' \in Seq([call : Call, by : Runs]) /\ DOMAIN mempool' = 1 .. m - 1
      /\ \A j \in 1 .. m - 1 : mempool'[j] = mempool[f[j]]
  <2> DEFINE t == SubSeq(mempool, 1, i - 1) \o SubSeq(mempool, i + 1, Len(mempool))
  <2>1. mempool' = t
    BY DEF Include
  <2>2. i \in 1 .. Len(mempool)
    BY <1>2, <1>3
  <2>3. /\ t \in Seq([call : Call, by : Runs]) /\ Len(t) = Len(mempool) - 1
        /\ \A j \in 1 .. Len(mempool) - 1 : t[j] = mempool[IF j < i THEN j ELSE j + 1]
    BY <1>2, <2>2, Removed, Zenon
  <2> HIDE DEF t
  <2>4. DOMAIN t = 1 .. m - 1
    BY <1>2, <2>3, LenProperties
  <2> QED
    BY <1>2, <1>5, <2>1, <2>3, <2>4 DEF Places
<1>7. ASSUME NEW q \in Runs
      PROVE  /\ \A j \in SentBy(q)' : /\ j \in 1 .. m - 1 /\ f[j] \in SentBy(q) /\ f[j] # i
                                    /\ mempool'[j] = mempool[f[j]]
             /\ \A k \in SentBy(q) : k # i => \E j \in SentBy(q)' : f[j] = k
  <2>1. ASSUME NEW j \in SentBy(q)'
        PROVE  /\ j \in 1 .. m - 1 /\ f[j] \in SentBy(q) /\ f[j] # i
               /\ mempool'[j] = mempool[f[j]]
    <3>1. j \in 1 .. m - 1 /\ mempool'[j].by = q
      BY <1>6 DEF SentBy
    <3>2. f[j] \in 1 .. m /\ f[j] # i /\ mempool'[j] = mempool[f[j]]
      BY <1>5, <1>6, <3>1 DEF Places
    <3> QED
      BY <1>2, <3>1, <3>2 DEF SentBy
  <2>2. ASSUME NEW k \in SentBy(q), k # i
        PROVE  \E j \in SentBy(q)' : f[j] = k
    <3>1. k \in 1 .. m /\ mempool[k].by = q
      BY <1>2 DEF SentBy
    <3>2. PICK j \in 1 .. m - 1 : f[j] = k
      BY <1>5, <2>2, <3>1 DEF Places
    <3>3. j \in SentBy(q)'
      BY <1>6, <3>1, <3>2 DEF SentBy
    <3> QED
      BY <3>2, <3>3
  <2> QED
    BY <2>1, <2>2
<1> HIDE DEF grown
<1>8. /\ \A q \in Runs : q # r => pc'[q] = pc[q]
      /\ \/ pc'[r] = pc[r]
         \/ pc[r] = "waiting" /\ call.awaited /\ pc'[r] \in {"running", "failed"}
  BY <1>1, <1>2, <1>3, <1>4 DEF Typed
<1>9. /\ \A q \in Runs : q # s => contracts'[q] = contracts[q]
      /\ s \in Runs => contracts'[s] \in {contracts[s], grown(contracts[s])}
      /\ contracts' = [q \in Runs |-> contracts'[q]]
  BY <1>1, <1>4 DEF Typed
<1>10. Typed'
  <2>1. pc' = [q \in Runs |-> pc'[q]]
    BY <1>1, <1>4 DEF Typed
  <2>2. \A q \in Runs : pc'[q] \in {"new", "running", "waiting", "storing", "done",
                                    "failed", "killed"}
    <3>1. \A q \in Runs : pc[q] \in {"new", "running", "waiting", "storing", "done",
                                     "failed", "killed"}
      BY <1>1 DEF Typed
    <3> QED
      BY <1>8, <3>1
  <2>3. pc' \in [Runs -> {"new", "running", "waiting", "storing", "done", "failed",
                         "killed"}]
    BY <2>1, <2>2
  <2> QED
    BY <1>1, <1>4, <1>6, <1>9, <2>3 DEF Typed
<1>11. ASSUME NEW q \in Runs, IsOver(q)
       PROVE  IsOver(q)'
  BY <1>4, <1>8, <1>11 DEF IsOver, Deploying
<1>12. ASSUME NEW q \in Runs, NEW c, NEW facts, Told(q, c, facts)
       PROVE  Told(q, c, facts)'
  <2>1. CASE contracts'[q] = contracts[q]
    BY <1>12, <2>1 DEF Told
  <2>2. CASE contracts'[q] = grown(contracts[q])
    BY <1>12, <2>2 DEF Told, grown
  <2> QED
    BY <1>9, <2>1, <2>2
<1>13. ASSUME NEW q \in Runs, q # r, pc[q] = "new" \/ Deploying(q)
       PROVE  contracts'[q] = contracts[q]
  BY <1>1, <1>2, <1>3, <1>9, <1>13 DEF Targeted, IsOver
<1>14. ASSUME NEW q \in Runs, q # r
       PROVE  OnItsWay(q)'
  <2>1. CASE ~Deploying(q)
    BY <1>4, <2>1 DEF OnItsWay, Deploying
  <2>2. CASE Deploying(q)
    <3>1. i \notin SentBy(q)
      BY <1>14 DEF SentBy
    <3>2. /\ \A j \in SentBy(q)' : f[j] \in SentBy(q) /\ mempool'[j] = mempool[f[j]]
          /\ \A j, k \in SentBy(q)' : (j # k => f[j] # f[k]) /\ (f[k] <= f[j] => k <= j)
          /\ \A k \in SentBy(q) : \E j \in SentBy(q)' : f[j] = k
      BY <1>5, <1>7, <3>1 DEF Places
    <3>3. /\ script'[q] = script[q] /\ pc'[q] = pc[q]
          /\ system'[q] = system[q] /\ contracts'[q] = contracts[q]
      BY <1>4, <1>8, <1>13, <1>14, <2>2
    <3>4. Typed /\ Typed' /\ OnItsWay(q)
      BY <1>1, <1>10
    <3> QED
      BY <3>2, <3>3, <3>4, Carried
  <2> QED
    BY <2>1, <2>2
<1>15. ASSUME Deploying(r)'
       PROVE  (/\ system[r] = r /\ IsDeployment(script[r])
               /\ Ordered(r) /\ Fresh(r) /\ Coming(r))'
  <2>1. /\ s = r /\ IsDeployment(script[r])
        /\ Ordered(r) /\ Fresh(r) /\ Coming(r)
    BY <1>1, <1>2, <1>3, <1>4, <1>15 DEF OnItsWay, Deploying
  <2>2. call \in Pending(r) /\ OfDeployer(call)
    BY <1>2, <1>3, <2>1 DEF Pending, Fresh
  <2>3. Accepted(call, r)
    <3>1. call.to \in DOMAIN contracts[r] => call.told \cap contracts[r][call.to] = {}
      BY <2>1, <2>2 DEF Fresh
    <3> QED
      BY <2>2, <3>1 DEF Accepted, OfDeployer
  <2>4. /\ contracts'[r] = grown(contracts[r])
        /\ pc'[r] = IF call.awaited /\ pc[r] = "waiting" THEN "running" ELSE pc[r]
    BY <1>1, <1>2, <1>3, <1>4, <2>1, <2>3 DEF Typed
  <2>5. IsDeployment(script[r])'
    BY <1>4, <2>1
  <2>6. ASSUME pc[r] = "waiting", call.awaited, NEW j \in SentBy(r)'
        PROVE  FALSE
    <3>1. f[j] \in SentBy(r) /\ f[j] # i /\ f[j] \in 1 .. m
      BY <1>2, <1>3, <1>5, <1>7 DEF Places
    <3>2. f[j] <= i
      BY <1>2, <1>3, <2>1, <2>6, <3>1 DEF Ordered
    <3>3. f[j] \in 1 .. i - 1
      BY <1>2, <1>3, <3>1, <3>2
    <3>4. mempool[f[j]].call.from = "deployer" /\ call.from = "deployer"
      BY <2>1, <2>2, <3>1 DEF Fresh, OfDeployer
    <3> QED
      BY <1>4, <3>3, <3>4
  <2>7. Ordered(r)'
    <3>1. ASSUME pc'[r] = "waiting", NEW j \in SentBy(r)', NEW k \in SentBy(r)',
                 mempool'[j].call.awaited
          PROVE  k <= j
      <4>1. pc[r] = "waiting" /\ f[j] \in SentBy(r) /\ f[k] \in SentBy(r)
            /\ mempool[f[j]].call.awaited /\ j \in 1 .. m - 1 /\ k \in 1 .. m - 1
        BY <1>2, <1>3, <1>7, <2>4, <3>1
      <4>2. f[k] <= f[j]
        BY <2>1, <4>1 DEF Ordered
      <4> QED
        BY <1>5, <4>1, <4>2 DEF Places
    <3>2. ASSUME pc'[r] \in {"running", "storing"}, NEW j \in SentBy(r)'
          PROVE  ~mempool'[j].call.awaited /\ Len(script'[r]) # 1
      <4>1. pc[r] \in {"running", "storing"}
        BY <2>4, <2>6, <3>2
      <4> QED
        BY <1>2, <1>3, <1>4, <1>7, <2>1, <4>1 DEF Ordered
    <3> QED
      BY <3>1, <3>2 DEF Ordered
  <2>8. Holds(script'[r]) = Holds(script[r])
    BY <1>4
  <2>9. ASSUME NEW c \in Pending(r)'
        PROVE  c \in Pending(r) /\ Clear(c, call)
    <3>1. CASE c \in Holds(script[r])
      BY <1>2, <1>3, <2>1, <3>1 DEF Pending, Fresh, Clear
    <3>2. CASE c \notin Holds(script[r])
      <4>1. PICK j \in SentBy(r)' : c = mempool'[j].call
        BY <2>8, <2>9, <3>2 DEF Pending
      <4>2. f[j] \in SentBy(r) /\ f[j] # i /\ c = mempool[f[j]].call
        BY <1>2, <1>3, <1>7, <4>1
      <4> QED
        BY <1>2, <1>3, <2>1, <4>2 DEF Pending, Fresh
    <3> QED
      BY <3>1, <3>2
  <2>10. Fresh(r)'
    <3>1. \A j \in SentBy(r)' : OfDeployer(mempool'[j].call)
      BY <1>2, <1>3, <1>7, <2>1 DEF Fresh
    <3>2. ASSUME NEW j \in SentBy(r)', NEW k \in SentBy(r)', j # k
          PROVE  Clear(mempool'[j].call, mempool'[k].call)
      <4>1. /\ f[j] \in SentBy(r) /\ mempool'[j] = mempool[f[j]] /\ j \in 1 .. m - 1
            /\ f[k] \in SentBy(r) /\ mempool'[k] = mempool[f[k]] /\ k \in 1 .. m - 1
        BY <1>3, <1>7
      <4>2. f[j] # f[k]
        BY <1>5, <3>2, <4>1 DEF Places
      <4> QED
        BY <2>1, <4>1, <4>2 DEF Fresh
    <3>3. \A j \in SentBy(r)' : \A c \in Holds(script'[r]) : Clear(mempool'[j].call, c)
      BY <1>2, <1>3, <1>7, <2>1, <2>8 DEF Fresh
    <3>4. ASSUME NEW c \in Pending(r)', c.to \in DOMAIN contracts'[r]
          PROVE  c.told \cap contracts'[r][c.to] = {}
      <4>1. c.to \in DOMAIN contracts[r] => c.told \cap contracts[r][c.to] = {}
        BY <2>1, <2>9 DEF Fresh
      <4>2. c.to = call.to => c.told \cap call.told = {}
        BY <2>9 DEF Clear
      <4> QED
        BY <2>4, <3>4, <4>1, <4>2 DEF grown
    <3> QED
      BY <3>1, <3>2, <3>3, <3>4 DEF Fresh, OfDeployer, Clear
  <2>11. Coming(r)'
    <3> SUFFICES ASSUME NEW n \in Needs
                 PROVE  \/ Told(r, n.to, n.told)'
                        \/ \E c \in Pending(r)' : c.to = n.to /\ c.told = n.told
      BY DEF Coming
    <3>1. CASE Told(r, n.to, n.told)
      BY <1>2, <1>3, <1>12, <3>1
    <3>2. CASE call.to = n.to /\ call.told = n.told
      BY <2>4, <3>2 DEF Told, grown
    <3>3. ASSUME NEW c \in Pending(r), c # call, c.to = n.to, c.told = n.told
          PROVE  c \in Pending(r)'
      <4>1. CASE c \in Holds(script[r])
        BY <2>8, <4>1 DEF Pending
      <4>2. CASE c \notin Holds(script[r])
        <5>1. PICK k \in SentBy(r) : c = mempool[k].call
          BY <3>3, <4>2 DEF Pending
        <5>2. k # i
          BY <3>3, <5>1
        <5>3. PICK j \in SentBy(r)' : f[j] = k
          BY <1>2, <1>3, <1>7, <5>2
        <5>4. mempool'[j].call = c
          BY <1>2, <1>3, <1>7, <5>1, <5>3
        <5> QED
          BY <5>4 DEF Pending
      <4> QED
        BY <4>1, <4>2
    <3> QED
      BY <2>1, <3>1, <3>2, <3>3 DEF Coming
  <2> QED
    BY <1>4, <2>1, <2>5, <2>7, <2>10, <2>11
<1>16. ASSUME NEW q \in Runs
       PROVE  (Idle(q) /\ Writing(q) /\ Targeted(q) /\ OnItsWay(q))'
  <2>1. Idle(q)'
    <3> SUFFICES ASSUME pc'[q] = "new"
                 PROVE  (/\ script[q] = <<>> /\ system[q] = NoRun
                         /\ SentBy(q) = {} /\ DOMAIN contracts[q] = {})'
      BY DEF Idle
    <3>1. pc[q] = "new"
      BY <1>8
    <3>2. /\ script[q] = <<>> /\ system[q] = NoRun
          /\ SentBy(q) = {} /\ DOMAIN contracts[q] = {}
      BY <1>1, <3>1 DEF Idle
    <3>3. SentBy(q)' = {}
      BY <1>7, <3>2
    <3>4. contracts'[q] = contracts[q]
      BY <1>2, <1>3, <1>13, <3>1, <3>2
    <3> QED
      BY <1>4, <3>2, <3>3, <3>4
  <2>2. Writing(q)'
    BY <1>1, <1>4, <1>8 DEF Writing, Deploying
  <2>3. Targeted(q)'
    BY <1>1, <1>4, <1>11 DEF Targeted
  <2>4. OnItsWay(q)'
    BY <1>14, <1>15 DEF OnItsWay
  <2> QED
    BY <2>1, <2>2, <2>3, <2>4
<1>17. Stored'
  BY <1>1, <1>4, <1>11, <1>12 DEF Stored, Complete
<1> QED
  BY <1>10, <1>16, <1>17 DEF DeployInv

\* A run tries a call; one that would be refused is not sent.
LEMMA SendHolds ==
  ASSUME DeployInv, NEW r \in Runs, Send(r)
  PROVE  DeployInv'
<1> DEFINE call == Head(script[r])
<1>1. /\ pc[r] = "running" /\ script[r] # <<>> /\ call.fn # "store"
      /\ UNCHANGED <<contracts, system, file>>
  BY DEF Send
<1>2. CASE Accepted(call, system[r])
  <2>1. /\ mempool' = Append(mempool, [call |-> call, by |-> r])
        /\ script' = [script EXCEPT ![r] = Tail(@)]
        /\ pc' = [pc EXCEPT ![r] = IF call.awaited THEN "waiting" ELSE @]
    BY <1>2 DEF Send
  <2> QED
    BY <1>1, <2>1, SendStep
<1>3. CASE ~Accepted(call, system[r])
  <2>1. pc' = [pc EXCEPT ![r] = "failed"] /\ UNCHANGED <<mempool, script>>
    BY <1>3 DEF Send
  <2> QED
    BY <1>1, <2>1, PcStep
<1> QED
  BY <1>2, <1>3

\* Only the deployments store.
LEMMA StoringIsDeploying ==
  ASSUME DeployInv, NEW r \in Runs, BeginStore(r)
  PROVE  Deploying(r) /\ Len(script[r]) = 1
<1>1. script[r] \in Seq(Call) /\ script[r] # <<>> /\ OnItsWay(r)
  BY DEF DeployInv, Typed, BeginStore
<1>2. /\ Storing = script[r][1] /\ Storing \in Holds(script[r])
      /\ 1 \in 1 .. Len(script[r])
  BY <1>1, TailHolds DEF BeginStore
<1>3. IsDeployment(script[r]) /\ Deploying(r)
  BY <1>1, <1>2 DEF OnItsWay, Deploying
<1>4. script[r][1].fn = "store" => 1 = Len(script[r])
  BY <1>2, <1>3 DEF IsDeployment
<1> QED
  BY <1>2, <1>3, <1>4, CallTypes

LEMMA BeginsHold ==
  ASSUME DeployInv, NEW r \in Runs,
         BeginDeploy(r) \/ BeginFixture(r) \/ BeginChain(r) \/ BeginInit(r)
  PROVE  DeployInv'
<1>1. ASSUME NEW dummy \in BOOLEAN, Begin(r, r, DeployScript(dummy))
      PROVE  DeployInv'
  BY <1>1, DeployScriptProperties, BeginStep
<1>2. ASSUME NEW calls \in Seq(ContractCall), NEW target \in Runs,
             target # r => IsOver(target), Begin(r, target, calls)
      PROVE  DeployInv'
  BY <1>2, PlainIsStoringFree, BeginStep
<1>3. CASE BeginDeploy(r)
  BY <1>1, <1>3 DEF BeginDeploy
<1>4. CASE BeginFixture(r)
  BY <1>2, <1>4, OtherScripts DEF BeginFixture
<1>5. CASE BeginChain(r)
  BY <1>2, <1>5, OtherScripts DEF BeginChain
<1>6. CASE BeginInit(r)
  <2>1. file \in Runs /\ IsOver(file) /\ Begin(r, file, initContracts)
    BY <1>6 DEF BeginInit, DeployInv, Stored
  <2> QED
    BY <1>2, <2>1, OtherScripts
<1> QED
  BY <1>3, <1>4, <1>5, <1>6

LEMMA NextHolds == DeployInv /\ [Next]_vars => DeployInv'
<1> SUFFICES ASSUME DeployInv, [Next]_vars
             PROVE  DeployInv'
  OBVIOUS
<1>1. ASSUME NEW r \in Runs,
             BeginDeploy(r) \/ BeginFixture(r) \/ BeginChain(r) \/ BeginInit(r)
      PROVE  DeployInv'
  BY <1>1, BeginsHold
<1>2. ASSUME NEW r \in Runs, Send(r)
      PROVE  DeployInv'
  BY <1>2, SendHolds
<1>3. ASSUME NEW r \in Runs, BeginStore(r)
      PROVE  DeployInv'
  <2>1. Deploying(r) /\ Len(script[r]) = 1
    BY <1>3, StoringIsDeploying
  <2>2. /\ pc[r] = "running" /\ pc' = [pc EXCEPT ![r] = "storing"]
        /\ UNCHANGED <<contracts, mempool, script, system>> /\ file' = Torn
    BY <1>3 DEF BeginStore
  <2> QED
    BY <2>1, <2>2, PcStep
<1>4. ASSUME NEW r \in Runs, EndStore(r)
      PROVE  DeployInv'
  BY <1>4, EndStoreStep
<1>5. ASSUME NEW r \in Runs, Finish(r)
      PROVE  DeployInv'
  <2>1. /\ pc[r] = "running" /\ pc' = [pc EXCEPT ![r] = "done"]
        /\ UNCHANGED <<contracts, mempool, script, system, file>>
    BY <1>5 DEF Finish
  <2> QED
    BY <2>1, PcStep
<1>6. ASSUME NEW r \in Runs, Kill(r)
      PROVE  DeployInv'
  <2>1. /\ pc[r] # "new" /\ pc' = [pc EXCEPT ![r] = "killed"]
        /\ UNCHANGED <<contracts, mempool, script, system, file>>
    BY <1>6 DEF Kill
  <2> QED
    BY <2>1, PcStep
<1>7. ASSUME NEW i \in DOMAIN mempool, Include(i)
      PROVE  DeployInv'
  BY <1>7, IncludeStep
<1>8. CASE UNCHANGED vars
  <2>1. /\ contracts' = contracts /\ mempool' = mempool /\ script' = script
        /\ pc' = pc /\ system' = system /\ file' = file
    BY <1>8 DEF vars
  <2>2. Typed /\ Stored
        /\ \A q \in Runs : Idle(q) /\ Writing(q) /\ Targeted(q) /\ OnItsWay(q)
    BY DEF DeployInv
  <2>3. Typed'
    BY <2>1, <2>2 DEF Typed
  <2>4. \A q \in Runs : SentBy(q)' = SentBy(q)
    BY <2>1 DEF SentBy
  <2>5. ASSUME NEW q \in Runs
        PROVE  (Idle(q) /\ Writing(q) /\ Targeted(q) /\ OnItsWay(q))'
    <3>1. Idle(q)' /\ Writing(q)' /\ Targeted(q)'
      BY <2>1, <2>2, <2>4 DEF Idle, Writing, Targeted, IsOver, Deploying
    <3>2. OnItsWay(q)'
      BY <2>1, <2>2, <2>3, <2>4, Unmoved
    <3> QED
      BY <3>1, <3>2
  <2>6. Stored'
    BY <2>1, <2>2 DEF Stored, IsOver, Deploying, Complete, Told
  <2> QED
    BY <2>3, <2>5, <2>6 DEF DeployInv
<1> QED
  BY <1>1, <1>2, <1>3, <1>4, <1>5, <1>6, <1>7, <1>8 DEF Next, RunStep

-----------------------------------------------------------------------------
\* In every state, a deployment that has not written its file waits for its
\* last transaction or for none, nothing that it sent will be refused, and what
\* its contracts must be told was told, or is sent or in its script; and a
\* deployment that was written down is over and complete.
THEOREM Invariance == Spec => []DeployInv
BY InitHolds, NextHolds, PTL DEF Spec

\* However many deployments, test suites and initializations run beside one
\* another, and whichever are killed: the file, when it is whole, names
\* contracts that are created, initialized and told of one another, although
\* deployMainSystem does not wait for setSuperblockClaims.
THEOREM StoredIsCompleteHolds == Spec => []StoredIsComplete
<1>1. DeployInv => StoredIsComplete
  <2> SUFFICES ASSUME DeployInv, file \in Runs
               PROVE  Wired(file) /\ Told(file, "dogeToken", InitArguments["dogeToken"])
    BY DEF StoredIsComplete
  <2>1. \A n \in Needs : Told(file, n.to, n.told)
    BY DEF DeployInv, Stored, Complete
  <2>2. /\ Told(file, "superblocks", {"superblockClaims"})
        /\ Told(file, "battleManager", InitArguments["battleManager"])
        /\ Told(file, "battleManager", {"superblockClaims"})
        /\ Told(file, "superblockClaims", InitArguments["superblockClaims"])
        /\ Told(file, "dogeToken", InitArguments["dogeToken"])
    BY <2>1 DEF Needs
  <2>3. Told(file, "battleManager", InitArguments["battleManager"] \cup {"superblockClaims"})
    BY <2>2 DEF Told
  <2> QED
    BY <2>2, <2>3 DEF Wired
<1> QED
  BY <1>1, Invariance, PTL

\* The deployment of run r is written down and no other is under way.
Settled(r) == file = r /\ \A q \in Runs \ {r} : ~Underway(q)

LEMMA SettledStays ==
  ASSUME NEW r \in Runs, DeployInv, Settled(r), [Next]_vars
  PROVE  Settled(r)'
<1>1. \A q \in Runs \ {r} : pc[q] # "new" => ~Deploying(q)
  BY DEF Settled, Underway, Deploying, Holds
<1>2. /\ \A q \in Runs : Writing(q) /\ script[q] \in Seq(Call)
      /\ IsOver(r) /\ file = r /\ file # NoRun
  BY DEF DeployInv, Typed, Stored, Settled
<1>3. \A q \in Runs : pc[q] # "new" => ~Deploying(q)
  BY <1>1, <1>2 DEF IsOver
<1>4. SUFFICES file' = file
               /\ \A q \in Runs \ {r} : pc'[q] # "new" => ~Deploying(q)'
  BY <1>2, <1>4 DEF Settled, Underway, Deploying, Holds
<1>5. ASSUME NEW q \in Runs, NEW target, NEW calls \in Seq(ContractCall),
             Begin(q, target, calls)
      PROVE  file' = file /\ \A p \in Runs : pc'[p] # "new" => ~Deploying(p)'
  <2>1. Storing \notin Holds(calls)
    BY PlainIsStoringFree
  <2>2. /\ file' = file /\ script' = [script EXCEPT ![q] = calls]
        /\ pc' = [pc EXCEPT ![q] = "running"]
    BY <1>5 DEF Begin
  <2>3. script \in [Runs -> Seq(Call)] /\ pc = [p \in Runs |-> pc[p]]
    BY DEF DeployInv, Typed
  <2> QED
    BY <1>3, <2>1, <2>2, <2>3 DEF Deploying
<1>6. ASSUME NEW q \in Runs,
             BeginDeploy(q) \/ BeginFixture(q) \/ BeginChain(q) \/ BeginInit(q)
      PROVE  file' = file /\ \A p \in Runs : pc'[p] # "new" => ~Deploying(p)'
  <2>1. ~BeginDeploy(q)
    BY <1>2 DEF BeginDeploy
  <2> QED
    BY <1>5, <1>6, <2>1, OtherScripts DEF BeginFixture, BeginChain, BeginInit
<1>7. ASSUME NEW q \in Runs, Send(q)
      PROVE  file' = file /\ \A p \in Runs : pc'[p] # "new" => ~Deploying(p)'
  <2>1. /\ file' = file /\ pc[q] = "running" /\ script[q] # <<>>
        /\ script' \in {script, [script EXCEPT ![q] = Tail(@)]}
        /\ \A p \in Runs \ {q} : pc'[p] = pc[p]
    BY <1>7 DEF Send, DeployInv, Typed
  <2>2. Holds(Tail(script[q])) \subseteq Holds(script[q])
    BY <1>2, <2>1, TailHolds
  <2>3. \A p \in Runs :
          script'[p] = script[p] \/ (p = q /\ script'[p] = Tail(script[p]))
    BY <2>1 DEF DeployInv, Typed
  <2> QED
    BY <1>3, <2>1, <2>2, <2>3 DEF Deploying
<1>8. \A q \in Runs : ~BeginStore(q)
  BY <1>3, StoringIsDeploying DEF BeginStore
<1>9. \A q \in Runs : ~EndStore(q)
  BY <1>2, <1>3 DEF EndStore, Writing
<1>10. ASSUME NEW q \in Runs, Finish(q) \/ Kill(q)
       PROVE  file' = file /\ \A p \in Runs : pc'[p] # "new" => ~Deploying(p)'
  <2>1. /\ file' = file /\ script' = script /\ pc[q] # "new"
        /\ \A p \in Runs \ {q} : pc'[p] = pc[p]
    BY <1>10 DEF Finish, Kill, DeployInv, Typed
  <2> QED
    BY <1>3, <2>1 DEF Deploying
<1>11. ASSUME NEW i \in DOMAIN mempool, Include(i)
       PROVE  file' = file /\ \A p \in Runs : pc'[p] # "new" => ~Deploying(p)'
  <2>1. /\ file' = file /\ script' = script
    BY <1>11 DEF Include
  <2>2. \A p \in Runs : pc'[p] # "new" => pc[p] # "new"
    BY <1>11 DEF Include, DeployInv, Typed
  <2> QED
    BY <1>3, <2>1, <2>2 DEF Deploying
<1>12. CASE UNCHANGED vars
  BY <1>3, <1>12 DEF vars, Deploying
<1> QED
  BY <1>6, <1>7, <1>8, <1>9, <1>10, <1>11, <1>12 DEF Next, RunStep

\* The deployment that is written down is never replaced, once no other is
\* under way: not by one that is begun later, nor by what a test suite or an
\* initialization does.
THEOREM StoredIsKeptHolds == Spec => StoredIsKept
<1>1. ASSUME NEW r \in Runs
      PROVE  Spec => [](Settled(r) => [](file = r))
  <2>1. DeployInv /\ Settled(r) /\ [Next]_vars => Settled(r)'
    BY SettledStays
  <2>2. Settled(r) => file = r
    BY DEF Settled
  <2> QED
    BY <2>1, <2>2, Invariance, PTL DEF Spec
<1> QED
  BY <1>1 DEF StoredIsKept, Settled
=============================================================================
