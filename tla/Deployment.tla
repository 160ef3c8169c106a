------------------------------ MODULE Deployment ------------------------------
(***************************************************************************)
(* deploy/index.ts, scripts/deployDogethereum.ts and                       *)
(* scripts/initContracts.ts: how the contracts of the system are created,  *)
(* told of one another, written down and brought into use.  A script sends *)
(* transactions; for some it waits and for others not.  It may be killed   *)
(* at any point, and others may run after it and beside it.                *)
(*                                                                         *)
(* A contract is a name in the run that created it, and its state the set  *)
(* of what it was told: the contracts of that run it is to trust, and what *)
(* brings it into use.  A contract behind a proxy is created with its      *)
(* initialization, in one transaction of the deployer's plugin.            *)
(***************************************************************************)
EXTENDS Integers, Sequences, FiniteSets

CONSTANTS
  Runs,    \* runs of scripts, each a process
  NoRun,
  mayRun   \* run -> the scripts it may be a run of

Torn == "torn"   \* the file is being written, or its writer was killed then

ASSUME RunsAssumption == NoRun \notin Runs /\ Torn \notin Runs \cup {NoRun}
ASSUME MayRunAssumption ==
  mayRun \in [Runs -> SUBSET {"deploy", "deploy_dummy", "fixture",
                              "chain", "chain_dummy", "init"}]

VARIABLES
  contracts,   \* run -> contract it created -> what that was told
  mempool,     \* transactions that wait to be included, oldest first
  script,      \* run -> the calls it still makes
  pc,          \* run -> where it is
  system,      \* run -> the run whose contracts it works on
  file         \* deployment.json: NoRun, Torn, or whose contracts are in it

vars == <<contracts, mempool, script, pc, system, file>>

-----------------------------------------------------------------------------
(* The scripts, as the calls they make.                                    *)

Creation(c, told, confirmations) ==
  [to |-> c, fn |-> "create", from |-> "deployer", told |-> told,
   awaited |-> confirmations > 0]

Telling(c, from, told, awaited) ==
  [to |-> c, fn |-> "call", from |-> from, told |-> told, awaited |-> awaited]

Storing == [to |-> "file", fn |-> "store", from |-> "deployer", told |-> {},
            awaited |-> TRUE]

\* What initialize is given of other contracts.
InitArguments ==
  [battleManager |-> {"superblocks", "scryptChecker"},
   superblockClaims |-> {"superblocks", "battleManager"},
   dogeToken |-> {"superblocks", "dogeUsdOracle", "ethUsdOracle"},
   superblocks |-> {"genesis"},
   scryptChecker |-> {"scryptVerifier"}]

\* deployPlain; wait(0) does not wait.
deployPlain(c, options) == <<Creation(c, {}, options.confirmations)>>

deployPlainWithInit(c, options) ==
  <<Creation(c, {}, options.confirmations),
    Telling(c, "deployer", InitArguments[c], options.confirmations > 0)>>

deployProxy(c, options) ==
  <<Creation(c, InitArguments[c], options.confirmations)>>

deployPrimitive(c, options) ==
  IF options.useProxy THEN deployProxy(c, options)
                      ELSE deployPlainWithInit(c, options)

\* Neither call is waited for.
Wiring ==
  <<Telling("superblocks", "deployer", {"superblockClaims"}, FALSE),
    Telling("battleManager", "deployer", {"superblockClaims"}, FALSE)>>

deployMainSystem(options) ==
  <<Creation("dogeMessageLibrary", {}, 0)>>
    \o deployPlain("superblocks", options)
    \o deployPrimitive("battleManager", options)
    \o deployPrimitive("superblockClaims", options)
    \o Wiring

deployToken(options) ==
  deployPlain("setLibrary", options) \o deployPrimitive("dogeToken", options)

\* No caller gives deployDogethereum the addresses of oracles: the script has
\* those of mainnet, for which getSuperblockchainOptions has no options.
deployOracleMocks(options) ==
  deployPlain("dogeUsdOracle", options) \o deployPlain("ethUsdOracle", options)

\* Mutant: the contracts are told of the claims last.
deployDogethereumWiredLast(options) ==
  deployOracleMocks(options)
    \o SubSeq(deployMainSystem(options), 1, Len(deployMainSystem(options)) - 2)
    \o deployToken(options)
    \o Wiring

deployDogethereum(options) ==
  deployOracleMocks(options) \o deployMainSystem(options) \o deployToken(options)

deployOrGetScryptChecker(dummyChecker) ==
  IF dummyChecker THEN <<Creation("scryptChecker", {}, 0)>> ELSE <<>>

DeployScript(dummyChecker) ==
  deployOrGetScryptChecker(dummyChecker)
    \o deployDogethereum([useProxy |-> TRUE, confirmations |-> 1])
    \o <<Storing>>

FixtureOptions == [useProxy |-> FALSE, confirmations |-> 0]

\* deployFixture, in a test suite.
deployFixture ==
  deployOrGetScryptChecker(TRUE) \o deployDogethereum(FixtureOptions)

\* initSuperblockChain, which writes no file either.
initSuperblockChain(dummyChecker) ==
  <<Creation("dogeMessageLibrary", {}, 0)>>
    \o deployPlainWithInit("superblocks", FixtureOptions)
    \o (IF dummyChecker THEN <<Creation("scryptChecker", {}, 0)>>
        ELSE <<Creation("scryptVerifier", {}, 0)>>
               \o deployPlainWithInit("scryptChecker", FixtureOptions))
    \o deployPlainWithInit("battleManager", FixtureOptions)
    \o deployPlainWithInit("superblockClaims", FixtureOptions)
    \o Wiring

\* Mutant: the operator deposits before it registers.
initContractsDepositFirst ==
  <<Telling("dogeToken", "operator", {"operatorDeposit"}, TRUE),
    Telling("dogeToken", "operator", {"operator"}, TRUE),
    Telling("superblocks", "deployer", {"genesis"}, FALSE)>>

\* initContracts: the operator registers and deposits, and is waited for; the
\* genesis superblock is not.
initContracts ==
  <<Telling("dogeToken", "operator", {"operator"}, TRUE),
    Telling("dogeToken", "operator", {"operatorDeposit"}, TRUE),
    Telling("superblocks", "deployer", {"genesis"}, FALSE)>>

-----------------------------------------------------------------------------
Init ==
  /\ contracts = [r \in Runs |-> [c \in {} |-> {}]]
  /\ mempool = <<>>
  /\ script = [r \in Runs |-> <<>>]
  /\ pc = [r \in Runs |-> "new"]
  /\ system = [r \in Runs |-> NoRun]
  /\ file = NoRun

Begin(r, target, calls) ==
  /\ pc[r] = "new"
  /\ pc' = [pc EXCEPT ![r] = "running"]
  /\ system' = [system EXCEPT ![r] = target]
  /\ script' = [script EXCEPT ![r] = calls]
  /\ UNCHANGED <<contracts, mempool, file>>

\* Mutant: a deployment that exists is not looked for.
BeginDeployAnyway(r) ==
  \/ "deploy" \in mayRun[r] /\ Begin(r, r, DeployScript(FALSE))
  \/ "deploy_dummy" \in mayRun[r] /\ Begin(r, r, DeployScript(TRUE))

\* main of deployDogethereum.ts refuses when the file exists.
BeginDeploy(r) ==
  /\ file = NoRun
  /\ \/ "deploy" \in mayRun[r] /\ Begin(r, r, DeployScript(FALSE))
     \/ "deploy_dummy" \in mayRun[r] /\ Begin(r, r, DeployScript(TRUE))

BeginFixture(r) == "fixture" \in mayRun[r] /\ Begin(r, r, deployFixture)

BeginChain(r) ==
  \/ "chain" \in mayRun[r] /\ Begin(r, r, initSuperblockChain(FALSE))
  \/ "chain_dummy" \in mayRun[r] /\ Begin(r, r, initSuperblockChain(TRUE))

\* loadDeployment fails unless the file is there, and whole.
BeginInit(r) ==
  "init" \in mayRun[r] /\ file \in Runs /\ Begin(r, file, initContracts)

-----------------------------------------------------------------------------
\* The call is accepted in this state: initialize and setSuperblockClaims once,
\* addOperator once, addOperatorDeposit of the operator.
Accepted(call, s) ==
  LET told == UNION {contracts[s][c] : c \in DOMAIN contracts[s] \cap {call.to}}
  IN  IF call.told = {"operatorDeposit"} THEN "operator" \in told
                                         ELSE call.told \cap told = {}

\* A call of a contract waits until it is created, and is refused when it would
\* revert.
Send(r) ==
  /\ pc[r] = "running"
  /\ script[r] # <<>>
  /\ LET call == Head(script[r])
     IN  /\ call.fn # "store"
         /\ IF call.fn = "call" THEN call.to \in DOMAIN contracts[system[r]] ELSE TRUE
         /\ IF Accepted(call, system[r])
            THEN /\ mempool' = Append(mempool, [call |-> call, by |-> r])
                 /\ script' = [script EXCEPT ![r] = Tail(@)]
                 /\ pc' = [pc EXCEPT ![r] = IF call.awaited THEN "waiting" ELSE @]
            ELSE /\ pc' = [pc EXCEPT ![r] = "failed"]
                 /\ UNCHANGED <<mempool, script>>
  /\ UNCHANGED <<contracts, system, file>>

\* A transaction is included, after those its account sent before; one that
\* reverts is an error to the script that waits for it.
Include(i) ==
  /\ \A j \in 1 .. i - 1 : mempool[j].call.from # mempool[i].call.from
  /\ mempool' = SubSeq(mempool, 1, i - 1) \o SubSeq(mempool, i + 1, Len(mempool))
  /\ LET call == mempool[i].call
         r == mempool[i].by
         s == system[r]
         after(state) == [pc EXCEPT ![r] =
           IF call.awaited /\ @ = "waiting" THEN state ELSE @]
     IN  \/ /\ Accepted(call, s)
            /\ contracts' = [contracts EXCEPT ![s] =
                 [c \in DOMAIN @ \cup {call.to} |->
                    (IF c \in DOMAIN @ THEN @[c] ELSE {})
                      \cup (IF c = call.to THEN call.told ELSE {})]]
            /\ pc' = after("running")
         \/ /\ ~Accepted(call, s)
            /\ pc' = after("failed")
            /\ UNCHANGED contracts
  /\ UNCHANGED <<script, system, file>>

\* storeDeployment: the file is not there as a whole at once.
BeginStore(r) ==
  /\ pc[r] = "running"
  /\ script[r] # <<>> /\ Head(script[r]) = Storing
  /\ pc' = [pc EXCEPT ![r] = "storing"]
  /\ file' = Torn
  /\ UNCHANGED <<contracts, mempool, script, system>>

EndStore(r) ==
  /\ pc[r] = "storing"
  /\ pc' = [pc EXCEPT ![r] = "running"]
  /\ script' = [script EXCEPT ![r] = Tail(@)]
  /\ file' = system[r]
  /\ UNCHANGED <<contracts, mempool, system>>

Finish(r) ==
  /\ pc[r] = "running"
  /\ script[r] = <<>>
  /\ pc' = [pc EXCEPT ![r] = "done"]
  /\ UNCHANGED <<contracts, mempool, script, system, file>>

Kill(r) ==
  /\ pc[r] \in {"running", "waiting", "storing"}
  /\ pc' = [pc EXCEPT ![r] = "killed"]
  /\ UNCHANGED <<contracts, mempool, script, system, file>>

RunStep(r) == Send(r) \/ BeginStore(r) \/ EndStore(r) \/ Finish(r)

Next ==
  \/ \E r \in Runs : BeginDeploy(r)
  \/ \E r \in Runs : BeginFixture(r)
  \/ \E r \in Runs : BeginChain(r)
  \/ \E r \in Runs : BeginInit(r)
  \/ \E r \in Runs : RunStep(r)
  \/ \E i \in DOMAIN mempool : Include(i)
  \/ \E r \in Runs : Kill(r)

\* A script that was begun goes on, and what was sent is included.
Fairness ==
  /\ \A r \in Runs : WF_vars(RunStep(r))
  /\ WF_vars(\E i \in DOMAIN mempool : Include(i))

Spec == Init /\ [][Next]_vars /\ Fairness

-----------------------------------------------------------------------------
(* Properties.                                                             *)

\* A contract of run s was told all of this.
Told(s, c, facts) == c \in DOMAIN contracts[s] /\ facts \subseteq contracts[s][c]

\* The contracts of run s know one another as the system needs it.
Wired(s) ==
  /\ Told(s, "superblocks", {"superblockClaims"})
  /\ Told(s, "battleManager", InitArguments["battleManager"] \cup {"superblockClaims"})
  /\ Told(s, "superblockClaims", InitArguments["superblockClaims"])

InUse(s) ==
  /\ Wired(s)
  /\ Told(s, "superblocks", {"genesis"})
  /\ Told(s, "dogeToken", {"operator", "operatorDeposit"})

\* The contracts deployment.json names are created, initialized and told of one
\* another (storeDeployment): setSuperblockClaims is not waited for, and the
\* file is whole only after it took effect.
StoredIsComplete ==
  file \in Runs =>
    Wired(file) /\ Told(file, "dogeToken", InitArguments["dogeToken"])

\* "We support only one deployment for each network": the deployment that is
\* written down is never replaced, once no other deployment is under way (main
\* of deployDogethereum.ts looks for the file once, when it starts).
Underway(r) == pc[r] # "new" /\ Storing \in {script[r][i] : i \in DOMAIN script[r]}

StoredIsKept ==
  \A r \in Runs :
    [](file = r /\ (\A q \in Runs \ {r} : ~Underway(q)) => [](file = r))

\* A deployment that was begun and the initialization of one end with a system
\* that works, unless a run is killed (deployDogethereum, initSuperblockChain,
\* initContracts): what is not waited for takes effect, also when two runs
\* initialize the same deployment.
ComesUp ==
  \A r \in Runs :
    /\ (system[r] = r) ~> (Wired(r) \/ \E q \in Runs : pc[q] = "killed")
    /\ \A s \in Runs \ {r} :
         (system[r] = s) ~> (InUse(s) \/ \E q \in Runs : pc[q] = "killed")
=============================================================================
