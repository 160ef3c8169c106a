---------------------------- MODULE ChallengeTask ----------------------------
(***************************************************************************)
(* tasks/superblock-cli.ts: the command line task that challenges a        *)
(* superblock, the one named by its option or else the next one proposed,  *)
(* beside everybody else who uses the contracts; and what the status task  *)
(* shows of the queue of challengers.                                      *)
(*                                                                         *)
(* The task reads the chain, waits for events and sends two transactions;  *)
(* between any two of its awaits others go on, its own account among them. *)
(* A transaction that would revert is refused when it is sent; one that    *)
(* was sent may still revert when it is included.  The task waits for the  *)
(* receipt of its challenge and not for that of its deposit, but the two   *)
(* are included in order.                                                  *)
(***************************************************************************)
EXTENDS SuperblockClaims

CONSTANTS
  Signer,           \* the account of the task, one of Accounts
  WantedOptions,    \* values of superblockId, NoSuperblock when not given
  DepositOptions,   \* values of deposit, NoDeposit when not given
  NoDeposit,
  defaultDeposit    \* deposited when there is none and none is asked for

ASSUME SignerAssumption ==
  Signer \in Accounts /\ WantedOptions \subseteq Superblocks \cup {NoSuperblock}
ASSUME DepositsAssumption ==
  defaultDeposit \in Nat /\ DepositOptions \subseteq Nat \cup {NoDeposit}

VARIABLES
  step,         \* the await the task is at
  wanted,       \* the superblock it is to challenge, if that was given
  depositing,   \* its deposit that is sent and not yet included, or 0
  seenBest,     \* the best superblock when it looked
  target,       \* the superblock it is going to challenge
  battle        \* the battle that its challenge began: none or one session

taskVars == <<step, wanted, depositing, seenBest, target, battle>>
allVars == <<vars, taskVars>>

Steps == {"start", "best", "status", "subscribe", "listen", "send", "receipt",
          "queued", "battle", "failed", "exited"}

TaskInit ==
  /\ Init
  /\ step = "start"
  /\ wanted \in WantedOptions
  /\ depositing = 0
  /\ seenBest = NoSuperblock
  /\ target = NoSuperblock
  /\ battle = {}

-----------------------------------------------------------------------------
\* challengeNextSuperblock: a deposit is made if one is given, or if there is
\* none yet.
SendDeposit(option) ==
  /\ step = "start"
  /\ LET amount == IF option # NoDeposit THEN option
                   ELSE IF deposits[Signer] = 0 THEN defaultDeposit ELSE 0
     IN  depositing' = amount
  /\ step' = "best"
  /\ UNCHANGED <<vars, wanted, seenBest, target, battle>>

IncludeDeposit ==
  /\ depositing > 0
  /\ MakeDeposit(Signer, depositing)
  /\ depositing' = 0
  /\ UNCHANGED <<step, wanted, seenBest, target, battle>>

ReadBest ==
  /\ step = "best"
  /\ seenBest' = bestSuperblock
  /\ step' = IF wanted # NoSuperblock THEN "status" ELSE "subscribe"
  /\ UNCHANGED <<vars, wanted, depositing, target, battle>>

\* nextSuperblockEvent: a superblock that is there is not waited for.
CheckStatus ==
  /\ step = "status"
  /\ IF SB!StatusOf(wanted) # "Uninitialized"
     THEN target' = wanted /\ step' = "send"
     ELSE step' = "subscribe" /\ UNCHANGED target
  /\ UNCHANGED <<vars, wanted, depositing, seenBest, battle>>

Subscribe ==
  /\ step = "subscribe"
  /\ step' = "listen"
  /\ UNCHANGED <<vars, wanted, depositing, seenBest, target, battle>>

\* The listener, called for each superblock that is proposed from then on.
Listener(b) ==
  IF /\ step = "listen" /\ target = NoSuperblock
     /\ b # seenBest
     /\ wanted \in {NoSuperblock, b}
    THEN target' = b ELSE UNCHANGED target

Resolve ==
  /\ step = "listen"
  /\ target # NoSuperblock
  /\ step' = "send"
  /\ UNCHANGED <<vars, wanted, depositing, seenBest, target, battle>>

\* The agent process that is watched exits.
AgentExits ==
  /\ step = "listen"
  /\ step' = "failed"
  /\ UNCHANGED <<vars, wanted, depositing, seenBest, target, battle>>

\* The challenge would succeed if the signer had deposited so much.
CanChallenge(deposited) ==
  LET claim == claims[target]
  IN  /\ claimExists(target)
      /\ ~claim.decided
      /\ SB!StatusOf(target) \in {"New", "InBattle"}
      /\ deposited >= minChallengeDeposit /\ deposited >= battleReward
      /\ ~claim.verificationOngoing => ~claim.invalid

\* The node may count a deposit that is not included yet.
SendChallenge ==
  /\ step = "send"
  /\ \/ CanChallenge(deposits[Signer] + depositing) /\ step' = "receipt"
     \/ ~CanChallenge(deposits[Signer]) /\ step' = "failed"
  /\ UNCHANGED <<vars, wanted, depositing, seenBest, target, battle>>

\* The challenge is included.  Battle.createFromEvent takes the battle that it
\* began, if the signer is the challenger in it.
IncludeChallenge ==
  /\ step = "receipt"
  /\ depositing = 0
  /\ \/ /\ ChallengeSuperblock(Signer, target)
        /\ battle' = sessions' \ sessions
        /\ step' = IF battle' = {} THEN "queued"
                   ELSE IF \A s \in battle' : s.challenger = Signer
                          THEN "battle" ELSE "failed"
     \/ /\ ~CanChallenge(deposits[Signer])
        /\ step' = "failed"
        /\ UNCHANGED <<vars, battle>>
  /\ UNCHANGED <<wanted, depositing, seenBest, target>>

\* The process ends.
Exit ==
  /\ step \in {"queued", "battle", "failed"}
  /\ step' = "exited"
  /\ wanted' = NoSuperblock
  /\ seenBest' = NoSuperblock
  /\ target' = NoSuperblock
  /\ battle' = {}
  /\ UNCHANGED <<vars, depositing>>

TaskStep ==
  \/ \E option \in DepositOptions : SendDeposit(option)
  \/ IncludeDeposit
  \/ ReadBest
  \/ CheckStatus
  \/ Subscribe
  \/ Resolve
  \/ AgentExits
  \/ SendChallenge
  \/ IncludeChallenge
  \/ Exit

\* A step of the contracts that others take; a proposal is heard of.
Proposed == {b \in Superblocks :
               /\ SB!StatusOf(b) = "Uninitialized"
               /\ SB!StatusOf(b)' # "Uninitialized"}

OthersStep ==
  /\ Next
  /\ IF Proposed = {} THEN UNCHANGED target ELSE \E b \in Proposed : Listener(b)
  /\ UNCHANGED <<step, wanted, depositing, seenBest, battle>>

TaskNext == TaskStep \/ OthersStep

TaskSpec == TaskInit /\ [][TaskNext]_allVars

-----------------------------------------------------------------------------
(* The status task.                                                        *)

\* Mutant: the index in the queue is taken for the number of the challenger.
ShownAtIndex(b, n) ==
  LET claim == claims[b]
  IN  IF claim.currentChallenger = n - 1
        THEN IF claim.decided THEN IF claim.invalid THEN "succeeded" ELSE "failed"
             ELSE IF claim.verificationOngoing THEN "battle" ELSE "waiting"
      ELSE IF claim.currentChallenger > n - 1 THEN "failed" ELSE "pending"

\* displaySuperblock: what is shown of the n-th challenger of b.
Shown(b, n) ==
  LET claim == claims[b]
  IN  IF claim.currentChallenger = n
        THEN IF claim.decided THEN IF claim.invalid THEN "succeeded" ELSE "failed"
             ELSE IF claim.verificationOngoing THEN "battle" ELSE "waiting"
      ELSE IF claim.currentChallenger > n THEN "failed" ELSE "pending"

-----------------------------------------------------------------------------
(* Properties.                                                             *)

\* The battle that the task goes on with is its own, and the one of the claim
\* it challenged: although others challenge before, between and after, and the
\* contract picks the challenger from the queue, the battle begun by a
\* challenge is always that of the account that sent it.
BattleIsOurs ==
  /\ step = "battle" =>
       \A s \in battle : s.superblockHash = target /\ s.challenger = Signer
  /\ step = "failed" => battle = {}

\* What the status task shows of a challenger follows its battle: it is shown
\* in battle exactly while its session lives; one that lost is from then on
\* shown as waiting or failed and never as a winner, one that won as waiting
\* until the claim is decided and then as succeeded; and what was shown as the
\* outcome is never shown otherwise later.  It is derived from one read of the
\* claim, and of the queue, read before it and only growing, from the place of the
\* challenger; the battle itself, read after it, is not part of it.
OutcomesShown ==
  [][\A b \in Superblocks : \A n \in DOMAIN claims[b].challengers :
       LET live == \E s \in sessions : s.superblockHash = b /\ s.number = n
           over == live /\ ~\E s \in sessions' : s.superblockHash = b /\ s.number = n
       IN  /\ live <=> Shown(b, n) = "battle"
           /\ over => Shown(b, n)' \in (IF claims'[b].invalid THEN {"waiting"}
                                         ELSE {"waiting", "failed"})
           /\ Shown(b, n) \in {"failed", "succeeded"} => Shown(b, n)' = Shown(b, n)
           /\ Shown(b, n)' = "succeeded" => claims[b].invalid
           /\ Shown(b, n) = "waiting" /\ Shown(b, n)' = "failed" => ~claims[b].invalid
           /\ claims'[b].challengers[n] = claims[b].challengers[n]]_vars
=============================================================================
