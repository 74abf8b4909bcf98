---------------------------- MODULE GateDesktop -----------------------------
(***************************************************************************)
(* The desktop's side of the Gate Command protocol: the Gate Command       *)
(* processor's poll loop and the LocalStore transactions it runs.          *)
(*                                                                         *)
(* The processor is one asynchronous loop (the scheduler never runs two    *)
(* polls at a time), cut here at every await where other code of the       *)
(* desktop, the Team or the clock may move.  LocalStore transactions are   *)
(* atomic and durable.  cmd[c].action, .expected and .expiresAt, and the   *)
(* lease bounds of a receipt, never change once delivered, so the desktop  *)
(* reads its copy of them from the Team's tables.                          *)
(***************************************************************************)
EXTENDS GateTeam

CONSTANTS
  Skews,        \* possible desktop clock offsets from the Team's clock
  Materials,    \* bound: states the approval material may be in
  MaxVersion    \* bound: no run transition past this version

ASSUME SkewsAssumption == Skews \subseteq Int /\ Skews # {}
ASSUME MaterialsAssumption ==
  Materials \subseteq {"clear", "blocked"} /\ "clear" \in Materials
ASSUME MaxVersionAssumption == MaxVersion \in Nat \ {0}

VARIABLES
  skew,         \* the desktop's clock shows clock + skew
  run,          \* the local workflow run: version, and is it at a gate
  material,     \* evidence, policy, blockers: "clear" for approval or "blocked"
  summaries,    \* run summaries in the sync outbox or on their way
  exec,         \* gate_command_executions: the decision taken, if any
  localAck,     \* status of its row in the local gate_command_acknowledgements
  received,     \* receipt observations recorded, not yet evaluated
  evaluated,    \* receipts recorded as evaluated, as <<command, attempt>>
  phase,        \* the poll loop: "idle", "drain" or "serve"
  pc,           \* where it is with the item in hand
  todo,         \* items left of this phase
  job           \* the item in hand and what was read of it

storeVars == <<run, material, summaries, exec, localAck, received, evaluated>>
loopVars == <<phase, pc, todo, job>>
desktopVars == <<skew, storeVars, loopVars>>

-----------------------------------------------------------------------------
Now == clock + skew

NoJob == [command |-> None, attempt |-> 0, base |-> 0, atGate |-> FALSE,
          outcome |-> None, evaluatedAt |-> 0, reply |-> None]

DesktopInit ==
  /\ skew \in Skews
  /\ run = [version |-> 1, atGate |-> TRUE]
  /\ material = "clear"
  /\ summaries = {}
  /\ exec = [c \in Command |-> None]
  /\ localAck = [c \in Command |-> "none"]
  /\ received = {}
  /\ evaluated = {}
  /\ phase = "idle"
  /\ pc = "next"
  /\ todo = {}
  /\ job = NoJob

Jobs == [command : Command \union {None}, attempt : Nat, base : Nat,
         atGate : BOOLEAN, outcome : Outcome \union {None}, evaluatedAt : Int,
         reply : {"accepted", "refused", None}]

(* LocalStore's tables and the poll loop's state keep their shape.         *)
DesktopTypeOK ==
  /\ skew \in Skews
  /\ run \in RunStates
  /\ material \in Materials
  /\ summaries \subseteq RunStates
  /\ exec \in [Command -> Decisions \union {None}]
  /\ localAck \in [Command -> {"none", "pending", "acknowledged", "terminal"}]
  /\ received \subseteq Command \X Nat
  /\ evaluated \subseteq Command \X Nat
  /\ phase \in {"idle", "drain", "serve"}
  /\ pc \in {"next", "requesting", "received", "observed", "loaded",
             "decided", "acking", "replied"}
  /\ todo \subseteq Command
  /\ job \in Jobs
  /\ pc # "next" => job.command \in Command /\ phase # "idle"

PendingAcks == {c \in Command : localAck[c] = "pending"}

(* Done with the item in hand.                                             *)
NextItem ==
  /\ pc' = "next"
  /\ job' = NoJob
  /\ UNCHANGED <<phase, todo>>

(* Going on with the item in hand.                                         *)
GoOn(to, j) ==
  /\ pc' = to
  /\ job' = j
  /\ UNCHANGED <<phase, todo>>

-----------------------------------------------------------------------------
(* A poll drains the pending acknowledgements first and reads the inbox    *)
(* only when none is left.                                                 *)

(* Mutant: a poll never retries what is pending.                           *)
StartPollWithoutRetry ==
  /\ phase = "idle"
  /\ phase' = "drain"
  /\ todo' = {}
  /\ UNCHANGED <<pc, job, skew, storeVars>>

StartPoll ==
  /\ phase = "idle"
  /\ phase' = "drain"
  /\ todo' = PendingAcks
  /\ UNCHANGED <<pc, job, skew, storeVars>>

RetryPendingAck(c) ==
  /\ phase = "drain" /\ pc = "next"
  /\ c \in todo
  /\ todo' = todo \ {c}
  /\ pc' = "acking"
  /\ job' = [NoJob EXCEPT !.command = c]
  /\ UNCHANGED <<phase, skew, storeVars>>

(* Mutant: the inbox is read over a backlog.                               *)
NoBacklogCheck == FALSE

BacklogRemains == PendingAcks # {}

StopOnBacklog ==
  /\ phase = "drain" /\ pc = "next" /\ todo = {}
  /\ BacklogRemains
  /\ phase' = "idle"
  /\ UNCHANGED <<pc, todo, job, skew, storeVars>>

(* The inbox holds the commands left deliverable by listing them.          *)
ReadInbox ==
  /\ phase = "drain" /\ pc = "next" /\ todo = {}
  /\ ~BacklogRemains
  /\ phase' = "serve"
  /\ todo' = {c \in Command : Deliverable(c)}
  /\ UNCHANGED <<pc, job, skew, storeVars>>

TakeCommand(c) ==
  /\ phase = "serve" /\ pc = "next"
  /\ c \in todo
  /\ todo' = todo \ {c}
  /\ pc' = "requesting"
  /\ job' = [NoJob EXCEPT !.command = c]
  /\ UNCHANGED <<phase, skew, storeVars>>

EndPoll ==
  /\ phase = "serve" /\ pc = "next" /\ todo = {}
  /\ phase' = "idle"
  /\ UNCHANGED <<pc, todo, job, skew, storeVars>>

-----------------------------------------------------------------------------
(* Deciding a command under the receipt that came back.                    *)

Receipt == receipts[job.command][job.attempt]
CommandOver == Now >= cmd[job.command].expiresAt
LeaseOver == Now >= Receipt.leaseExpires

Decide(outcome) ==
  [job EXCEPT !.outcome = outcome, !.evaluatedAt = Now]

(* The delivered receipt is checked against the desktop's clock, then      *)
(* recordGateCommandReceiptObservation notes it, once per receipt.         *)
CheckReceipt ==
  LET o == <<job.command, job.attempt>> IN
  /\ pc = "received"
  /\ UNCHANGED <<skew, run, material, summaries, exec, localAck, evaluated>>
  /\ IF Now < Receipt.leasedAt \/ (LeaseOver /\ ~CommandOver)
     THEN NextItem /\ UNCHANGED received
     ELSE IF CommandOver
     THEN GoOn("decided", Decide("expired")) /\ UNCHANGED received
     ELSE /\ received' = IF o \in evaluated THEN received
                         ELSE received \union {o}
          /\ GoOn("observed", job)

(* Mutant: a stored execution is not looked up.                            *)
ExecutionIgnored(c) == TRUE

(* getGateCommandExecution found nothing.                                  *)
NoExecution(c) == exec[c] = None

LoadRun ==
  /\ pc = "observed"
  /\ NoExecution(job.command)
  /\ GoOn("loaded", [job EXCEPT !.base = run.version, !.atGate = run.atGate])
  /\ UNCHANGED <<skew, storeVars>>

(* The outcome by the run that was loaded and the material of now.         *)
Verdict ==
  IF job.base # cmd[job.command].expected THEN "stale_run"
  ELSE IF ~job.atGate \/ material = "blocked" THEN "evidence_blocked"
  ELSE IF cmd[job.command].action = "approve" THEN "applied"
  ELSE "human_rejected"

(* Mutant: the lease is not looked at again after the awaits.              *)
EvaluateWithoutLease ==
  /\ pc = "loaded"
  /\ UNCHANGED <<skew, storeVars>>
  /\ IF CommandOver THEN GoOn("decided", Decide("expired"))
     ELSE GoOn("decided", Decide(Verdict))

Evaluate ==
  /\ pc = "loaded"
  /\ UNCHANGED <<skew, storeVars>>
  /\ IF CommandOver THEN GoOn("decided", Decide("expired"))
     ELSE IF LeaseOver THEN NextItem
     ELSE GoOn("decided", Decide(Verdict))

-----------------------------------------------------------------------------
(* commitGateCommandExecution                                              *)

(* Mutant: the transaction trusts the version that was evaluated.          *)
ResolveWithoutVersion(j) ==
  IF j.outcome = "applied" /\ material = "blocked" THEN "evidence_blocked"
  ELSE j.outcome

(* Mutant: the transaction trusts the material that was evaluated.         *)
ResolveWithoutMaterial(j) ==
  IF j.outcome = "expired" THEN "expired"
  ELSE IF run.version # cmd[j.command].expected THEN "stale_run"
  ELSE j.outcome

(* A first decision: what the transaction finds overrides what was         *)
(* evaluated, and only an approval that is still current moves the run.    *)
Resolve(j) ==
  IF j.outcome = "expired" THEN "expired"
  ELSE IF run.version # cmd[j.command].expected THEN "stale_run"
  ELSE IF j.outcome = "applied" /\ material = "blocked" THEN "evidence_blocked"
  ELSE j.outcome

Execution(j) ==
  LET outcome == Resolve(j)
      before == IF outcome = "stale_run" THEN run.version
                ELSE cmd[j.command].expected
  IN [attempt |-> j.attempt, outcome |-> outcome, before |-> before,
      after |-> IF outcome = "applied" THEN before + 1 ELSE before,
      evaluatedAt |-> j.evaluatedAt]

(* Writing a run queues its summary for the Team in the same transaction.  *)
WriteRun(next) ==
  /\ run' = next
  /\ summaries' = summaries \union {next}

CommitDecision ==
  LET c == job.command IN
  /\ pc = "decided"
  /\ NoExecution(c)
  /\ exec' = [exec EXCEPT ![c] = Execution(job)]
  /\ localAck' = [localAck EXCEPT ![c] = "pending"]
  /\ received' = received \ {<<c, job.attempt>>}
  /\ evaluated' = evaluated \union {<<c, job.attempt>>}
  /\ IF Resolve(job) = "applied"
     THEN \E atGate \in BOOLEAN :
            WriteRun([version |-> job.base + 1, atGate |-> atGate])
     ELSE UNCHANGED <<run, summaries>>
  /\ GoOn("acking", [NoJob EXCEPT !.command = c])
  /\ UNCHANGED <<skew, material>>

(* A command already decided: its stored result is acknowledged again if   *)
(* its receipt is known.  After an expiry met on arrival even a terminal   *)
(* acknowledgement is sent once more.                                      *)
ReplayExecution ==
  LET c == job.command IN
  /\ pc \in {"observed", "decided"}
  /\ ~NoExecution(c)
  /\ IF /\ exec[c].attempt = job.attempt
        /\ pc = "decided" \/ localAck[c] = "pending"
     THEN GoOn("acking", [NoJob EXCEPT !.command = c])
     ELSE NextItem
  /\ UNCHANGED <<skew, storeVars>>

-----------------------------------------------------------------------------
(* The answer to an acknowledgement.                                       *)

(* recordGateCommandAcknowledgement refuses an answer that is, by the      *)
(* desktop's clock, from the future; the row stays pending.                *)
RecordAcknowledged(c, at) ==
  localAck' = [localAck EXCEPT ![c] =
                 IF @ = "pending" /\ Now >= at THEN "acknowledged" ELSE @]

(* Mutant: a refusal is taken for an acknowledgement.                      *)
AcknowledgeAnyway(c) ==
  localAck' = [localAck EXCEPT ![c] = "acknowledged"]

(* terminalizeGateCommandAcknowledgement, after a non-retryable error.     *)
TerminalizeAck(c) ==
  localAck' = [localAck EXCEPT ![c] = IF @ = "pending" THEN "terminal" ELSE @]

SettleAck ==
  LET c == job.command IN
  /\ pc = "replied"
  /\ IF job.reply = "refused"
     THEN TerminalizeAck(c)
     ELSE RecordAcknowledged(c, receipts[c][exec[c].attempt].ackedAt)
  /\ NextItem
  /\ UNCHANGED <<skew, run, material, summaries, exec, received, evaluated>>

-----------------------------------------------------------------------------
(* The rest of the desktop.                                                *)

(* Any other workflow command on the run: version + 1, at a gate or not.   *)
LocalTransition(atGate) ==
  /\ run.version < MaxVersion
  /\ WriteRun([version |-> run.version + 1, atGate |-> atGate])
  /\ UNCHANGED <<skew, material, exec, localAck, received, evaluated, loopVars>>

(* Evidence, overrides, repository knowledge or the policy cache change.   *)
ChangeMaterial ==
  /\ material' \in Materials \ {material}
  /\ UNCHANGED <<skew, run, summaries, exec, localAck, received, evaluated,
                 loopVars>>

(* The process dies and restarts: the loop is lost, LocalStore is not.     *)
CrashDesktop ==
  /\ phase # "idle"
  /\ phase' = "idle"
  /\ pc' = "next"
  /\ todo' = {}
  /\ job' = NoJob
  /\ UNCHANGED <<skew, storeVars>>
=============================================================================
