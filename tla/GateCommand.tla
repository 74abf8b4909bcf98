----------------------------- MODULE GateCommand ----------------------------
(***************************************************************************)
(* The Gate Command protocol: Web approvers, the Team API and one paired   *)
(* desktop, joined by HTTP requests that may time out, be handled late or  *)
(* lose their answer, with desktop crashes, membership changes and local   *)
(* work on the run at any moment.                                          *)
(***************************************************************************)
EXTENDS GateDesktop

CONSTANTS
  MaxFaults,    \* bound: lost exchanges, denials and crashes per behaviour
  MayDeny       \* bound: may the Team deny the desktop's bearer?

ASSUME FaultsAssumption == MaxFaults \in Nat /\ MayDeny \in BOOLEAN

VARIABLES
  late,         \* requests the desktop gave up on that the Team may yet handle
  faults        \* faults so far

netVars == <<late, faults>>
vars == <<teamVars, desktopVars, netVars>>

Init ==
  /\ TeamInit
  /\ DesktopInit
  /\ late = {}
  /\ faults = 0

-----------------------------------------------------------------------------
(* Requests on the wire.                                                   *)

ReceiptRequest(c) == [kind |-> "receipt", command |-> c, ack |-> None]
AckRequest(c) == [kind |-> "ack", command |-> c, ack |-> exec[c]]

InFlight ==
  CASE pc = "requesting" -> {ReceiptRequest(job.command)}
    [] pc = "acking" -> {AckRequest(job.command)}
    [] OTHER -> {}

Fault == faults < MaxFaults /\ faults' = faults + 1

-----------------------------------------------------------------------------
(* Exchanges between the poll loop and the Team.                           *)

PollInbox ==
  /\ ReadInbox
  /\ ListGateCommands
  /\ UNCHANGED netVars

RequestReceipt ==
  LET c == job.command IN
  /\ pc = "requesting"
  /\ CreateGateCommandReceipt(c)
  /\ IF Deliverable(c) /\ teamAck[c] = None
     THEN GoOn("received", [job EXCEPT !.attempt = Len(receipts'[c])])
     ELSE NextItem
  /\ UNCHANGED <<skew, storeVars, netVars>>

SendAck ==
  LET c == job.command
      accepted == Acceptable(c, exec[c]) \/ Repeated(c, exec[c])
  IN
  /\ pc = "acking"
  /\ AcknowledgeGateCommand(c, exec[c])
  /\ GoOn("replied",
          [job EXCEPT !.reply = IF accepted THEN "accepted" ELSE "refused"])
  /\ UNCHANGED <<skew, storeVars, netVars>>

(* 401, 403 or another final answer that does not come from the protocol.  *)
DenyAck ==
  /\ MayDeny
  /\ Fault
  /\ pc = "acking"
  /\ GoOn("replied", [job EXCEPT !.reply = "refused"])
  /\ UNCHANGED <<teamVars, skew, storeVars, late>>

(* A retryable failure: the loop moves on, the request may still arrive.   *)
GiveUp ==
  /\ Fault
  /\ InFlight # {}
  /\ late' = late \union InFlight
  /\ NextItem
  /\ UNCHANGED <<teamVars, skew, storeVars>>

Crash ==
  /\ Fault
  /\ CrashDesktop
  /\ late' = late \union InFlight
  /\ UNCHANGED teamVars

HandleLate(r) ==
  /\ r \in late
  /\ late' = late \ {r}
  /\ \/ r.kind = "receipt" /\ CreateGateCommandReceipt(r.command)
     \/ r.kind = "ack" /\ AcknowledgeGateCommand(r.command, r.ack)
  /\ UNCHANGED <<desktopVars, faults>>

-----------------------------------------------------------------------------
(* Next-state relation.                                                    *)

WebStep ==
  /\ \/ \E c \in Command, a \in Action : CreateGateCommand(c, a)
     \/ \E c \in Command : RefuseActiveConflict(c) \/ RefuseCreate(c)
     \/ \E c \in Command : ChangeMembership(c)
     \/ ListGateCommands
  /\ UNCHANGED <<desktopVars, netVars>>

SyncStep ==
  /\ \E s \in summaries : UploadRunSummary(s)
  /\ UNCHANGED <<desktopVars, netVars>>

TimeStep == Tick /\ UNCHANGED <<desktopVars, netVars>>

LocalStep ==
  /\ ChangeMaterial \/ \E atGate \in BOOLEAN : LocalTransition(atGate)
  /\ UNCHANGED <<teamVars, netVars>>

(* Steps of the poll loop within the desktop.                              *)
LoopStep ==
  /\ \/ StartPoll
     \/ \E c \in Command : RetryPendingAck(c) \/ TakeCommand(c)
     \/ StopOnBacklog
     \/ EndPoll
     \/ CheckReceipt
     \/ LoadRun
     \/ Evaluate
     \/ CommitDecision
     \/ ReplayExecution
     \/ SettleAck
  /\ UNCHANGED <<teamVars, netVars>>

(* Everything the scheduler's poll does of its own accord.                 *)
PollStep == LoopStep \/ PollInbox \/ RequestReceipt \/ SendAck

FaultStep == DenyAck \/ GiveUp \/ Crash \/ (\E r \in late : HandleLate(r))

Next ==
  \/ WebStep
  \/ SyncStep
  \/ TimeStep
  \/ LocalStep
  \/ PollStep
  \/ FaultStep

Spec == Init /\ [][Next]_vars

(* The poll is re-armed for ever and time passes; nobody has to create a   *)
(* command, no summary or late request has to arrive.                      *)
Fairness == WF_vars(PollStep) /\ WF_vars(TimeStep)

FairSpec == Spec /\ Fairness
-----------------------------------------------------------------------------
(* Properties                                                              *)

(* The tables of the Team and of LocalStore, the poll loop's own state and *)
(* the requests left on the wire keep their shape; an item is in hand only *)
(* during a poll.                                                          *)
Requests == [kind : {"receipt", "ack"}, command : Command,
             ack : Decisions \union {None}]

TypeOK ==
  /\ TeamTypeOK
  /\ DesktopTypeOK
  /\ late \subseteq Requests
  /\ faults \in Nat

(* At most one command is active for a run snapshot, so an approval and a  *)
(* rejection of the same snapshot are never on their way together (the     *)
(* advisory lock and active-read of createGateCommand).                    *)
OneActivePerTuple ==
  \A c, d \in Command :
    IsActive(c) /\ IsActive(d) /\ cmd[c].expected = cmd[d].expected => c = d

(* Whatever decision the Team has stored and published is the one the      *)
(* desktop took and stored: late, repeated and replayed acknowledgements   *)
(* included.                                                               *)
TeamRecordsTruth ==
  \A c \in Command :
    /\ teamAck[c] # None =>
         teamAck[c] = exec[c] /\ cmd[c].outcome = exec[c].outcome
    /\ cmd[c].status = "applied" => teamAck[c] # None

(* The leases of a command follow one another and end with the command: no *)
(* two receipts entitle the desktop to decide at the same time.            *)
LeasesDoNotOverlap ==
  \A c \in Command : \A k \in 1..Len(receipts[c]) :
    /\ receipts[c][k].leaseExpires <= cmd[c].expiresAt
    /\ \A j \in 1..(k - 1) :
         receipts[c][j].leaseExpires <= receipts[c][k].leasedAt

(* A decision other than "expired" was evaluated, by the desktop's clock,  *)
(* while it held the lease named in it; the processor reads the clock      *)
(* again after its awaits for this.                                        *)
DecidedUnderLease ==
  \A c \in Command :
    exec[c] # None /\ exec[c].outcome # "expired" =>
      LET r == receipts[c][exec[c].attempt] IN
      r.leasedAt <= exec[c].evaluatedAt /\ exec[c].evaluatedAt < r.leaseExpires

(* The desktop believes a decision reported only if the Team stored it.    *)
AcknowledgedMeansRecorded ==
  \A c \in Command :
    localAck[c] = "acknowledged" => exec[c] # None /\ teamAck[c] = exec[c]

(* Unless its bearer is denied or its clock runs ahead, the only decision  *)
(* of the desktop that the Team refuses for good is one on a command it    *)
(* had withdrawn from the requester meanwhile: time-outs, crashes, late    *)
(* and repeated requests alone never lose one.                             *)
RefusedOnlyIfRevoked ==
  \A c \in Command :
    localAck[c] = "terminal" /\ skew <= 0 /\ ~MayDeny =>
      cmd[c].outcome = "requester_revoked"

(* While a command from the inbox is being decided its acknowledgement is  *)
(* not still pending: the drain comes first and blocks the inbox.  This is *)
(* why the replay of an execution never has to send a pending one under a  *)
(* new receipt.                                                            *)
DrainedBeforeInbox ==
  phase = "serve" /\ pc \in {"requesting", "received", "observed", "loaded",
                             "decided"} =>
    localAck[job.command] # "pending"

(* An approval moves the run only if, at the commit itself, the run is     *)
(* still the version and at the gate it was issued for and the material    *)
(* still clear, whatever happened between evaluation and commit; and it    *)
(* moves it by exactly one version.                                        *)
Decides(c, outcome) ==
  exec[c] = None /\ exec'[c] # None /\ exec'[c].outcome = outcome

AppliesOnlyWhenCurrent ==
  [][\A c \in Command : Decides(c, "applied") =>
       /\ cmd[c].action = "approve"
       /\ run.version = cmd[c].expected
       /\ run.atGate
       /\ material = "clear"
       /\ run'.version = run.version + 1]_vars

(* A decision, once stored by the desktop, is never taken again or         *)
(* changed, however often the command is delivered.                        *)
DecidedOnce ==
  [][\A c \in Command : exec[c] # None => exec'[c] = exec[c]]_vars

(* A terminal command stays as it is; only "expired" may still give way to *)
(* a decision the desktop took in time, and that once.                     *)
TerminalIsFinal ==
  [][\A c \in Command :
       cmd[c].status \in {"refused", "applied", "rejected", "expired"}
         /\ cmd'[c] # cmd[c] =>
           /\ cmd[c].status = "expired"
           /\ teamAck[c] = None /\ teamAck'[c] # None]_vars

(* The protocol implements the abstract decision register.                 *)
Decision == INSTANCE GateDecision WITH
  Undecided <- "undecided",
  issued <- [c \in Command |-> cmd[c].expected],
  verdict <- [c \in Command |->
                IF exec[c] = None THEN "undecided" ELSE exec[c].outcome],
  published <- [c \in Command |->
                  IF cmd[c].outcome = "requester_revoked" THEN "withdrawn"
                  ELSE IF teamAck[c] # None THEN teamAck[c].outcome
                  ELSE IF cmd[c].status = "expired" THEN "lapsed"
                  ELSE "open"],
  version <- run.version

ImplementsDecision == Decision!Spec

(* The facts the safety proofs rest on, conjunct by conjunct: what the     *)
(* poll loop has in hand exists, what was decided or sent was stored, and  *)
(* what the Team stored was sent.                                          *)
LoopLinks ==
  /\ phase = "drain" => \A c \in todo : exec[c] # None
  /\ pc \in {"acking", "replied"} => exec[job.command] # None
  /\ pc = "decided" => job.outcome \in Outcome
  /\ pc \in {"received", "observed", "loaded", "decided"} =>
       job.attempt \in 1..Len(receipts[job.command])

StoreLinks ==
  /\ \A c \in Command : localAck[c] # "none" => exec[c] # None
  /\ \A c \in Command : exec[c] # None =>
       exec[c].attempt \in 1..Len(receipts[c])
  /\ \A r \in late : r.kind = "ack" =>
       exec[r.command] # None /\ r.ack = exec[r.command]

TeamLinks ==
  \A c \in Command :
    /\ teamAck[c] # None =>
         /\ teamAck[c] = exec[c]
         /\ cmd[c].outcome = exec[c].outcome
         /\ cmd[c].status \in {"applied", "rejected", "expired"}
    /\ cmd[c].status = "applied" => teamAck[c] # None

IInv == TypeOK /\ LoopLinks /\ StoreLinks /\ TeamLinks

(* Every decision of the desktop is eventually settled with the Team:      *)
(* acknowledged, or refused for good.                                      *)
DecisionsGetSettled ==
  \A c \in Command :
    exec[c] # None ~> localAck[c] \in {"acknowledged", "terminal"}

(* No command stays active for ever.                                       *)
CommandsResolve == \A c \in Command : IsActive(c) ~> ~IsActive(c)
=============================================================================
