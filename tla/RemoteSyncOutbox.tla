-------------------------- MODULE RemoteSyncOutbox --------------------------
(***************************************************************************)
(* The outbox at work: one processor that claims an operation, checks the  *)
(* pairing, binds the operation to a Team project, uploads the entity as   *)
(* it is now and settles what became of it, while entities are saved, the  *)
(* desktop is paired anew or dies, and requests get lost or arrive after   *)
(* the processor gave them up.  The Team keeps one row per entity.         *)
(***************************************************************************)
EXTENDS OutboxStore

CONSTANTS
  MaxAttempts,  \* REMOTE_SYNC_MAX_ATTEMPTS
  MaxFaults,    \* bound: lost exchanges, denials, failures of the store, crashes
  MaxChecks,    \* bound: uploads on behalf of budget checks
  MayDeny,      \* bound: may the Team deny the desktop's bearer?
  NewPairings   \* bound: what the desktop may be paired with

ASSUME LimitsAssumption ==
  /\ MaxAttempts \in Nat \ {0}
  /\ {MaxFaults, MaxChecks} \subseteq Nat
  /\ MayDeny \in BOOLEAN
  /\ NewPairings \subseteq Pairing \ {None}

VARIABLES
  pc,           \* where the processor is
  job,          \* the operation it works on, as claimed, and its result
  requeueing,   \* a pairing has been saved, its operations not yet put back
  rows,         \* [Entity -> Row]: the Team's rows
  late,         \* requests on the wire whose answer nobody awaits
  faults,       \* faults so far
  checks        \* uploads for budget checks so far

processorVars == <<pc, job>>
boundVars == <<faults, checks>>
vars == <<storeVars, processorVars, requeueing, rows, late, boundVars>>

Row == [team : Scope, version : Nat]
NoRow == [team |-> None, version |-> 0]

(* part: what is being sent, the entity's own summary, the run it hangs on *)
(* or, after the run, the entity's summary for the second time.            *)
Result == [status : {"completed", "retry-scheduled", "terminal"}, code : Code]
NoResult == [status |-> "completed", code |-> "none"]
NoJob == [entity |-> Run, generation |-> 0, attempts |-> 0, team |-> None,
          payload |-> 0, run |-> 0, part |-> "own", result |-> NoResult]

Init ==
  /\ StoreInit
  /\ pc = "idle"
  /\ job = NoJob
  /\ requeueing = FALSE
  /\ rows = [e \in Entity |-> NoRow]
  /\ late = {}
  /\ faults = 0
  /\ checks = 0

-----------------------------------------------------------------------------
(* The Team's answer to an upload.                                         *)

RunIsMissing(r) == r.entity # Run /\ rows[Run].team # r.team

(* Mutant: an older summary overwrites a newer one.                        *)
CollidesByTeamOnly(r) == rows[r.entity].team \notin {None, r.team}

(* A row belongs to one Team project for ever; only evidence is replaced   *)
(* whatever its age.                                                       *)
Collides(r) ==
  \/ rows[r.entity].team \notin {None, r.team}
  \/ r.entity \notin Evidence /\ rows[r.entity].version > r.version

Accepts(r) == ~RunIsMissing(r) /\ ~Collides(r)

Handle(r) ==
  rows' = IF Accepts(r)
          THEN [rows EXCEPT ![r.entity] = [team |-> r.team,
                                           version |-> r.version]]
          ELSE rows

Request ==
  IF job.part = "run"
  THEN [entity |-> Run, team |-> job.team, version |-> job.run]
  ELSE [entity |-> job.entity, team |-> job.team, version |-> job.payload]

InFlight == IF pc = "sending" THEN {Request} ELSE {}

-----------------------------------------------------------------------------
(* The processor.                                                          *)

Goto(label) == pc' = label /\ job' = NoJob

Conclude(status, code) ==
  /\ pc' = "settling"
  /\ job' = [job EXCEPT !.result = [status |-> status, code |-> code]]

(* recoverAndDrain: what an earlier cycle left behind comes first.         *)
StartDrain ==
  /\ pc = "idle"
  /\ op' = [e \in Entity |-> Recovered(op[e])]
  /\ Goto("draining")
  /\ UNCHANGED <<entityVars, pairing, retries>>

Claim(e) ==
  /\ pc = "draining"
  /\ Claimable(e)
  /\ op' = [op EXCEPT ![e] = Claimed(@)]
  /\ job' = [NoJob EXCEPT !.entity = e,
                          !.generation = op'[e].generation,
                          !.attempts = op'[e].attempts]
  /\ pc' = "claimed"
  /\ UNCHANGED <<entityVars, pairing, retries>>

EndDrain ==
  /\ pc = "draining"
  /\ \A e \in Entity : ~Claimable(e)
  /\ Goto("idle")
  /\ UNCHANGED storeVars

CheckPairing ==
  /\ pc = "claimed"
  /\ CASE pairing = None -> Conclude("terminal", "pairing_required")
       [] pairing = Elsewhere -> Conclude("terminal", "scope_mismatch")
       [] OTHER -> pc' = "binding" /\ job' = [job EXCEPT !.team = pairing]
  /\ UNCHANGED storeVars

(* Mutant: an operation is bound again to whatever is paired now.          *)
BindAgain ==
  /\ pc = "binding"
  /\ IF Held(job.entity, job.generation)
     THEN /\ op' = [op EXCEPT ![job.entity].scope = job.team]
          /\ pc' = "connecting" /\ UNCHANGED job
     ELSE /\ UNCHANGED op
          /\ Goto("draining")
  /\ UNCHANGED <<entityVars, pairing, retries>>

BindRemoteSyncOperationScope ==
  LET e == job.entity IN
  /\ pc = "binding"
  /\ IF ~Held(e, job.generation)
     THEN Goto("draining") /\ UNCHANGED op
     ELSE IF op[e].scope \notin {None, job.team}
     THEN Conclude("terminal", "scope_mismatch") /\ UNCHANGED op
     ELSE /\ op' = [op EXCEPT ![e].scope = job.team]
          /\ pc' = "connecting" /\ UNCHANGED job
  /\ UNCHANGED <<entityVars, pairing, retries>>

(* Mutant: the credential is used whatever it is for by now.               *)
ConnectUnchecked ==
  /\ pc = "connecting"
  /\ pairing \in Team
  /\ pc' = "sending"
  /\ job' = [job EXCEPT !.payload = version[job.entity], !.team = pairing]
  /\ UNCHANGED storeVars

(* The credential is looked at once more, the entity read as it is now;    *)
(* runtimes that acted under another version of the run are not uploaded.  *)
Connect ==
  LET e == job.entity IN
  /\ pc = "connecting"
  /\ IF pairing # job.team
     THEN Conclude("terminal", "scope_mismatch")
     ELSE IF ~alive
     THEN Conclude("terminal", "entity_missing")
     ELSE IF e \in Runtimes /\ authority[e] # version[Run]
     THEN Conclude("terminal", "scope_mismatch")
     ELSE pc' = "sending" /\ job' = [job EXCEPT !.payload = version[e]]
  /\ UNCHANGED storeVars

(* An answer to the part in flight.  Only evidence whose run the Team does *)
(* not have is followed by the run and sent again, once; the answer to     *)
(* runtimes in that case is taken for any other conflict.                  *)
Answer ==
  /\ pc = "sending"
  /\ Handle(Request)
  /\ CASE Accepts(Request) /\ job.part = "run" ->
            job' = [job EXCEPT !.part = "again"] /\ UNCHANGED pc
       [] Accepts(Request) /\ job.part # "run" ->
            Conclude("completed", "none")
       [] RunIsMissing(Request) /\ job.entity \in Evidence /\ job.part = "own" ->
            IF alive
            THEN /\ job' = [job EXCEPT !.part = "run", !.run = version[Run]]
                 /\ UNCHANGED pc
            ELSE Conclude("terminal", "entity_missing")
       [] RunIsMissing(Request) /\ job.entity \in Evidence /\ job.part = "again" ->
            Conclude("terminal", "canonical_run_required")
       [] OTHER -> Conclude("terminal", "conflict")
  /\ UNCHANGED storeVars

RetryOrStop ==
  IF job.attempts >= MaxAttempts
  THEN Conclude("terminal", "max_attempts")
  ELSE Conclude("retry-scheduled", "network")

Settled(o) ==
  [o EXCEPT !.status = job.result.status, !.code = job.result.code,
            !.waiting = job.result.status = "retry-scheduled"]

SettleRemoteSyncOperation ==
  LET e == job.entity IN
  /\ pc = "settling"
  /\ op' = IF Held(e, job.generation)
           THEN [op EXCEPT ![e] = Settled(@)]
           ELSE op
  /\ Goto("draining")
  /\ UNCHANGED <<entityVars, pairing, retries>>

-----------------------------------------------------------------------------
(* Faults.                                                                 *)

Fault == faults < MaxFaults /\ faults' = faults + 1

(* Time-out, lost request or answer, 408, 429, 5xx: the request may still  *)
(* be handled, at any time or never.                                       *)
GiveUp ==
  /\ Fault
  /\ pc = "sending"
  /\ late' = late \union InFlight
  /\ RetryOrStop
  /\ UNCHANGED <<storeVars, rows>>

DenyUpload ==
  /\ MayDeny
  /\ Fault
  /\ pc = "sending"
  /\ Conclude("terminal", "unauthorized")
  /\ UNCHANGED <<storeVars, rows, late>>

(* The store fails in the middle of a cycle: the cycle ends.               *)
AbortCycle ==
  /\ Fault
  /\ pc \in {"claimed", "binding", "settling"}
  /\ Goto("idle")
  /\ UNCHANGED <<storeVars, rows, late>>

Crash ==
  /\ Fault
  /\ pc # "idle" \/ requeueing
  /\ late' = late \union InFlight
  /\ Goto("idle")
  /\ requeueing' = FALSE
  /\ UNCHANGED <<storeVars, rows, checks>>

HandleLate(r) ==
  /\ late' = late \ {r}
  /\ Handle(r)
  /\ UNCHANGED <<storeVars, processorVars, requeueing, boundVars>>

-----------------------------------------------------------------------------
(* The rest of the desktop.                                                *)

PairDesktop(p) ==
  /\ ~requeueing
  /\ SavePairing(p)
  /\ requeueing' = (p \in Team)
  /\ UNCHANGED <<processorVars, rows, late, boundVars>>

Requeue ==
  /\ requeueing
  /\ requeueing' = FALSE
  /\ op' = [e \in Entity |-> Requeued(op[e])]
  /\ UNCHANGED <<entityVars, pairing, retries, processorVars, rows, late,
                 boundVars>>

(* evaluateRuntimeBudget uploads the run and its coding summaries itself,  *)
(* to the Team project paired with now; no operation is involved.          *)
UploadForBudget(e) ==
  /\ checks < MaxChecks
  /\ checks' = checks + 1
  /\ pairing \in Team
  /\ alive
  /\ version[e] > 0
  /\ late' = late \union {[entity |-> e, team |-> pairing,
                           version |-> version[e]]}
  /\ UNCHANGED <<storeVars, processorVars, requeueing, rows, faults>>

LocalStep ==
  /\ \/ DeleteRun
     \/ \E e \in Entity : Save(e) \/ RetryRemoteSyncOperation(e)
  /\ UNCHANGED <<processorVars, requeueing, rows, late, boundVars>>

TimeStep ==
  /\ \E e \in Entity : TimePasses(e)
  /\ UNCHANGED <<processorVars, requeueing, rows, late, boundVars>>

FaultStep ==
  \/ Crash
  \/ (GiveUp \/ DenyUpload \/ AbortCycle) /\ UNCHANGED <<requeueing, checks>>

ProcessorStep ==
  /\ \/ Answer
     \/ /\ \/ StartDrain \/ EndDrain \/ CheckPairing
           \/ BindRemoteSyncOperationScope \/ Connect
           \/ SettleRemoteSyncOperation
           \/ \E e \in Entity : Claim(e)
        /\ UNCHANGED rows
  /\ UNCHANGED <<requeueing, late, boundVars>>

Next ==
  \/ LocalStep \/ TimeStep \/ ProcessorStep \/ FaultStep \/ Requeue
  \/ \E p \in NewPairings : PairDesktop(p)
  \/ \E e \in {Run} \union Evidence : UploadForBudget(e)
  \/ \E r \in late : HandleLate(r)

Spec == Init /\ [][Next]_vars

(* The scheduler polls for ever, clocks run, the pairing handler finishes. *)
Fairness == WF_vars(ProcessorStep) /\ WF_vars(TimeStep) /\ WF_vars(Requeue)
FairSpec == Spec /\ Fairness

-----------------------------------------------------------------------------
(* Properties.                                                             *)

Jobs == [entity : Entity, generation : Nat, attempts : Nat, team : Scope,
         payload : Nat, run : Nat, part : {"own", "run", "again"},
         result : Result]
Requests == [entity : Entity, team : Team, version : Nat]

(* Every variable has its type; a job is sent only within a Team project.  *)
TypeOK ==
  /\ version \in [Entity -> 0..MaxVersion]
  /\ authority \in [Runtimes -> 0..MaxVersion]
  /\ alive \in BOOLEAN
  /\ op \in [Entity -> Operation]
  /\ pairing \in Pairing
  /\ retries \in 0..MaxRetries
  /\ pc \in {"idle", "draining", "claimed", "binding", "connecting",
             "sending", "settling"}
  /\ job \in Jobs
  /\ pc \in {"binding", "connecting", "sending"} => job.team \in Team
  /\ requeueing \in BOOLEAN
  /\ rows \in [Entity -> Row]
  /\ late \subseteq Requests
  /\ faults \in 0..MaxFaults
  /\ checks \in 0..MaxChecks

(* An operation shown as completed is the truth: the Team project it is    *)
(* bound to holds the entity as it is saved now, whatever older uploads    *)
(* were given up and arrive later.  Evidence is left out of the version:   *)
(* the Team keeps whichever upload of it came last.                        *)
CompletedMeansSynced ==
  \A e \in Entity :
    op[e].status = "completed" =>
      /\ rows[e].team = op[e].scope
      /\ e \notin Evidence => rows[e].version = version[e]

(* Pairing anew never moves an operation to another Team project: once     *)
(* bound, its scope stays until the run is deleted.                        *)
ScopeNeverChanges ==
  [][\A e \in Entity :
       op[e].scope # None /\ op'[e].status # "absent" =>
         op'[e].scope = op[e].scope]_vars

(* What is on the wire for an operation goes to the Team project the       *)
(* operation is bound to, although the pairing is read twice and may       *)
(* change in between.                                                      *)
SendsWithinScope ==
  pc = "sending" /\ Held(job.entity, job.generation) =>
    op[job.entity].scope = job.team

(* No operation stays under way for ever: it completes, ends or goes with  *)
(* its run.                                                                *)
OperationsSettle ==
  \A e \in Entity :
    op[e].status \in {"pending", "sending", "retry-scheduled"} ~>
      op[e].status \in {"absent", "completed", "terminal"}

(* While the desktop stays paired with one Team project and attempts do    *)
(* not run out, the Team ends up with the last saved version of the run,   *)
(* although each upload may be overtaken by a save or by another upload.   *)
SavedIsSynced ==
  [](pairing = FirstPairing /\ op[Run].code # "max_attempts") =>
    <>[](alive => rows[Run].version = version[Run])
=============================================================================
