---------------------------- MODULE OutboxProofs ---------------------------
(***************************************************************************)
(* Proofs about the remote sync outbox, for any evidence and runtimes, any *)
(* Team projects and pairings, and any number of saves, attempts and       *)
(* faults.                                                                 *)
(***************************************************************************)
EXTENDS RemoteSyncOutbox, TLAPS

-----------------------------------------------------------------------------
(* The inductive invariant.                                                *)

(* The operation the processor holds is bound to where its upload goes,    *)
(* and the entity has not been saved since it was read.                    *)
HeldJob ==
  Held(job.entity, job.generation) =>
    /\ pc \in {"connecting", "sending"} => op[job.entity].scope = job.team
    /\ pc = "sending" => job.payload = version[job.entity]

(* A completed upload has left the entity at the Team as it is, as long as *)
(* the operation is held.                                                  *)
HeldResult ==
  /\ pc = "settling" /\ job.result.status = "completed" =>
       job.team \in Team
  /\ pc = "settling" /\ job.result.status = "completed"
     /\ Held(job.entity, job.generation) =>
       /\ op[job.entity].scope = job.team
       /\ rows[job.entity].team = job.team
       /\ job.entity \notin Evidence =>
            rows[job.entity].version = version[job.entity]

(* Nothing newer than what was saved is on the wire or at the Team.        *)
NothingNewer ==
  /\ job.payload <= version[job.entity]
  /\ job.run <= version[Run]
  /\ \A r \in late : r.version <= version[r.entity]
  /\ \A e \in Entity : rows[e].version <= version[e]

CompletedIsBound ==
  \A e \in Entity : op[e].status = "completed" => op[e].scope \in Team

IInv ==
  /\ TypeOK
  /\ HeldJob
  /\ HeldResult
  /\ NothingNewer
  /\ CompletedIsBound
  /\ CompletedMeansSynced

-----------------------------------------------------------------------------
(* The writes of an operation keep its shape.                              *)

LEMMA EntityFacts ==
  /\ Run \in Entity /\ Run \notin Evidence /\ Run \notin Runtimes
  /\ Evidence \subseteq Entity /\ Runtimes \subseteq Entity
  /\ None \notin Team /\ Team \subseteq Scope /\ None \in Scope
  BY EntitiesAssumption, PairingAssumption DEF Entity, Scope

LEMMA AnewType ==
  ASSUME NEW o \in Operation
  PROVE  /\ Anew(o) \in Operation /\ Anew(o).status = "pending"
         /\ Anew(o).scope = o.scope
  <1> DEFINE g == o.generation + 1
             p == [o EXCEPT !.status = "pending", !.generation = g]
             q == [p EXCEPT !.attempts = 0]
  <1>1. g \in Nat /\ "pending" \in Status /\ "none" \in Code
    BY DEF Operation, Status, Code
  <1>2. Anew(o) = [q EXCEPT !.code = "none", !.waiting = FALSE]
    BY DEF Anew
  <1> HIDE DEF g
  <1>3. p \in Operation /\ p.status = "pending" /\ p.scope = o.scope
    BY <1>1 DEF Operation
  <1> HIDE DEF p
  <1>4. q \in Operation /\ q.status = "pending" /\ q.scope = o.scope
    BY <1>3 DEF Operation
  <1> HIDE DEF q
  <1> QED
    BY <1>1, <1>2, <1>4 DEF Operation

LEMMA EndedType ==
  ASSUME NEW o \in Operation, NEW code \in Code
  PROVE  /\ Ended(o, code) \in Operation /\ Ended(o, code).status = "terminal"
         /\ Ended(o, code).scope = o.scope
  BY DEF Operation, Ended, Status

LEMMA EnqueuedType ==
  ASSUME NEW o \in Operation
  PROVE  /\ Enqueued(o) \in Operation
         /\ Enqueued(o).status \in {"pending", "terminal"}
         /\ o.scope # None => Enqueued(o).scope = o.scope
  <1>1. CASE o.scope # None /\ Bound # None /\ o.scope # Bound
    <2> DEFINE p == Ended(o, "scope_mismatch")
    <2>1. p \in Operation /\ p.status = "terminal" /\ p.scope = o.scope
      BY EndedType DEF Code
    <2>2. Enqueued(o) = [p EXCEPT !.generation = p.generation + 1]
      BY <1>1 DEF Enqueued
    <2> HIDE DEF p
    <2> QED
      BY <2>1, <2>2 DEF Operation
  <1>2. CASE ~(o.scope # None /\ Bound # None /\ o.scope # Bound)
    <2> DEFINE p == Anew(o)
               s == IF p.scope = None THEN Bound ELSE p.scope
    <2>1. p \in Operation /\ p.status = "pending" /\ p.scope = o.scope
      BY AnewType
    <2>2. Enqueued(o) = [p EXCEPT !.scope = s]
      BY <1>2 DEF Enqueued
    <2>3. s \in Scope /\ (o.scope # None => s = o.scope)
      BY <2>1, EntityFacts DEF Bound, Operation
    <2> HIDE DEF p, s
    <2> QED
      BY <2>1, <2>2, <2>3 DEF Operation
  <1> QED
    BY <1>1, <1>2

LEMMA ClaimedType ==
  ASSUME NEW o \in Operation
  PROVE  /\ Claimed(o) \in Operation /\ Claimed(o).scope = o.scope
         /\ Claimed(o).status = "sending"
         /\ Claimed(o).generation = o.generation
  <1> DEFINE n == o.attempts + 1
  <1>1. n \in Nat /\ "sending" \in Status
    BY DEF Operation, Status
  <1>2. Claimed(o) = [o EXCEPT !.status = "sending", !.attempts = n,
                               !.waiting = TRUE]
    BY DEF Claimed
  <1> HIDE DEF n
  <1> QED
    BY <1>1, <1>2 DEF Operation

LEMMA RecoveredType ==
  ASSUME NEW o \in Operation
  PROVE  /\ Recovered(o) \in Operation /\ Recovered(o).scope = o.scope
         /\ Recovered(o) = o \/ Recovered(o).status = "pending"
  <1>1. CASE Interrupted(o)
    <2> DEFINE p == Anew(o)
    <2>1. p \in Operation /\ p.status = "pending" /\ p.scope = o.scope
      BY AnewType
    <2>2. Recovered(o) = [p EXCEPT !.attempts = o.attempts, !.code = o.code]
      BY <1>1 DEF Recovered
    <2> HIDE DEF p
    <2> QED
      BY <2>1, <2>2 DEF Operation
  <1>2. CASE ~Interrupted(o)
    BY <1>2 DEF Recovered
  <1> QED
    BY <1>1, <1>2

LEMMA RequeuedType ==
  ASSUME NEW o \in Operation
  PROVE  /\ Requeued(o) \in Operation /\ Requeued(o).scope = o.scope
         /\ \/ Requeued(o) = o
            \/ Requeued(o).status = "pending" /\ o.status = "terminal"
  BY AnewType DEF Requeued

LEMMA SettledType ==
  ASSUME NEW o \in Operation, job.result \in Result
  PROVE  /\ Settled(o) \in Operation /\ Settled(o).scope = o.scope
         /\ Settled(o).status = job.result.status
  BY DEF Operation, Settled, Result, Status

LEMMA NoJobType == NoJob \in Jobs
  BY EntityFacts DEF NoJob, Jobs, NoResult, Result, Code

(* The processor concludes: the operation stays as it was.                 *)
LEMMA ConcludeMoves ==
  ASSUME job \in Jobs, NEW status \in {"completed", "retry-scheduled", "terminal"},
         NEW code \in Code, Conclude(status, code)
  PROVE  /\ pc' = "settling" /\ job' \in Jobs
         /\ job'.entity = job.entity /\ job'.generation = job.generation
         /\ job'.team = job.team /\ job'.payload = job.payload
         /\ job'.run = job.run /\ job'.result.status = status
  <1> DEFINE r == [status |-> status, code |-> code]
  <1>1. r \in Result /\ r.status = status
    BY DEF Result
  <1>2. job' = [job EXCEPT !.result = r] /\ pc' = "settling"
    BY DEF Conclude
  <1> HIDE DEF r
  <1> QED
    BY <1>1, <1>2 DEF Jobs

-----------------------------------------------------------------------------
(* Steps that leave the processor and the Team's rows alone.               *)

(* Nobody but the processor has an operation sent or completed, and a save *)
(* takes the operation out of its hands.                                   *)
OperationsRest ==
  /\ op' \in [Entity -> Operation]
  /\ version' \in [Entity -> 0..MaxVersion]
  /\ \A e \in Entity :
       /\ version'[e] >= version[e]
       /\ op'[e].status \in {"sending", "completed"} =>
            /\ op'[e].status = op[e].status
            /\ op'[e].scope = op[e].scope
            /\ op'[e].generation = op[e].generation
            /\ version'[e] = version[e]

OtherTypes ==
  /\ authority' \in [Runtimes -> 0..MaxVersion]
  /\ alive' \in BOOLEAN
  /\ pairing' \in Pairing
  /\ retries' \in 0..MaxRetries
  /\ requeueing' \in BOOLEAN
  /\ late' \subseteq Requests
  /\ faults' \in 0..MaxFaults
  /\ checks' \in 0..MaxChecks

LEMMA VersionFacts ==
  ASSUME TypeOK
  PROVE  /\ job.entity \in Entity /\ job.payload \in Nat /\ job.run \in Nat
         /\ \A e \in Entity : version[e] \in Nat /\ rows[e].version \in Nat
         /\ \A r \in late : r.version \in Nat /\ r.entity \in Entity
         /\ Run \in Entity
  BY EntityFacts, BoundsAssumption DEF TypeOK, Jobs, Row, Requests

LEMMA OutsideKeeps ==
  ASSUME IInv, OperationsRest, OtherTypes, UNCHANGED <<pc, job, rows>>,
         \A r \in late' : r \in late \/ r.version <= version[r.entity]
  PROVE  IInv'
  <1>1. TypeOK'
    BY DEF IInv, TypeOK, OperationsRest, OtherTypes
  <1>2. /\ job.entity \in Entity /\ job.payload \in Nat /\ job.run \in Nat
        /\ \A e \in Entity : version[e] \in Nat /\ rows[e].version \in Nat
        /\ Run \in Entity
    BY VersionFacts DEF IInv
  <1>3. \A e \in Entity : version'[e] \in Nat
    BY BoundsAssumption DEF OperationsRest
  <1>4. Held(job.entity, job.generation)' =>
          /\ Held(job.entity, job.generation)
          /\ op'[job.entity].scope = op[job.entity].scope
          /\ version'[job.entity] = version[job.entity]
    BY <1>2 DEF Held, OperationsRest
  <1>5. HeldJob' /\ HeldResult'
    BY <1>2, <1>4 DEF IInv, HeldJob, HeldResult
  <1>6. NothingNewer'
    <2>1. \A e \in Entity : version'[e] >= version[e]
      BY DEF OperationsRest
    <2>2. \A r \in late' : r.entity \in Entity /\ r.version \in Nat
          /\ r.version <= version[r.entity]
      BY DEF OtherTypes, Requests, IInv, NothingNewer
    <2> QED
      BY <1>2, <1>3, <2>1, <2>2 DEF IInv, NothingNewer
  <1>7. CompletedIsBound' /\ CompletedMeansSynced'
    BY DEF IInv, CompletedIsBound, CompletedMeansSynced, OperationsRest
  <1> QED
    BY <1>1, <1>5, <1>6, <1>7 DEF IInv

LEMMA SaveKeeps ==
  ASSUME IInv, NEW e \in Entity, Save(e),
         UNCHANGED <<processorVars, requeueing, rows, late, boundVars>>
  PROVE  IInv'
  <1>1. op[e] \in Operation /\ version[e] + 1 \in 0..MaxVersion
        /\ version[Run] \in 0..MaxVersion
    BY EntityFacts, BoundsAssumption DEF IInv, TypeOK, Save, Savable
  <1>2. Enqueued(op[e]) \in Operation
        /\ Enqueued(op[e]).status \in {"pending", "terminal"}
    BY <1>1, EnqueuedType
  <1>3. op' = [op EXCEPT ![e] = Enqueued(op[e])]
        /\ version' = [version EXCEPT ![e] = version[e] + 1]
    BY DEF Save
  <1>4. OperationsRest
    BY <1>1, <1>2, <1>3, VersionFacts DEF IInv, TypeOK, OperationsRest
  <1>5. OtherTypes
    BY <1>1 DEF IInv, TypeOK, OtherTypes, Save, boundVars
  <1> QED
    BY <1>4, <1>5, OutsideKeeps DEF IInv, NothingNewer, processorVars

LEMMA DeleteKeeps ==
  ASSUME IInv, DeleteRun,
         UNCHANGED <<processorVars, requeueing, rows, late, boundVars>>
  PROVE  IInv'
  <1>1. NoOperation \in Operation /\ NoOperation.status = "absent"
    BY EntityFacts DEF NoOperation, Operation, Status, Code
  <1>2. OperationsRest
    BY <1>1, VersionFacts DEF IInv, TypeOK, OperationsRest, DeleteRun
  <1>3. OtherTypes
    BY DEF IInv, TypeOK, OtherTypes, DeleteRun, boundVars
  <1> QED
    BY <1>2, <1>3, OutsideKeeps DEF IInv, NothingNewer, processorVars

LEMMA RetryKeeps ==
  ASSUME IInv, NEW e \in Entity, RetryRemoteSyncOperation(e),
         UNCHANGED <<processorVars, requeueing, rows, late, boundVars>>
  PROVE  IInv'
  <1>1. Anew(op[e]) \in Operation /\ Anew(op[e]).status = "pending"
    BY AnewType DEF IInv, TypeOK
  <1>2. op' = [op EXCEPT ![e] = Anew(op[e])]
    BY DEF RetryRemoteSyncOperation
  <1>3. OperationsRest
    BY <1>1, <1>2, VersionFacts
       DEF IInv, TypeOK, OperationsRest, RetryRemoteSyncOperation, entityVars
  <1>4. OtherTypes
    BY BoundsAssumption
       DEF IInv, TypeOK, OtherTypes, RetryRemoteSyncOperation, entityVars,
           boundVars
  <1> QED
    BY <1>3, <1>4, OutsideKeeps DEF IInv, NothingNewer, processorVars

LEMMA TimeKeeps ==
  ASSUME IInv, NEW e \in Entity, TimePasses(e),
         UNCHANGED <<processorVars, requeueing, rows, late, boundVars>>
  PROVE  IInv'
  <1> DEFINE o == [op[e] EXCEPT !.waiting = FALSE]
  <1>1. op[e] \in Operation
    BY DEF IInv, TypeOK
  <1>2. /\ o \in Operation /\ o.status = op[e].status
        /\ o.scope = op[e].scope /\ o.generation = op[e].generation
    BY <1>1 DEF Operation
  <1>3. op' = [op EXCEPT ![e] = o] /\ UNCHANGED <<entityVars, pairing, retries>>
    BY DEF TimePasses
  <1> HIDE DEF o
  <1>4. OperationsRest
    BY <1>2, <1>3, VersionFacts DEF IInv, TypeOK, OperationsRest, entityVars
  <1>5. OtherTypes
    BY <1>3 DEF IInv, TypeOK, OtherTypes, entityVars, boundVars
  <1> QED
    BY <1>4, <1>5, OutsideKeeps DEF IInv, NothingNewer, processorVars

LEMMA RequeueKeeps ==
  ASSUME IInv, Requeue
  PROVE  IInv'
  <1>1. \A e \in Entity :
          /\ Requeued(op[e]) \in Operation
          /\ Requeued(op[e]) = op[e] \/ Requeued(op[e]).status = "pending"
    BY RequeuedType DEF IInv, TypeOK
  <1>2. OperationsRest
    BY <1>1, VersionFacts DEF IInv, TypeOK, OperationsRest, Requeue, entityVars
  <1>3. OtherTypes
    BY DEF IInv, TypeOK, OtherTypes, Requeue, entityVars, boundVars
  <1> QED
    BY <1>2, <1>3, OutsideKeeps
       DEF IInv, NothingNewer, Requeue, processorVars

LEMMA PairKeeps ==
  ASSUME IInv, NEW p \in NewPairings, PairDesktop(p)
  PROVE  IInv'
  <1>1. OperationsRest
    BY VersionFacts
       DEF IInv, TypeOK, OperationsRest, PairDesktop, SavePairing, entityVars
  <1>2. OtherTypes
    BY LimitsAssumption
       DEF IInv, TypeOK, OtherTypes, PairDesktop, SavePairing, entityVars,
           boundVars
  <1> QED
    BY <1>1, <1>2, OutsideKeeps
       DEF IInv, NothingNewer, PairDesktop, processorVars

LEMMA BudgetKeeps ==
  ASSUME IInv, NEW e \in Entity, UploadForBudget(e)
  PROVE  IInv'
  <1> DEFINE r == [entity |-> e, team |-> pairing, version |-> version[e]]
  <1>1. r \in Requests /\ r.version = version[r.entity]
    BY VersionFacts DEF IInv, TypeOK, UploadForBudget, Requests
  <1>2. late' = late \union {r}
    BY DEF UploadForBudget
  <1> HIDE DEF r
  <1>3. OperationsRest
    BY VersionFacts
       DEF IInv, TypeOK, OperationsRest, UploadForBudget, storeVars, entityVars
  <1>4. OtherTypes
    BY <1>1, <1>2, LimitsAssumption
       DEF IInv, TypeOK, OtherTypes, UploadForBudget, storeVars, entityVars
  <1>5. \A x \in late' : x \in late \/ x.version <= version[x.entity]
    BY <1>1, <1>2, VersionFacts DEF IInv, Requests
  <1> QED
    BY <1>3, <1>4, <1>5, OutsideKeeps
       DEF UploadForBudget, processorVars

LEMMA StutterKeeps ==
  ASSUME IInv, UNCHANGED vars
  PROVE  IInv'
  <1>1. OperationsRest
    BY VersionFacts
       DEF IInv, TypeOK, OperationsRest, vars, storeVars, entityVars
  <1>2. OtherTypes
    BY DEF IInv, TypeOK, OtherTypes, vars, storeVars, entityVars, boundVars
  <1> QED
    BY <1>1, <1>2, OutsideKeeps DEF IInv, NothingNewer, vars, processorVars

-----------------------------------------------------------------------------
(* The Team handles an upload.                                             *)

(* What the Team has of an entity stays, and only goes up to what is saved.*)
RowsRest ==
  /\ rows' \in [Entity -> Row]
  /\ \A e \in Entity :
       /\ rows'[e].version <= version[e]
       /\ rows[e].team \in Team =>
            /\ rows'[e].team = rows[e].team
            /\ e \notin Evidence /\ rows[e].version = version[e] =>
                 rows'[e].version = version[e]

LEMMA HandleRests ==
  ASSUME IInv, NEW r \in Requests, r.version <= version[r.entity], Handle(r)
  PROVE  RowsRest
  <1> DEFINE row == [team |-> r.team, version |-> r.version]
  <1>1. /\ r.entity \in Entity /\ r.team \in Team /\ r.version \in Nat
        /\ rows \in [Entity -> Row]
        /\ \A e \in Entity : version[e] \in Nat /\ rows[e].version \in Nat
                             /\ rows[e].version <= version[e]
    BY VersionFacts DEF Requests, IInv, TypeOK, NothingNewer
  <1>2. CASE ~Accepts(r)
    BY <1>1, <1>2 DEF Handle, RowsRest
  <1>3. CASE Accepts(r)
    <2>1. /\ rows' = [rows EXCEPT ![r.entity] = row]
          /\ row \in Row /\ row.team = r.team /\ row.version = r.version
      BY <1>1, <1>3, EntityFacts DEF Handle, Row
    <2>2. /\ rows[r.entity].team \in {None, r.team}
          /\ r.entity \in Evidence \/ rows[r.entity].version <= r.version
      BY <1>1, <1>3 DEF Accepts, Collides
    <2> HIDE DEF row
    <2>3. rows' \in [Entity -> Row]
      BY <1>1, <2>1
    <2>4. \A e \in Entity \ {r.entity} : rows'[e] = rows[e]
      BY <1>1, <2>1
    <2>5. rows'[r.entity] = row
      BY <1>1, <2>1
    <2> QED
      BY <1>1, <2>1, <2>2, <2>3, <2>4, <2>5, EntityFacts DEF RowsRest
  <1> QED
    BY <1>2, <1>3

LEMMA HandleLateKeeps ==
  ASSUME IInv, NEW r \in late, HandleLate(r)
  PROVE  IInv'
  <1>1. RowsRest
    BY HandleRests DEF IInv, TypeOK, NothingNewer, HandleLate
  <1>2. UNCHANGED <<storeVars, pc, job, requeueing, boundVars>>
        /\ late' \subseteq late
    BY DEF HandleLate, processorVars
  <1>3. TypeOK'
    BY <1>1, <1>2 DEF IInv, TypeOK, RowsRest, storeVars, entityVars, boundVars
  <1>4. HeldJob'
    BY <1>2 DEF IInv, HeldJob, Held, storeVars, entityVars
  <1>5. HeldResult'
    BY <1>1, <1>2, VersionFacts
       DEF IInv, HeldResult, Held, RowsRest, storeVars, entityVars
  <1>6. NothingNewer'
    BY <1>1, <1>2 DEF IInv, NothingNewer, RowsRest, storeVars, entityVars
  <1>7. CompletedIsBound' /\ CompletedMeansSynced'
    BY <1>1, <1>2
       DEF IInv, CompletedIsBound, CompletedMeansSynced, RowsRest, storeVars,
           entityVars
  <1> QED
    BY <1>3, <1>4, <1>5, <1>6, <1>7 DEF IInv

-----------------------------------------------------------------------------
(* The processor's steps.                                                  *)

LEMMA RowsStay ==
  ASSUME IInv, UNCHANGED rows
  PROVE  RowsRest
  BY DEF IInv, TypeOK, NothingNewer, RowsRest

(* Steps after which no upload of the operation in hand is under way or    *)
(* has succeeded.                                                          *)
LEMMA QuietKeeps ==
  ASSUME IInv, RowsRest, op' \in [Entity -> Operation],
         \A e \in Entity :
           op'[e].status = "completed" =>
             op[e].status = "completed" /\ op'[e].scope = op[e].scope,
         \/ pc' \in {"idle", "draining", "claimed"}
         \/ pc' = "binding" /\ job'.team \in Team
         \/ pc' = "settling" /\ job'.result.status # "completed",
         job' \in Jobs,
         job'.payload <= version[job'.entity], job'.run <= version[Run],
         UNCHANGED <<entityVars, pairing, retries>>,
         requeueing' \in BOOLEAN,
         faults' \in 0..MaxFaults, checks' \in 0..MaxChecks,
         late' \subseteq Requests,
         \A r \in late' : r.version <= version[r.entity]
  PROVE  IInv'
  <1>1. TypeOK'
    BY DEF IInv, TypeOK, entityVars, RowsRest
  <1>2. HeldJob' /\ HeldResult'
    BY DEF HeldJob, HeldResult
  <1>3. NothingNewer'
    BY DEF IInv, NothingNewer, RowsRest, entityVars
  <1>4. CompletedIsBound' /\ CompletedMeansSynced'
    BY DEF IInv, CompletedIsBound, CompletedMeansSynced, RowsRest, entityVars
  <1> QED
    BY <1>1, <1>2, <1>3, <1>4 DEF IInv

LEMMA NoJobBounds ==
  ASSUME TypeOK
  PROVE  NoJob.payload <= version[NoJob.entity] /\ NoJob.run <= version[Run]
  BY VersionFacts DEF NoJob

LEMMA DrainKeeps ==
  ASSUME IInv, StartDrain \/ EndDrain,
         UNCHANGED <<rows, requeueing, late, boundVars>>
  PROVE  IInv'
  <1>1. \A e \in Entity :
          /\ Recovered(op[e]) \in Operation
          /\ Recovered(op[e]) = op[e] \/ Recovered(op[e]).status = "pending"
    BY RecoveredType DEF IInv, TypeOK
  <1>2. /\ op' \in [Entity -> Operation]
        /\ \A e \in Entity : op'[e] = op[e] \/ op'[e].status = "pending"
    BY <1>1 DEF StartDrain, EndDrain, storeVars, IInv, TypeOK
  <1>3. pc' \in {"idle", "draining"} /\ job' = NoJob
        /\ UNCHANGED <<entityVars, pairing, retries>>
    BY DEF StartDrain, EndDrain, Goto, storeVars
  <1> QED
    BY <1>2, <1>3, QuietKeeps, RowsStay, NoJobType, NoJobBounds
       DEF IInv, TypeOK, NothingNewer, boundVars

LEMMA ClaimKeeps ==
  ASSUME IInv, NEW e \in Entity, Claim(e),
         UNCHANGED <<rows, requeueing, late, boundVars>>
  PROVE  IInv'
  <1>1. /\ Claimed(op[e]) \in Operation /\ Claimed(op[e]).status = "sending"
    BY ClaimedType DEF IInv, TypeOK
  <1>2. op' = [op EXCEPT ![e] = Claimed(op[e])]
    BY DEF Claim
  <1>3. /\ op' \in [Entity -> Operation] /\ op'[e] \in Operation
        /\ \A x \in Entity : op'[x] = op[x] \/ op'[x].status = "sending"
    BY <1>1, <1>2 DEF IInv, TypeOK
  <1> DEFINE n == op'[e].generation
             k == op'[e].attempts
  <1>4. n \in Nat /\ k \in Nat
    BY <1>3 DEF Operation
  <1>5. job' = [NoJob EXCEPT !.entity = e, !.generation = n, !.attempts = k]
    BY DEF Claim
  <1> HIDE DEF n, k
  <1>6. job' = [entity |-> e, generation |-> n, attempts |-> k, team |-> None,
                payload |-> 0, run |-> 0, part |-> "own", result |-> NoResult]
    BY <1>5 DEF NoJob
  <1>7. job' \in Jobs
    BY <1>4, <1>6, EntityFacts DEF Jobs, NoResult, Result, Code
  <1>8. job'.payload <= version[job'.entity] /\ job'.run <= version[Run]
    BY <1>6, VersionFacts DEF IInv
  <1>9. pc' = "claimed" /\ UNCHANGED <<entityVars, pairing, retries>>
    BY DEF Claim
  <1> QED
    BY <1>3, <1>7, <1>8, <1>9, QuietKeeps, RowsStay
       DEF IInv, TypeOK, NothingNewer, boundVars

(* The processor gives an operation up, or ends its cycle, without having  *)
(* completed anything.                                                     *)
LEMMA ConcludeKeeps ==
  ASSUME IInv, NEW status \in {"retry-scheduled", "terminal"},
         NEW code \in Code, Conclude(status, code), RowsRest,
         UNCHANGED storeVars, requeueing' \in BOOLEAN,
         faults' \in 0..MaxFaults, checks' \in 0..MaxChecks,
         late' \subseteq Requests,
         \A r \in late' : r.version <= version[r.entity]
  PROVE  IInv'
  <1>1. /\ pc' = "settling" /\ job' \in Jobs
        /\ job'.entity = job.entity /\ job'.payload = job.payload
        /\ job'.run = job.run /\ job'.result.status = status
    BY ConcludeMoves DEF IInv, TypeOK
  <1> QED
    BY <1>1, QuietKeeps DEF IInv, TypeOK, NothingNewer, storeVars

LEMMA CheckKeeps ==
  ASSUME IInv, CheckPairing,
         UNCHANGED <<rows, requeueing, late, boundVars>>
  PROVE  IInv'
  <1>1. CASE Conclude("terminal", "pairing_required")
             \/ Conclude("terminal", "scope_mismatch")
    BY <1>1, ConcludeKeeps, RowsStay
       DEF CheckPairing, IInv, TypeOK, NothingNewer, Code, boundVars
  <1>2. CASE /\ pairing \notin {None, Elsewhere} /\ pc' = "binding"
             /\ job' = [job EXCEPT !.team = pairing]
    <2>1. pairing \in Team
      BY <1>2 DEF IInv, TypeOK, Pairing, Scope
    <2>2. /\ job' \in Jobs /\ job'.team \in Team /\ job'.entity = job.entity
          /\ job'.payload = job.payload /\ job'.run = job.run
      BY <1>2, <2>1, EntityFacts DEF IInv, TypeOK, Jobs
    <2> QED
      BY <1>2, <2>2, QuietKeeps, RowsStay
         DEF CheckPairing, IInv, TypeOK, NothingNewer, storeVars, boundVars
  <1> QED
    BY <1>1, <1>2 DEF CheckPairing

LEMMA BindKeeps ==
  ASSUME IInv, BindRemoteSyncOperationScope,
         UNCHANGED <<rows, requeueing, late, boundVars>>
  PROVE  IInv'
  <1> DEFINE e == job.entity
  <1>1. e \in Entity /\ op[e] \in Operation /\ job.team \in Team
        /\ UNCHANGED <<entityVars, pairing, retries>>
    BY VersionFacts DEF IInv, TypeOK, BindRemoteSyncOperationScope
  <1>2. CASE Goto("draining") /\ UNCHANGED op
    BY <1>1, <1>2, QuietKeeps, RowsStay, NoJobType, NoJobBounds
       DEF Goto, IInv, TypeOK, NothingNewer, boundVars
  <1>3. CASE Conclude("terminal", "scope_mismatch") /\ UNCHANGED op
    BY <1>1, <1>3, ConcludeKeeps, RowsStay
       DEF IInv, TypeOK, NothingNewer, Code, boundVars, storeVars
  <1>4. CASE /\ Held(e, job.generation)
             /\ op' = [op EXCEPT ![e].scope = job.team]
             /\ pc' = "connecting" /\ UNCHANGED job
    <2> DEFINE o == [op[e] EXCEPT !.scope = job.team]
    <2>1. /\ o \in Operation /\ o.status = op[e].status
          /\ o.generation = op[e].generation /\ o.scope = job.team
      BY <1>1, EntityFacts DEF Operation
    <2>2. op' = [op EXCEPT ![e] = o] /\ op[e].status = "sending"
      BY <1>4 DEF Held
    <2> HIDE DEF o
    <2>3. op' \in [Entity -> Operation] /\ op'[e] = o
          /\ \A x \in Entity \ {e} : op'[x] = op[x]
      BY <1>1, <2>1, <2>2 DEF IInv, TypeOK
    <2>4. TypeOK'
      BY <1>1, <1>4, <2>3 DEF IInv, TypeOK, entityVars, boundVars
    <2>5. HeldJob' /\ HeldResult'
      BY <1>1, <1>4, <2>1, <2>3 DEF HeldJob, HeldResult
    <2>6. NothingNewer'
      BY <1>1, <1>4 DEF IInv, NothingNewer, entityVars
    <2>7. CompletedIsBound' /\ CompletedMeansSynced'
      BY <1>1, <2>1, <2>2, <2>3
         DEF IInv, CompletedIsBound, CompletedMeansSynced, entityVars
    <2> QED
      BY <2>4, <2>5, <2>6, <2>7 DEF IInv
  <1> QED
    BY <1>2, <1>3, <1>4 DEF BindRemoteSyncOperationScope

LEMMA ConnectKeeps ==
  ASSUME IInv, Connect, UNCHANGED <<rows, requeueing, late, boundVars>>
  PROVE  IInv'
  <1> DEFINE e == job.entity
  <1>1. e \in Entity /\ job.team \in Team /\ version[e] \in Nat
        /\ pc = "connecting" /\ UNCHANGED storeVars
    BY VersionFacts DEF IInv, TypeOK, Connect
  <1>2. CASE Conclude("terminal", "scope_mismatch")
             \/ Conclude("terminal", "entity_missing")
    BY <1>1, <1>2, ConcludeKeeps, RowsStay
       DEF IInv, TypeOK, NothingNewer, Code, boundVars
  <1>3. CASE pc' = "sending" /\ job' = [job EXCEPT !.payload = version[e]]
    <2>1. /\ job' \in Jobs /\ job'.entity = e /\ job'.team = job.team
          /\ job'.generation = job.generation /\ job'.run = job.run
          /\ job'.payload = version[e]
      BY <1>1, <1>3 DEF IInv, TypeOK, Jobs
    <2>2. TypeOK'
      BY <1>1, <1>3, <2>1 DEF IInv, TypeOK, storeVars, entityVars, boundVars
    <2>3. HeldJob' /\ HeldResult'
      BY <1>1, <1>3, <2>1
         DEF IInv, HeldJob, HeldResult, Held, storeVars, entityVars
    <2>4. NothingNewer'
      BY <1>1, <2>1 DEF IInv, NothingNewer, storeVars, entityVars
    <2>5. CompletedIsBound' /\ CompletedMeansSynced'
      BY <1>1 DEF IInv, CompletedIsBound, CompletedMeansSynced, storeVars,
                  entityVars
    <2> QED
      BY <2>2, <2>3, <2>4, <2>5 DEF IInv
  <1> QED
    BY <1>2, <1>3 DEF Connect

LEMMA RequestIsSound ==
  ASSUME IInv, pc = "sending"
  PROVE  /\ Request \in Requests /\ Request.version <= version[Request.entity]
         /\ job.part # "run" => /\ Request.entity = job.entity
                                /\ Request.team = job.team
                                /\ Request.version = job.payload
  BY VersionFacts DEF IInv, TypeOK, NothingNewer, Request, Requests, Jobs

(* Only the answer to the entity's own summary completes the operation.    *)
LEMMA AnswerKeeps ==
  ASSUME IInv, Answer, UNCHANGED <<requeueing, late, boundVars>>
  PROVE  IInv'
  <1> DEFINE e == job.entity
  <1>1. /\ pc = "sending" /\ UNCHANGED storeVars /\ job.team \in Team
        /\ e \in Entity /\ job \in Jobs
    BY VersionFacts DEF Answer, IInv, TypeOK
  <1>2. RowsRest
    BY <1>1, RequestIsSound, HandleRests DEF Answer
  <1>3. CASE \E code \in Code : Conclude("terminal", code)
    BY <1>1, <1>2, <1>3, ConcludeKeeps
       DEF IInv, TypeOK, NothingNewer, boundVars
  <1>4. CASE \/ job' = [job EXCEPT !.part = "again"] /\ UNCHANGED pc
             \/ /\ job' = [job EXCEPT !.part = "run", !.run = version[Run]]
                /\ UNCHANGED pc
    <2>1. /\ job' \in Jobs /\ job'.entity = e /\ job'.team = job.team
          /\ job'.generation = job.generation /\ job'.payload = job.payload
          /\ job'.run \in {job.run, version[Run]}
      <3>1. version[Run] \in Nat
        BY VersionFacts DEF IInv
      <3>2. CASE job' = [job EXCEPT !.part = "again"]
        BY <1>1, <3>2 DEF Jobs
      <3>3. CASE job' = [job EXCEPT !.part = "run", !.run = version[Run]]
        BY <1>1, <3>1, <3>3 DEF Jobs
      <3> QED
        BY <1>4, <3>2, <3>3
    <2>2. TypeOK'
      BY <1>1, <1>2, <1>4, <2>1
         DEF IInv, TypeOK, RowsRest, storeVars, entityVars, boundVars
    <2>3. HeldJob' /\ HeldResult'
      BY <1>1, <1>4, <2>1
         DEF IInv, HeldJob, HeldResult, Held, storeVars, entityVars
    <2>4. NothingNewer'
      BY <1>1, <1>2, <2>1, VersionFacts
         DEF IInv, NothingNewer, RowsRest, storeVars, entityVars
    <2>5. CompletedIsBound' /\ CompletedMeansSynced'
      BY <1>1, <1>2
         DEF IInv, CompletedIsBound, CompletedMeansSynced, RowsRest,
             storeVars, entityVars
    <2> QED
      BY <2>2, <2>3, <2>4, <2>5 DEF IInv
  <1>5. CASE /\ Accepts(Request) /\ job.part # "run"
             /\ Conclude("completed", "none")
    <2>1. /\ pc' = "settling" /\ job' \in Jobs /\ job'.entity = e
          /\ job'.generation = job.generation /\ job'.team = job.team
          /\ job'.payload = job.payload /\ job'.run = job.run
          /\ job'.result.status = "completed"
      BY <1>1, <1>5, ConcludeMoves DEF Code
    <2>2. rows'[e].team = job.team /\ rows'[e].version = job.payload
      <3>1. /\ Request.entity = e /\ Request.team = job.team
            /\ Request.version = job.payload
        BY <1>1, <1>5, RequestIsSound
      <3>2. rows' = [rows EXCEPT ![e] = [team |-> job.team,
                                         version |-> job.payload]]
        BY <1>5, <3>1 DEF Answer, Handle
      <3>3. rows'[e] = [team |-> job.team, version |-> job.payload]
        BY <1>1, <3>2 DEF IInv, TypeOK
      <3> QED
        BY <3>3
    <2>3. TypeOK'
      BY <1>1, <1>2, <2>1
         DEF IInv, TypeOK, RowsRest, storeVars, entityVars, boundVars
    <2>4. HeldJob' /\ HeldResult'
      BY <1>1, <2>1, <2>2
         DEF IInv, HeldJob, HeldResult, Held, storeVars, entityVars
    <2>5. NothingNewer'
      BY <1>1, <1>2, <2>1
         DEF IInv, NothingNewer, RowsRest, storeVars, entityVars
    <2>6. CompletedIsBound' /\ CompletedMeansSynced'
      BY <1>1, <1>2
         DEF IInv, CompletedIsBound, CompletedMeansSynced, RowsRest,
             storeVars, entityVars
    <2> QED
      BY <2>3, <2>4, <2>5, <2>6 DEF IInv
  <1> QED
    BY <1>3, <1>4, <1>5 DEF Answer, Code

(* What became of the operation counts only if it is still the one held.   *)
LEMMA SettleKeeps ==
  ASSUME IInv, SettleRemoteSyncOperation,
         UNCHANGED <<rows, requeueing, late, boundVars>>
  PROVE  IInv'
  <1> DEFINE e == job.entity
  <1>1. /\ e \in Entity /\ op[e] \in Operation /\ job.result \in Result
        /\ pc = "settling" /\ pc' = "draining" /\ job' = NoJob
        /\ UNCHANGED <<entityVars, pairing, retries>>
    BY VersionFacts
       DEF IInv, TypeOK, Jobs, SettleRemoteSyncOperation, Goto
  <1>2. CASE ~Held(e, job.generation) \/ job.result.status # "completed"
    <2>1. /\ op' \in [Entity -> Operation]
          /\ \A x \in Entity : op'[x] = op[x]
                               \/ op'[x].status # "completed"
      <3>1. Settled(op[e]) \in Operation
            /\ Settled(op[e]).status = job.result.status
        BY <1>1, SettledType
      <3>2. op' = IF Held(e, job.generation)
                 THEN [op EXCEPT ![e] = Settled(op[e])] ELSE op
        BY DEF SettleRemoteSyncOperation
      <3> QED
        BY <1>1, <1>2, <3>1, <3>2 DEF IInv, TypeOK
    <2> QED
      BY <1>1, <2>1, QuietKeeps, RowsStay, NoJobType, NoJobBounds
         DEF IInv, TypeOK, NothingNewer, boundVars
  <1>3. CASE Held(e, job.generation) /\ job.result.status = "completed"
    <2>1. /\ op[e].scope = job.team /\ job.team \in Team
          /\ rows[e].team = job.team
          /\ e \notin Evidence => rows[e].version = version[e]
      BY <1>1, <1>3 DEF IInv, HeldResult
    <2>2. /\ Settled(op[e]) \in Operation /\ Settled(op[e]).scope = op[e].scope
      BY <1>1, SettledType
    <2>3. op' = [op EXCEPT ![e] = Settled(op[e])]
      BY <1>3 DEF SettleRemoteSyncOperation
    <2>4. /\ op' \in [Entity -> Operation] /\ op'[e].scope = job.team
          /\ \A x \in Entity \ {e} : op'[x] = op[x]
      BY <1>1, <2>1, <2>2, <2>3 DEF IInv, TypeOK
    <2>5. TypeOK'
      BY <1>1, <2>4, NoJobType DEF IInv, TypeOK, entityVars, boundVars
    <2>6. HeldJob' /\ HeldResult'
      BY <1>1 DEF HeldJob, HeldResult
    <2>7. NothingNewer'
      BY <1>1, NoJobBounds DEF IInv, NothingNewer, entityVars
    <2>8. CompletedIsBound' /\ CompletedMeansSynced'
      BY <1>1, <2>1, <2>4
         DEF IInv, CompletedIsBound, CompletedMeansSynced, entityVars
    <2> QED
      BY <2>5, <2>6, <2>7, <2>8 DEF IInv
  <1> QED
    BY <1>2, <1>3

LEMMA InFlightHolds ==
  ASSUME IInv
  PROVE  /\ late \union InFlight \subseteq Requests
         /\ \A r \in late \union InFlight : r.version <= version[r.entity]
  BY RequestIsSound DEF IInv, TypeOK, NothingNewer, InFlight

LEMMA FaultKeeps ==
  ASSUME IInv, FaultStep
  PROVE  IInv'
  <1>1. Fault
    BY DEF FaultStep, Crash, GiveUp, DenyUpload, AbortCycle
  <1>2. faults' \in 0..MaxFaults
    BY <1>1, LimitsAssumption DEF Fault, IInv, TypeOK
  <1>3. /\ UNCHANGED storeVars /\ UNCHANGED rows /\ UNCHANGED checks
        /\ requeueing' = FALSE \/ UNCHANGED requeueing
        /\ late' = late \/ late' = late \union InFlight
    BY DEF FaultStep, Crash, GiveUp, DenyUpload, AbortCycle
  <1>4. /\ late' \subseteq Requests
        /\ \A r \in late' : r.version <= version[r.entity]
    BY <1>3, InFlightHolds DEF IInv
  <1>5. /\ late' \subseteq Requests
        /\ \A r \in late' : r.version <= version[r.entity]
        /\ UNCHANGED storeVars /\ UNCHANGED rows
        /\ requeueing' \in BOOLEAN /\ checks' \in 0..MaxChecks
        /\ faults' \in 0..MaxFaults
    BY <1>2, <1>3, <1>4 DEF IInv, TypeOK
  <1>6. CASE Goto("idle")
    BY <1>5, <1>6, QuietKeeps, RowsStay, NoJobType, NoJobBounds
       DEF Goto, IInv, TypeOK, storeVars
  <1>7. CASE \E status \in {"retry-scheduled", "terminal"}, code \in Code :
               Conclude(status, code)
    BY <1>5, <1>7, ConcludeKeeps, RowsStay
  <1> QED
    BY <1>6, <1>7
       DEF FaultStep, Crash, GiveUp, DenyUpload, AbortCycle, RetryOrStop, Code

-----------------------------------------------------------------------------
(* The invariant holds in every reachable state.                           *)

LEMMA InitHolds ==
  ASSUME Init
  PROVE  IInv
  <1>1. NoOperation \in Operation /\ NoOperation.status = "absent"
    BY EntityFacts DEF NoOperation, Operation, Status, Code
  <1>2. NoRow \in Row /\ NoRow.version = 0
    BY EntityFacts DEF NoRow, Row
  <1>3. TypeOK
    <2>1. /\ 0 \in 0..MaxVersion /\ 0 \in 0..MaxRetries
          /\ 0 \in 0..MaxFaults /\ 0 \in 0..MaxChecks
      BY BoundsAssumption, LimitsAssumption
    <2>2. /\ version \in [Entity -> 0..MaxVersion]
          /\ authority \in [Runtimes -> 0..MaxVersion]
          /\ alive \in BOOLEAN
          /\ op \in [Entity -> Operation]
          /\ pairing \in Pairing
          /\ retries \in 0..MaxRetries
      BY <1>1, <2>1, PairingAssumption DEF Init, StoreInit
    <2>3. /\ job \in Jobs /\ pc = "idle" /\ requeueing \in BOOLEAN
          /\ rows \in [Entity -> Row] /\ late \subseteq Requests
      BY <1>2, NoJobType DEF Init
    <2>4. faults \in 0..MaxFaults /\ checks \in 0..MaxChecks
      BY <2>1 DEF Init
    <2> QED
      BY <2>2, <2>3, <2>4 DEF TypeOK
  <1>4. NothingNewer
    BY <1>2, NoJobBounds, <1>3, EntityFacts DEF Init, StoreInit, NothingNewer
  <1> QED
    BY <1>1, <1>3, <1>4
       DEF Init, StoreInit, IInv, HeldJob, HeldResult, CompletedIsBound,
           CompletedMeansSynced

LEMMA StepKeeps ==
  ASSUME IInv, [Next]_vars
  PROVE  IInv'
  <1>1. CASE LocalStep
    BY <1>1, SaveKeeps, DeleteKeeps, RetryKeeps DEF LocalStep
  <1>2. CASE TimeStep
    BY <1>2, TimeKeeps DEF TimeStep
  <1>3. CASE ProcessorStep
    BY <1>3, AnswerKeeps, DrainKeeps, CheckKeeps, BindKeeps, ConnectKeeps,
       SettleKeeps, ClaimKeeps DEF ProcessorStep
  <1>4. CASE FaultStep
    BY <1>4, FaultKeeps
  <1>5. CASE Requeue
    BY <1>5, RequeueKeeps
  <1>6. CASE \E p \in NewPairings : PairDesktop(p)
    BY <1>6, PairKeeps
  <1>7. CASE \E e \in {Run} \union Evidence : UploadForBudget(e)
    BY <1>7, BudgetKeeps, EntityFacts
  <1>8. CASE \E r \in late : HandleLate(r)
    BY <1>8, HandleLateKeeps
  <1>9. CASE UNCHANGED vars
    BY <1>9, StutterKeeps
  <1> QED
    BY <1>1, <1>2, <1>3, <1>4, <1>5, <1>6, <1>7, <1>8, <1>9 DEF Next

LEMMA Invariance == Spec => []IInv
  <1>1. Init => IInv
    BY InitHolds
  <1>2. IInv /\ [Next]_vars => IInv'
    BY StepKeeps
  <1> QED
    BY <1>1, <1>2, PTL DEF Spec

-----------------------------------------------------------------------------
(* The theorems.                                                           *)

(* Every variable has its type, and an upload under way has a Team project.*)
THEOREM TypeCorrect == Spec => []TypeOK
  BY Invariance, PTL DEF IInv

(* What is sent for an operation goes where the operation is bound, though *)
(* the pairing is read twice and may change in between.                    *)
THEOREM SentWithinScope == Spec => []SendsWithinScope
  <1>1. IInv => SendsWithinScope
    BY DEF IInv, HeldJob, SendsWithinScope
  <1> QED
    BY <1>1, Invariance, PTL

(* An operation shown as completed is the truth, whatever arrives late.    *)
THEOREM CompletedIsSynced == Spec => []CompletedMeansSynced
  BY Invariance, PTL DEF IInv

(* Saving, recovering, binding, settling and requeueing leave the scope of *)
(* a bound operation alone, until the operation goes with its run.         *)
LEMMA ScopeStays ==
  ASSUME TypeOK, [Next]_vars, NEW e \in Entity,
         op[e].scope # None, op'[e].status # "absent"
  PROVE  op'[e].scope = op[e].scope
  <1>1. op \in [Entity -> Operation] /\ op[e] \in Operation
    BY DEF TypeOK
  <1>2. CASE UNCHANGED op
    BY <1>2
  <1>3. CASE \E x \in Entity : op' = [op EXCEPT ![x] = Enqueued(op[x])]
                              \/ op' = [op EXCEPT ![x] = Anew(op[x])]
                              \/ op' = [op EXCEPT ![x] = Claimed(op[x])]
    BY <1>1, <1>3, EnqueuedType, AnewType, ClaimedType
  <1>4. CASE \E x \in Entity : op' = [op EXCEPT ![x].waiting = FALSE]
    BY <1>1, <1>4 DEF Operation
  <1>5. CASE DeleteRun
    BY <1>5 DEF DeleteRun, NoOperation
  <1>6. CASE op' = [x \in Entity |-> Recovered(op[x])]
             \/ op' = [x \in Entity |-> Requeued(op[x])]
    BY <1>1, <1>6, RecoveredType, RequeuedType
  <1>7. CASE BindRemoteSyncOperationScope
    <2>1. \/ op' = op
          \/ /\ op' = [op EXCEPT ![job.entity].scope = job.team]
             /\ op[job.entity].scope \in {None, job.team}
      BY <1>7 DEF BindRemoteSyncOperationScope
    <2> QED
      BY <1>1, <2>1 DEF Operation
  <1>8. CASE SettleRemoteSyncOperation
    <2>1. job.result \in Result
      BY DEF TypeOK, Jobs
    <2>2. op' \in {op, [op EXCEPT ![job.entity] = Settled(op[job.entity])]}
      BY <1>8 DEF SettleRemoteSyncOperation
    <2> QED
      BY <1>1, <2>1, <2>2, SettledType
  <1> QED
    <2>1. CASE LocalStep \/ TimeStep \/ Requeue
      BY <2>1, <1>3, <1>4, <1>5, <1>6
         DEF LocalStep, Save, RetryRemoteSyncOperation, TimeStep, TimePasses,
             Requeue
    <2>2. CASE ProcessorStep
      BY <2>2, <1>2, <1>3, <1>6, <1>7, <1>8
         DEF ProcessorStep, Answer, StartDrain, EndDrain, CheckPairing,
             Connect, Claim, storeVars
    <2>3. CASE FaultStep \/ UNCHANGED vars
      BY <2>3, <1>2 DEF FaultStep, Crash, GiveUp, DenyUpload, AbortCycle, vars,
                        storeVars
    <2>4. CASE \/ \E p \in NewPairings : PairDesktop(p)
               \/ \E x \in {Run} \union Evidence : UploadForBudget(x)
               \/ \E r \in late : HandleLate(r)
      BY <2>4, <1>2
         DEF PairDesktop, SavePairing, UploadForBudget, HandleLate, storeVars
    <2> QED
      BY <2>1, <2>2, <2>3, <2>4 DEF Next

(* Pairing anew never moves an operation to another Team project.          *)
THEOREM ScopeLasts == Spec => ScopeNeverChanges
  <1>1. IInv /\ [Next]_vars =>
          [\A e \in Entity :
             op[e].scope # None /\ op'[e].status # "absent" =>
               op'[e].scope = op[e].scope]_vars
    BY ScopeStays DEF IInv
  <1> QED
    BY <1>1, Invariance, PTL DEF Spec, ScopeNeverChanges
=============================================================================
