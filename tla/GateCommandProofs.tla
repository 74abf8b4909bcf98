-------------------------- MODULE GateCommandProofs -------------------------
(***************************************************************************)
(* Proofs about the Gate Command protocol, for any number of commands, any *)
(* clocks and any bounds.                                                  *)
(***************************************************************************)
EXTENDS GateCommand, SequenceTheorems, TLAPS

(* The shape of the records the Team's operations write.                   *)
LEMMA CommandWrites ==
  ASSUME TeamTypeOK, NEW c \in Command
  PROVE  /\ cmd[c] \in Commands
         /\ Expire(c) \in Commands
         /\ Revoke(c) \in Commands
  BY DEF TeamTypeOK, Commands, Expire, Revoke, Status, Active, Outcome

LEMMA NewReceiptType ==
  ASSUME TeamTypeOK, NEW c \in Command
  PROVE  NewReceipt(c) \in Receipts
  BY TimesAssumption DEF TeamTypeOK, Commands, NewReceipt, Receipts

LEMMA TerminalStatusType ==
  ASSUME NEW outcome
  PROVE  TerminalStatus(outcome) \in {"applied", "expired", "rejected"}
  BY DEF TerminalStatus

(* Every operation of the Team keeps its tables in shape.                  *)
LEMMA ListTypes ==
  ASSUME TeamTypeOK, ListGateCommands
  PROVE  TeamTypeOK'
  BY CommandWrites DEF TeamTypeOK, ListGateCommands, TerminalizeObserved

LEMMA CreateTypes ==
  ASSUME TeamTypeOK, NEW c \in Command, NEW a \in Action,
         CreateGateCommand(c, a)
  PROVE  TeamTypeOK'
  <1>1. projection.version \in Nat /\ clock + TTL \in Nat
    BY TimesAssumption DEF TeamTypeOK, RunStates
  <1>2. ExpireTuple(projection.version) \in [Command -> Commands]
    BY CommandWrites DEF ExpireTuple
  <1>3. [status |-> "pending", outcome |-> None, action |-> a,
         expected |-> projection.version, expiresAt |-> clock + TTL]
          \in Commands
    BY <1>1 DEF Commands, Status, Active
  <1>4. cmd' \in [Command -> Commands]
    BY <1>2, <1>3 DEF CreateGateCommand
  <1> QED
    BY <1>4 DEF TeamTypeOK, CreateGateCommand

LEMMA RefuseTypes ==
  ASSUME TeamTypeOK, NEW c \in Command,
         RefuseActiveConflict(c) \/ RefuseCreate(c)
  PROVE  TeamTypeOK'
  <1>1. ExpireTuple(projection.version) \in [Command -> Commands]
    BY CommandWrites DEF ExpireTuple
  <1>2. \A f \in [Command -> Commands] :
          [f EXCEPT ![c].status = "refused"] \in [Command -> Commands]
    BY DEF Commands, Status
  <1>3. cmd' \in [Command -> Commands]
    BY <1>1, <1>2 DEF RefuseActiveConflict, RefuseCreate, TeamTypeOK
  <1> QED
    BY <1>3 DEF TeamTypeOK, RefuseActiveConflict, RefuseCreate

LEMMA ReceiptTypes ==
  ASSUME TeamTypeOK, NEW c \in Command, CreateGateCommandReceipt(c)
  PROVE  /\ TeamTypeOK'
         /\ \A d \in Command : Len(receipts'[d]) >= Len(receipts[d])
         /\ Len(receipts'[c]) \in Nat
  <1>0. \A d \in Command : Len(receipts[d]) \in Nat
    BY LenProperties DEF TeamTypeOK
  <1>1. CASE LeaseReceipt(c)
    <2>1. Append(receipts[c], NewReceipt(c)) \in Seq(Receipts)
      BY AppendProperties, NewReceiptType DEF TeamTypeOK
    <2>2. Len(Append(receipts[c], NewReceipt(c))) = Len(receipts[c]) + 1
      BY AppendProperties, NewReceiptType DEF TeamTypeOK
    <2>3. receipts' = [receipts EXCEPT ![c] = Append(@, NewReceipt(c))]
      BY <1>1 DEF LeaseReceipt
    <2>4. receipts' \in [Command -> Seq(Receipts)]
      BY <2>1, <2>3 DEF TeamTypeOK
    <2>5. \A d \in Command : Len(receipts'[d]) >= Len(receipts[d])
      BY <1>0, <2>2, <2>3 DEF TeamTypeOK
    <2>6. cmd' \in [Command -> Commands]
      <3>1. cmd[c] \in Commands /\ "delivering" \in Status
        BY DEF TeamTypeOK, Status, Active
      <3>2. [cmd[c] EXCEPT !.status = "delivering"] \in Commands
        BY <3>1 DEF Commands
      <3>3. cmd' = [cmd EXCEPT ![c] = [cmd[c] EXCEPT !.status = "delivering"]]
        BY <1>1 DEF LeaseReceipt
      <3> QED
        BY <3>2, <3>3 DEF TeamTypeOK
    <2>7. Len(receipts'[c]) \in Nat
      BY <2>4, LenProperties
    <2> QED
      BY <1>1, <2>4, <2>5, <2>6, <2>7 DEF LeaseReceipt, TeamTypeOK
  <1>2. CASE ReplayReceipt(c)
    BY <1>0, <1>2 DEF ReplayReceipt, TeamTypeOK, teamVars
  <1>3. CASE RefuseReceipt(c)
    <2>1. cmd' \in [Command -> Commands]
      BY <1>3, CommandWrites DEF RefuseReceipt, TeamTypeOK
    <2> QED
      BY <1>0, <1>3, <2>1 DEF RefuseReceipt, TeamTypeOK
  <1> QED
    BY <1>1, <1>2, <1>3 DEF CreateGateCommandReceipt

LEMMA AckTypes ==
  ASSUME TeamTypeOK, NEW c \in Command, NEW ack \in Decisions,
         ack.attempt \in 1..Len(receipts[c]),
         AcknowledgeGateCommand(c, ack)
  PROVE  /\ TeamTypeOK'
         /\ \A d \in Command : Len(receipts'[d]) = Len(receipts[d])
  <1>1. CASE AcceptAck(c, ack)
    <2> DEFINE k == ack.attempt
               r == [receipts[c][k] EXCEPT !.ackedAt = clock]
    <2>1. receipts[c] \in Seq(Receipts)
      BY DEF TeamTypeOK
    <2>2. r \in Receipts
      <3>1. receipts[c][k] \in Receipts
        BY <2>1, ElementOfSeq
      <3> QED
        BY <3>1 DEF Receipts, TeamTypeOK
    <2>3. /\ [receipts[c] EXCEPT ![k] = r] \in Seq(Receipts)
          /\ Len([receipts[c] EXCEPT ![k] = r]) = Len(receipts[c])
      BY <2>1, <2>2, ExceptSeq
    <2>4. receipts' = [receipts EXCEPT ![c] = [receipts[c] EXCEPT ![k] = r]]
      BY <1>1 DEF AcceptAck
    <2>5. receipts' \in [Command -> Seq(Receipts)]
      BY <2>3, <2>4 DEF TeamTypeOK
    <2>6. \A d \in Command : Len(receipts'[d]) = Len(receipts[d])
      BY <2>3, <2>4 DEF TeamTypeOK
    <2>7. cmd' \in [Command -> Commands]
      <3>1. ack.outcome \in Outcome
        BY DEF Decisions
      <3>2. TerminalStatus(ack.outcome) \in Status
        BY TerminalStatusType DEF Status
      <3>3. cmd[c] \in Commands
        BY DEF TeamTypeOK
      <3>4. [cmd[c] EXCEPT !.status = TerminalStatus(ack.outcome),
                           !.outcome = ack.outcome] \in Commands
        BY <3>1, <3>2, <3>3 DEF Commands
      <3>5. cmd' = [cmd EXCEPT ![c] =
                      [cmd[c] EXCEPT !.status = TerminalStatus(ack.outcome),
                                     !.outcome = ack.outcome]]
        BY <1>1 DEF AcceptAck
      <3> QED
        BY <3>4, <3>5 DEF TeamTypeOK
    <2>8. teamAck' \in [Command -> Decisions \union {None}]
      BY <1>1 DEF AcceptAck, TeamTypeOK
    <2> QED
      BY <1>1, <2>5, <2>6, <2>7, <2>8 DEF AcceptAck, TeamTypeOK
  <1>2. CASE ReplayOrRefuseAck(c, ack)
    BY <1>2 DEF ReplayOrRefuseAck, teamVars, TeamTypeOK
  <1> QED
    BY <1>1, <1>2 DEF AcknowledgeGateCommand

-----------------------------------------------------------------------------
(* The shape of what the poll loop computes.                               *)
LEMMA NowType ==
  ASSUME TypeOK
  PROVE  Now \in Int
  BY SkewsAssumption DEF TypeOK, TeamTypeOK, DesktopTypeOK, Now

LEMMA NoJobType == NoJob \in Jobs
  BY DEF NoJob, Jobs

LEMMA JobForType ==
  ASSUME NEW c \in Command
  PROVE  /\ [NoJob EXCEPT !.command = c] \in Jobs
         /\ [NoJob EXCEPT !.command = c].command = c
  BY NoJobType DEF NoJob, Jobs

LEMMA DecideType ==
  ASSUME TypeOK, NEW outcome \in Outcome
  PROVE  /\ Decide(outcome) \in Jobs
         /\ Decide(outcome).outcome = outcome
         /\ Decide(outcome).command = job.command
         /\ Decide(outcome).attempt = job.attempt
  BY NowType DEF TypeOK, DesktopTypeOK, Decide, Jobs

LEMMA VerdictType == Verdict \in Outcome
  BY DEF Verdict, Outcome

LEMMA ExecutionType ==
  ASSUME TypeOK, job.command \in Command, job.outcome \in Outcome
  PROVE  /\ Execution(job) \in Decisions
         /\ Execution(job).attempt = job.attempt
  <1>1. Resolve(job) \in Outcome
    BY DEF Resolve, Outcome
  <1>2. /\ run.version \in Nat
        /\ cmd[job.command].expected \in Nat
        /\ job.attempt \in Nat
        /\ job.evaluatedAt \in Int
    BY DEF TypeOK, TeamTypeOK, DesktopTypeOK, RunStates, Commands, Jobs
  <1> QED
    BY <1>1, <1>2 DEF Execution, Decisions

-----------------------------------------------------------------------------
(* Steps of the poll loop within the desktop.                              *)
LEMMA LoopStepInv ==
  ASSUME IInv, LoopStep
  PROVE  IInv'
  <1> USE DEF storeVars
  <1>1. TeamTypeOK' /\ (late \subseteq Requests)' /\ (faults \in Nat)'
    BY DEF LoopStep, IInv, TypeOK, TeamTypeOK, teamVars, netVars, Requests
  <1>2. UNCHANGED <<cmd, receipts, teamAck, late>>
    BY DEF LoopStep, teamVars, netVars
  <1>3. CASE StartPoll
    BY <1>1, <1>2, <1>3
    DEF StartPoll, PendingAcks, IInv, TypeOK, DesktopTypeOK, LoopLinks,
        StoreLinks, TeamLinks
  <1>4. ASSUME NEW c \in Command, RetryPendingAck(c) PROVE IInv'
    BY <1>1, <1>2, <1>4, NoJobType
    DEF RetryPendingAck, NoJob, Jobs, IInv, TypeOK, DesktopTypeOK, LoopLinks,
        StoreLinks, TeamLinks
  <1>5. ASSUME NEW c \in Command, TakeCommand(c) PROVE IInv'
    BY <1>1, <1>2, <1>5, NoJobType
    DEF TakeCommand, NoJob, Jobs, IInv, TypeOK, DesktopTypeOK, LoopLinks,
        StoreLinks, TeamLinks
  <1>6. CASE StopOnBacklog
    BY <1>1, <1>2, <1>6
    DEF StopOnBacklog, IInv, TypeOK, DesktopTypeOK, LoopLinks,
        StoreLinks, TeamLinks
  <1>7. CASE EndPoll
    BY <1>1, <1>2, <1>7
    DEF EndPoll, IInv, TypeOK, DesktopTypeOK, LoopLinks,
        StoreLinks, TeamLinks
  <1>8. CASE CheckReceipt
    <2>1. StoreLinks' /\ TeamLinks'
      BY <1>2, <1>8 DEF CheckReceipt, IInv, StoreLinks, TeamLinks
    <2>2. job.command \in Command /\ job.attempt \in Nat /\ phase # "idle"
      BY <1>8 DEF CheckReceipt, IInv, TypeOK, DesktopTypeOK, Jobs
    <2>3. received' \subseteq Command \X Nat
      BY <1>8, <2>2 DEF CheckReceipt, IInv, TypeOK, DesktopTypeOK
    <2>4. \/ NextItem
          \/ GoOn("decided", Decide("expired"))
          \/ GoOn("observed", job)
      BY <1>8 DEF CheckReceipt
    <2>5. "expired" \in Outcome
      BY DEF Outcome
    <2>6. job' \in Jobs /\ (pc' # "next" => job'.command = job.command)
      BY <2>4, <2>5, NoJobType, DecideType
      DEF NextItem, GoOn, IInv, TypeOK, DesktopTypeOK
    <2>7. DesktopTypeOK'
      BY <1>8, <2>2, <2>3, <2>4, <2>6
      DEF CheckReceipt, NextItem, GoOn, IInv, TypeOK, DesktopTypeOK
    <2>8. LoopLinks'
      BY <1>2, <1>8, <2>4, <2>5, DecideType
      DEF CheckReceipt, NextItem, GoOn, IInv, LoopLinks
    <2> QED
      BY <1>1, <2>1, <2>7, <2>8 DEF IInv, TypeOK
  <1>9. CASE LoadRun
    BY <1>1, <1>2, <1>9
    DEF LoadRun, GoOn, Jobs, RunStates, IInv, TypeOK,
        DesktopTypeOK, LoopLinks, StoreLinks, TeamLinks
  <1>10. CASE Evaluate
    <2>1. StoreLinks' /\ TeamLinks'
      BY <1>2, <1>10 DEF Evaluate, IInv, StoreLinks, TeamLinks
    <2>2. job.command \in Command /\ phase # "idle"
      BY <1>10 DEF Evaluate, IInv, TypeOK, DesktopTypeOK
    <2>3. "expired" \in Outcome
      BY DEF Outcome
    <2>4. PICK outcome \in Outcome :
            NextItem \/ GoOn("decided", Decide(outcome))
      BY <1>10, <2>3, VerdictType DEF Evaluate
    <2>5. job' \in Jobs /\ (pc' # "next" => job'.command = job.command)
      BY <2>4, NoJobType, DecideType DEF NextItem, GoOn, IInv
    <2>6. DesktopTypeOK'
      BY <1>10, <2>2, <2>4, <2>5
      DEF Evaluate, NextItem, GoOn, IInv, TypeOK, DesktopTypeOK
    <2>7. LoopLinks'
      BY <1>2, <1>10, <2>4, DecideType
      DEF Evaluate, NextItem, GoOn, IInv, LoopLinks
    <2> QED
      BY <1>1, <2>1, <2>6, <2>7 DEF IInv, TypeOK
  <1>11. CASE CommitDecision
    <2> DEFINE c == job.command
    <2>1. /\ c \in Command /\ phase # "idle"
          /\ job.outcome \in Outcome
          /\ job.attempt \in 1..Len(receipts[c])
          /\ job.attempt \in Nat /\ job.base \in Nat
          /\ exec[c] = None
      BY <1>11
      DEF CommitDecision, NoExecution, IInv, TypeOK, DesktopTypeOK, LoopLinks,
          Jobs
    <2>2. /\ Execution(job) \in Decisions
          /\ Execution(job).attempt = job.attempt
          /\ Execution(job) # None
      BY <2>1, ExecutionType, NoneAssumption DEF IInv
    <2>3. exec' = [exec EXCEPT ![c] = Execution(job)]
      BY <1>11 DEF CommitDecision
    <2>4. exec \in [Command -> Decisions \union {None}]
      BY DEF IInv, TypeOK, DesktopTypeOK
    <2>5. /\ exec' \in [Command -> Decisions \union {None}]
          /\ \A d \in Command : exec[d] # None => exec'[d] = exec[d]
          /\ exec'[c] = Execution(job)
      BY <2>1, <2>2, <2>3, <2>4
    <2>6. \/ \E atGate \in BOOLEAN :
               WriteRun([version |-> job.base + 1, atGate |-> atGate])
          \/ UNCHANGED <<run, summaries>>
      BY <1>11 DEF CommitDecision
    <2>7. run' \in RunStates /\ summaries' \subseteq RunStates
      <3>1. \A atGate \in BOOLEAN :
              [version |-> job.base + 1, atGate |-> atGate] \in RunStates
        BY <2>1 DEF RunStates
      <3> QED
        BY <2>6, <3>1 DEF WriteRun, IInv, TypeOK, DesktopTypeOK
    <2>8. /\ job' = [NoJob EXCEPT !.command = c]
          /\ pc' = "acking" /\ phase' = phase /\ todo' = todo
          /\ UNCHANGED <<skew, material>>
          /\ localAck' = [localAck EXCEPT ![c] = "pending"]
          /\ received' \subseteq received
          /\ evaluated' = evaluated \union {<<c, job.attempt>>}
      BY <1>11 DEF CommitDecision, GoOn
    <2>9. job' \in Jobs /\ job'.command = c
      BY <2>1, <2>8, JobForType
    <2>10. DesktopTypeOK'
      BY <2>1, <2>5, <2>7, <2>8, <2>9 DEF IInv, TypeOK, DesktopTypeOK
    <2>11. LoopLinks'
      BY <2>2, <2>5, <2>8, <2>9 DEF IInv, TypeOK, DesktopTypeOK, LoopLinks
    <2>12. StoreLinks'
      <3>1. \A d \in Command : localAck'[d] # "none" => exec'[d] # None
        BY <2>2, <2>3, <2>4, <2>8
        DEF IInv, TypeOK, DesktopTypeOK, StoreLinks
      <3>2. \A d \in Command : exec'[d] # None =>
              exec'[d].attempt \in 1..Len(receipts'[d])
        BY <1>2, <2>1, <2>2, <2>3, <2>4 DEF IInv, StoreLinks
      <3>3. \A r \in late' : r.kind = "ack" =>
              exec'[r.command] # None /\ r.ack = exec'[r.command]
        <4>1. \A r \in late : r.command \in Command
          BY DEF IInv, TypeOK, Requests
        <4> QED
          BY <1>2, <2>5, <4>1 DEF IInv, StoreLinks
      <3> QED
        BY <3>1, <3>2, <3>3 DEF StoreLinks
    <2>13. TeamLinks'
      <3>1. \A d \in Command : teamAck[d] # None => exec[d] # None
        BY DEF IInv, TeamLinks
      <3> QED
        BY <1>2, <2>5, <3>1 DEF IInv, TeamLinks
    <2> QED
      BY <1>1, <2>10, <2>11, <2>12, <2>13 DEF IInv, TypeOK
  <1>12. CASE ReplayExecution
    <2> DEFINE c == job.command
    <2>1. StoreLinks' /\ TeamLinks'
      BY <1>2, <1>12 DEF ReplayExecution, IInv, StoreLinks, TeamLinks
    <2>2. c \in Command /\ phase # "idle" /\ exec[c] # None
      BY <1>12
      DEF ReplayExecution, NoExecution, IInv, TypeOK, DesktopTypeOK
    <2>3. NextItem \/ GoOn("acking", [NoJob EXCEPT !.command = c])
      BY <1>12 DEF ReplayExecution
    <2>4. job' \in Jobs /\ (pc' # "next" => job'.command = c)
      BY <2>2, <2>3, NoJobType DEF NextItem, GoOn, NoJob, Jobs
    <2>5. DesktopTypeOK'
      BY <1>12, <2>2, <2>3, <2>4
      DEF ReplayExecution, NextItem, GoOn, IInv, TypeOK, DesktopTypeOK
    <2>6. LoopLinks'
      BY <1>2, <1>12, <2>2, <2>3, <2>4
      DEF ReplayExecution, NextItem, GoOn, IInv, LoopLinks
    <2> QED
      BY <1>1, <2>1, <2>5, <2>6 DEF IInv, TypeOK
  <1>13. CASE SettleAck
    <2> DEFINE c == job.command
    <2>1. /\ c \in Command
          /\ UNCHANGED <<skew, run, material, summaries, exec, received,
                         evaluated, phase, todo>>
          /\ pc' = "next" /\ job' = NoJob
      BY <1>13 DEF SettleAck, NextItem, IInv, TypeOK, DesktopTypeOK
    <2>2. /\ localAck' \in
               [Command -> {"none", "pending", "acknowledged", "terminal"}]
          /\ \A d \in Command : localAck'[d] # "none" => localAck[d] # "none"
      BY <1>13, <2>1
      DEF SettleAck, TerminalizeAck, RecordAcknowledged, IInv, TypeOK,
          DesktopTypeOK
    <2>3. DesktopTypeOK'
      BY <2>1, <2>2, NoJobType DEF IInv, TypeOK, DesktopTypeOK
    <2>4. LoopLinks' /\ TeamLinks'
      BY <1>2, <2>1 DEF IInv, LoopLinks, TeamLinks
    <2>5. StoreLinks'
      BY <1>2, <2>1, <2>2 DEF IInv, StoreLinks
    <2> QED
      BY <1>1, <2>3, <2>4, <2>5 DEF IInv, TypeOK
  <1> QED
    BY <1>3, <1>4, <1>5, <1>6, <1>7, <1>8, <1>9, <1>10, <1>11, <1>12, <1>13
    DEF LoopStep

-----------------------------------------------------------------------------
(* Exchanges between the poll loop and the Team.                           *)

Terminal == {"refused", "applied", "rejected", "expired"}

(* What an operation of the Team must leave alone for the links to hold.   *)
TeamKeeps ==
  /\ TeamTypeOK'
  /\ \A c \in Command : Len(receipts'[c]) >= Len(receipts[c])
  /\ UNCHANGED teamAck
  /\ \A c \in Command :
       \/ cmd'[c] = cmd[c]
       \/ /\ cmd[c].status \notin Terminal
          /\ cmd'[c].status # "applied"

LEMMA TeamKeepsLinks ==
  ASSUME IInv, TeamKeeps, UNCHANGED exec
  PROVE  TeamLinks'
  BY DEF IInv, TeamKeeps, TeamLinks, Terminal

LEMMA Sweeps ==
  ASSUME TeamTypeOK, NEW c \in Command
  PROVE  /\ Overdue(c) \/ Disowned(c) =>
              cmd[c].status \notin Terminal
         /\ Expire(c).status # "applied"
         /\ Revoke(c).status # "applied"
  BY DEF Overdue, Disowned, IsActive, Active, Expire, Revoke, TeamTypeOK,
         Commands, Terminal

LEMMA ExpireTupleKeeps ==
  ASSUME TeamTypeOK, NEW v
  PROVE  /\ ExpireTuple(v) \in [Command -> Commands]
         /\ \A d \in Command :
              \/ ExpireTuple(v)[d] = cmd[d]
              \/ /\ cmd[d].status \notin Terminal
                 /\ ExpireTuple(v)[d].status # "applied"
         /\ \A d \in Command : cmd[d].status = "none" =>
              ExpireTuple(v)[d] = cmd[d]
  <1>1. \A d \in Command : Rivals(v) \subseteq Command /\
          (d \in Rivals(v) => cmd[d].status # "none")
    BY DEF Rivals, IsActive, Active
  <1> QED
    BY <1>1, CommandWrites, Sweeps DEF ExpireTuple

LEMMA ListKeeps ==
  ASSUME IInv, ListGateCommands
  PROVE  TeamKeeps
  <1>1. TeamTypeOK /\ TeamTypeOK'
    BY ListTypes DEF IInv, TypeOK
  <1>2. \A c \in Command : Len(receipts[c]) \in Nat
    BY <1>1, LenProperties DEF TeamTypeOK
  <1> QED
    BY <1>1, <1>2, Sweeps
    DEF ListGateCommands, TerminalizeObserved, TeamKeeps

LEMMA ReceiptKeeps ==
  ASSUME IInv, NEW c \in Command, CreateGateCommandReceipt(c)
  PROVE  TeamKeeps
  <1>1. /\ TeamTypeOK /\ TeamTypeOK'
        /\ \A d \in Command : Len(receipts'[d]) >= Len(receipts[d])
    BY ReceiptTypes DEF IInv, TypeOK
  <1>2. UNCHANGED teamAck
    BY DEF CreateGateCommandReceipt, LeaseReceipt, ReplayReceipt,
           RefuseReceipt, teamVars
  <1>3. CASE LeaseReceipt(c)
    BY <1>1, <1>2, <1>3
    DEF LeaseReceipt, TeamKeeps, Terminal, Deliverable, IsActive, Active,
        TeamTypeOK, Commands
  <1>4. CASE ReplayReceipt(c)
    BY <1>1, <1>2, <1>4 DEF ReplayReceipt, TeamKeeps, teamVars
  <1>5. CASE RefuseReceipt(c)
    BY <1>1, <1>2, <1>5, Sweeps DEF RefuseReceipt, TeamKeeps, TeamTypeOK
  <1> QED
    BY <1>3, <1>4, <1>5 DEF CreateGateCommandReceipt

LEMMA WebKeeps ==
  ASSUME IInv, WebStep
  PROVE  TeamKeeps
  <1>1. TeamTypeOK /\ \A c \in Command : Len(receipts[c]) \in Nat
    BY LenProperties DEF IInv, TypeOK, TeamTypeOK
  <1>2. ASSUME NEW c \in Command, NEW a \in Action, CreateGateCommand(c, a)
        PROVE  TeamKeeps
    <2> DEFINE t == ExpireTuple(projection.version)
               new == [status |-> "pending", outcome |-> None, action |-> a,
                       expected |-> projection.version,
                       expiresAt |-> clock + TTL]
    <2>1. /\ UNCHANGED <<receipts, teamAck>> /\ cmd[c].status = "none"
          /\ cmd' = [t EXCEPT ![c] = new] /\ new.status = "pending"
      BY <1>2 DEF CreateGateCommand, CreateAllowed
    <2>2. TeamTypeOK'
      BY <1>1, <1>2, CreateTypes
    <2>3. \A d \in Command \ {c} : cmd'[d] = t[d]
      BY <1>1, <2>1, ExpireTupleKeeps
    <2>4. cmd'[c].status = "pending"
      BY <1>1, <2>1, ExpireTupleKeeps
    <2> QED
      BY <1>1, <2>1, <2>2, <2>3, <2>4, ExpireTupleKeeps DEF TeamKeeps, Terminal
  <1>3. ASSUME NEW c \in Command, RefuseActiveConflict(c) PROVE TeamKeeps
    <2> DEFINE t == ExpireTuple(projection.version)
    <2>1. /\ UNCHANGED <<receipts, teamAck>> /\ cmd[c].status = "none"
          /\ cmd' = [t EXCEPT ![c].status = "refused"]
      BY <1>3 DEF RefuseActiveConflict, CreateAllowed
    <2>2. TeamTypeOK'
      BY <1>1, <1>3, RefuseTypes
    <2>3. \A d \in Command \ {c} : cmd'[d] = t[d]
      BY <1>1, <2>1, ExpireTupleKeeps
    <2>4. cmd'[c].status = "refused"
      BY <1>1, <2>1, ExpireTupleKeeps DEF Commands
    <2> QED
      BY <1>1, <2>1, <2>2, <2>3, <2>4, ExpireTupleKeeps DEF TeamKeeps, Terminal
  <1>4. ASSUME NEW c \in Command, RefuseCreate(c) PROVE TeamKeeps
    <2>1. /\ UNCHANGED <<receipts, teamAck>> /\ cmd[c].status = "none"
          /\ cmd' = [cmd EXCEPT ![c].status = "refused"]
      BY <1>4 DEF RefuseCreate
    <2>2. TeamTypeOK'
      BY <1>1, <1>4, RefuseTypes
    <2>3. /\ \A d \in Command \ {c} : cmd'[d] = cmd[d]
          /\ cmd'[c].status = "refused"
      BY <1>1, <2>1 DEF TeamTypeOK, Commands
    <2> QED
      BY <1>1, <2>1, <2>2, <2>3 DEF TeamKeeps, Terminal
  <1>5. ASSUME NEW c \in Command, ChangeMembership(c) PROVE TeamKeeps
    BY <1>1, <1>5 DEF ChangeMembership, TeamKeeps, TeamTypeOK
  <1>6. ListGateCommands => TeamKeeps
    BY ListKeeps
  <1> QED
    BY <1>2, <1>3, <1>4, <1>5, <1>6 DEF WebStep

(* A request to record a decision only ever carries the decision stored.   *)
LEMMA AckLinks ==
  ASSUME IInv, NEW c \in Command, exec[c] # None,
         AcknowledgeGateCommand(c, exec[c]), UNCHANGED exec
  PROVE  /\ TeamTypeOK' /\ TeamLinks'
         /\ \A d \in Command : Len(receipts'[d]) = Len(receipts[d])
  <1>1. /\ exec[c] \in Decisions
        /\ exec[c].attempt \in 1..Len(receipts[c])
    BY DEF IInv, TypeOK, DesktopTypeOK, StoreLinks
  <1>2. /\ TeamTypeOK /\ TeamTypeOK'
        /\ \A d \in Command : Len(receipts'[d]) = Len(receipts[d])
    BY <1>1, AckTypes DEF IInv, TypeOK
  <1>3. CASE AcceptAck(c, exec[c])
    <2>1. \A d \in Command \ {c} : cmd'[d] = cmd[d] /\ teamAck'[d] = teamAck[d]
      BY <1>2, <1>3 DEF AcceptAck, TeamTypeOK
    <2>2. teamAck'[c] = exec[c] /\ cmd'[c].outcome = exec[c].outcome
      BY <1>2, <1>3 DEF AcceptAck, TeamTypeOK, Commands
    <2>3. cmd'[c].status \in {"applied", "rejected", "expired"}
      BY <1>2, <1>3, TerminalStatusType DEF AcceptAck, TeamTypeOK, Commands
    <2> QED
      BY <1>2, <2>1, <2>2, <2>3 DEF IInv, TeamLinks
  <1>4. CASE ReplayOrRefuseAck(c, exec[c])
    BY <1>2, <1>4 DEF ReplayOrRefuseAck, teamVars, IInv, TeamLinks
  <1> QED
    BY <1>3, <1>4 DEF AcknowledgeGateCommand

(* When the Team moves and LocalStore does not, the links into the Team's  *)
(* tables hold because receipts are only ever added.                       *)
LEMMA TeamMoves ==
  ASSUME IInv, TeamTypeOK', TeamLinks', DesktopTypeOK',
         \A c \in Command : Len(receipts'[c]) >= Len(receipts[c]),
         UNCHANGED <<exec, localAck>>, late' \subseteq late, faults' \in Nat
  PROVE  TypeOK' /\ StoreLinks' /\ TeamLinks'
  <1>1. \A c \in Command : Len(receipts[c]) \in Nat /\ Len(receipts'[c]) \in Nat
    BY LenProperties DEF IInv, TypeOK, TeamTypeOK
  <1> QED
    BY <1>1 DEF IInv, TypeOK, StoreLinks

LEMMA TeamOnlyMoves ==
  ASSUME IInv, TeamTypeOK', TeamLinks',
         \A c \in Command : Len(receipts'[c]) >= Len(receipts[c]),
         UNCHANGED desktopVars, late' \subseteq late, faults' \in Nat
  PROVE  IInv'
  <1>1. DesktopTypeOK' /\ UNCHANGED <<exec, localAck>>
    BY DEF IInv, TypeOK, DesktopTypeOK, desktopVars, storeVars, loopVars
  <1>2. TypeOK' /\ StoreLinks' /\ TeamLinks'
    BY <1>1, TeamMoves
  <1>3. \A c \in Command : Len(receipts[c]) \in Nat /\ Len(receipts'[c]) \in Nat
    BY LenProperties DEF IInv, TypeOK, TeamTypeOK
  <1>4. LoopLinks'
    BY <1>3
    DEF IInv, TypeOK, DesktopTypeOK, LoopLinks, desktopVars, storeVars,
        loopVars
  <1> QED
    BY <1>2, <1>4 DEF IInv

LEMMA WebStepInv ==
  ASSUME IInv, WebStep
  PROVE  IInv'
  <1>1. TeamKeeps /\ UNCHANGED desktopVars /\ UNCHANGED netVars
    BY WebKeeps DEF WebStep
  <1>2. TeamLinks'
    BY <1>1, TeamKeepsLinks DEF desktopVars, storeVars
  <1> QED
    BY <1>1, <1>2, TeamOnlyMoves DEF TeamKeeps, netVars, IInv, TypeOK

LEMMA SyncStepInv ==
  ASSUME IInv, SyncStep
  PROVE  IInv'
  <1>1. TeamTypeOK' /\ UNCHANGED <<cmd, receipts, teamAck>>
    BY DEF SyncStep, UploadRunSummary, IInv, TypeOK, TeamTypeOK, DesktopTypeOK
  <1>2. UNCHANGED desktopVars /\ UNCHANGED netVars
    BY DEF SyncStep
  <1>3. \A c \in Command : Len(receipts'[c]) >= Len(receipts[c])
    BY <1>1, LenProperties DEF IInv, TypeOK, TeamTypeOK
  <1>4. TeamLinks'
    BY <1>1, <1>2 DEF IInv, TeamLinks, desktopVars, storeVars
  <1> QED
    BY <1>1, <1>2, <1>3, <1>4, TeamOnlyMoves DEF netVars, IInv, TypeOK

LEMMA TimeStepInv ==
  ASSUME IInv, TimeStep
  PROVE  IInv'
  <1>1. TeamTypeOK' /\ UNCHANGED <<cmd, receipts, teamAck>>
    BY DEF TimeStep, Tick, IInv, TypeOK, TeamTypeOK
  <1>2. UNCHANGED desktopVars /\ UNCHANGED netVars
    BY DEF TimeStep
  <1>3. \A c \in Command : Len(receipts'[c]) >= Len(receipts[c])
    BY <1>1, LenProperties DEF IInv, TypeOK, TeamTypeOK
  <1>4. TeamLinks'
    BY <1>1, <1>2 DEF IInv, TeamLinks, desktopVars, storeVars
  <1> QED
    BY <1>1, <1>2, <1>3, <1>4, TeamOnlyMoves DEF netVars, IInv, TypeOK

(* Nothing but a change of material or of the run: no decision is touched. *)
LEMMA LocalStepInv ==
  ASSUME IInv, LocalStep
  PROVE  IInv'
  <1>1. /\ UNCHANGED <<cmd, receipts, teamAck, late, exec, localAck, phase, pc,
                       todo, job, skew, received, evaluated>>
        /\ TeamTypeOK' /\ (late \subseteq Requests)' /\ (faults \in Nat)'
    BY DEF LocalStep, LocalTransition, ChangeMaterial, teamVars, netVars,
           loopVars, IInv, TypeOK, TeamTypeOK, Requests
  <1>2. material' \in Materials /\ run' \in RunStates
        /\ summaries' \subseteq RunStates
    BY DEF LocalStep, LocalTransition, ChangeMaterial, WriteRun, RunStates,
           IInv, TypeOK, DesktopTypeOK
  <1>3. DesktopTypeOK'
    BY <1>1, <1>2 DEF IInv, TypeOK, DesktopTypeOK
  <1> QED
    BY <1>1, <1>3 DEF IInv, TypeOK, LoopLinks, StoreLinks, TeamLinks

LEMMA PollInboxInv ==
  ASSUME IInv, PollInbox
  PROVE  IInv'
  <1>1. /\ phase' = "serve" /\ pc' = pc /\ pc = "next" /\ job' = job
        /\ todo' \subseteq Command
        /\ UNCHANGED <<skew, run, material, summaries, exec, localAck,
                       received, evaluated>>
        /\ UNCHANGED netVars
    BY DEF PollInbox, ReadInbox, storeVars
  <1>2. TeamKeeps
    BY ListKeeps DEF PollInbox
  <1>3. TeamLinks'
    BY <1>1, <1>2, TeamKeepsLinks
  <1>4. DesktopTypeOK'
    BY <1>1 DEF IInv, TypeOK, DesktopTypeOK
  <1>5. TypeOK' /\ StoreLinks'
    BY <1>1, <1>2, <1>3, <1>4, TeamMoves
    DEF TeamKeeps, netVars, IInv, TypeOK
  <1>6. LoopLinks'
    BY <1>1 DEF LoopLinks
  <1> QED
    BY <1>3, <1>5, <1>6 DEF IInv

LEMMA RequestReceiptInv ==
  ASSUME IInv, RequestReceipt
  PROVE  IInv'
  <1> DEFINE c == job.command
             n == Len(receipts'[c])
  <1>1. /\ c \in Command /\ pc = "requesting" /\ phase # "idle"
        /\ CreateGateCommandReceipt(c)
        /\ UNCHANGED <<skew, run, material, summaries, exec, localAck,
                       received, evaluated, phase, todo>>
        /\ UNCHANGED netVars
    BY DEF RequestReceipt, NextItem, GoOn, storeVars, IInv, TypeOK,
           DesktopTypeOK
  <1>2. TeamKeeps /\ TeamTypeOK
    BY <1>1, ReceiptKeeps DEF IInv, TypeOK
  <1>3. TeamLinks'
    BY <1>1, <1>2, TeamKeepsLinks
  <1>4. n \in Nat
    BY <1>1, <1>2, ReceiptTypes
  <1>5. \/ pc' = "next" /\ job' = NoJob
        \/ /\ pc' = "received"
           /\ job' = [job EXCEPT !.attempt = n]
           /\ Deliverable(c) /\ teamAck[c] = None
    BY DEF RequestReceipt, NextItem, GoOn
  <1>6. /\ job' \in Jobs
        /\ pc' # "next" => job'.command = c /\ job'.attempt = n
    BY <1>4, <1>5, NoJobType DEF IInv, TypeOK, DesktopTypeOK, Jobs
  <1>7. DesktopTypeOK'
    BY <1>1, <1>5, <1>6 DEF IInv, TypeOK, DesktopTypeOK
  <1>8. TypeOK' /\ StoreLinks'
    BY <1>1, <1>2, <1>3, <1>7, TeamMoves
    DEF TeamKeeps, netVars, IInv, TypeOK
  <1>9. pc' = "received" => n > 0
    <2>1. CASE LeaseReceipt(c)
      BY <1>1, <1>2, <2>1, AppendProperties, NewReceiptType, LenProperties
      DEF LeaseReceipt, TeamTypeOK
    <2>2. CASE ReplayReceipt(c)
      BY <1>1, <1>2, <1>4, <2>2, EmptySeq, LenProperties
      DEF ReplayReceipt, HasLease, teamVars, TeamTypeOK
    <2>3. CASE RefuseReceipt(c)
      BY <1>5, <2>3 DEF RefuseReceipt
    <2> QED
      BY <1>1, <2>1, <2>2, <2>3 DEF CreateGateCommandReceipt
  <1>10. LoopLinks'
    BY <1>1, <1>4, <1>5, <1>6, <1>9 DEF IInv, LoopLinks
  <1> QED
    BY <1>3, <1>8, <1>10 DEF IInv

LEMMA SendAckInv ==
  ASSUME IInv, SendAck
  PROVE  IInv'
  <1> DEFINE c == job.command
  <1>1. /\ c \in Command /\ pc = "acking" /\ phase # "idle"
        /\ AcknowledgeGateCommand(c, exec[c])
        /\ UNCHANGED <<skew, run, material, summaries, exec, localAck,
                       received, evaluated, phase, todo>>
        /\ UNCHANGED netVars
    BY DEF SendAck, GoOn, storeVars, IInv, TypeOK, DesktopTypeOK
  <1>2. exec[c] # None
    BY <1>1 DEF IInv, LoopLinks
  <1>3. /\ TeamTypeOK' /\ TeamLinks'
        /\ \A d \in Command : Len(receipts'[d]) >= Len(receipts[d])
    <2>1. \A d \in Command : Len(receipts[d]) \in Nat
      BY LenProperties DEF IInv, TypeOK, TeamTypeOK
    <2> QED
      BY <1>1, <1>2, <2>1, AckLinks
  <1>4. PICK reply \in {"accepted", "refused"} :
          pc' = "replied" /\ job' = [job EXCEPT !.reply = reply]
    BY DEF SendAck, GoOn
  <1>5. job' \in Jobs /\ job'.command = c
    BY <1>4 DEF IInv, TypeOK, DesktopTypeOK, Jobs
  <1>6. DesktopTypeOK'
    BY <1>1, <1>4, <1>5 DEF IInv, TypeOK, DesktopTypeOK
  <1>7. TypeOK' /\ StoreLinks'
    BY <1>1, <1>3, <1>6, TeamMoves DEF netVars, IInv, TypeOK
  <1>8. LoopLinks'
    BY <1>1, <1>2, <1>4, <1>5 DEF IInv, LoopLinks
  <1> QED
    BY <1>3, <1>7, <1>8 DEF IInv

-----------------------------------------------------------------------------
(* Faults.                                                                 *)

(* A request left on the wire carries the decision stored.                 *)
LEMMA InFlightTypes ==
  ASSUME IInv
  PROVE  /\ InFlight \subseteq Requests
         /\ \A r \in InFlight : r.kind = "ack" =>
              exec[r.command] # None /\ r.ack = exec[r.command]
  <1>1. CASE pc = "requesting"
    BY <1>1
    DEF InFlight, ReceiptRequest, Requests, IInv, TypeOK, DesktopTypeOK
  <1>2. CASE pc = "acking"
    <2>1. job.command \in Command /\ exec[job.command] # None
      BY <1>2 DEF IInv, TypeOK, DesktopTypeOK, LoopLinks
    <2>2. exec[job.command] \in Decisions \union {None}
      BY <2>1 DEF IInv, TypeOK, DesktopTypeOK
    <2>3. InFlight = {AckRequest(job.command)}
      BY <1>2 DEF InFlight
    <2> QED
      BY <2>1, <2>2, <2>3 DEF AckRequest, Requests
  <1>3. CASE pc \notin {"requesting", "acking"}
    BY <1>3 DEF InFlight
  <1> QED
    BY <1>1, <1>2, <1>3

LEMMA FaultCount ==
  ASSUME TypeOK, Fault
  PROVE  faults' \in Nat
  BY DEF TypeOK, Fault

LEMMA DenyAckInv ==
  ASSUME IInv, DenyAck
  PROVE  IInv'
  <1>1. /\ UNCHANGED <<clock, cmd, receipts, teamAck, live, projection, late,
                       skew, run, material, summaries, exec, localAck,
                       received, evaluated, phase, todo>>
        /\ pc = "acking" /\ pc' = "replied"
        /\ job' = [job EXCEPT !.reply = "refused"]
        /\ faults' \in Nat
    BY FaultCount DEF DenyAck, GoOn, teamVars, storeVars, IInv
  <1>2. /\ TeamTypeOK' /\ TeamLinks'
        /\ \A d \in Command : Len(receipts'[d]) >= Len(receipts[d])
    BY <1>1, LenProperties DEF IInv, TypeOK, TeamTypeOK, TeamLinks
  <1>3. job' \in Jobs /\ job'.command = job.command
    BY <1>1 DEF IInv, TypeOK, DesktopTypeOK, Jobs
  <1>4. DesktopTypeOK'
    BY <1>1, <1>3 DEF IInv, TypeOK, DesktopTypeOK
  <1>5. TypeOK' /\ StoreLinks'
    BY <1>1, <1>2, <1>4, TeamMoves
  <1>6. LoopLinks'
    BY <1>1, <1>3 DEF IInv, LoopLinks
  <1> QED
    BY <1>2, <1>5, <1>6 DEF IInv

LEMMA LeaveInv ==
  ASSUME IInv, UNCHANGED <<clock, cmd, receipts, teamAck, live, projection,
                           skew, run, material, summaries, exec, localAck,
                           received, evaluated>>,
         late' = late \union InFlight, faults' \in Nat,
         pc' = "next", job' = NoJob,
         \/ UNCHANGED <<phase, todo>>
         \/ phase' = "idle" /\ todo' = {}
  PROVE  IInv'
  <1>1. TeamTypeOK' /\ TeamLinks'
    BY DEF IInv, TypeOK, TeamTypeOK, TeamLinks
  <1>2. DesktopTypeOK'
    BY NoJobType DEF IInv, TypeOK, DesktopTypeOK
  <1>3. (late \subseteq Requests)'
    BY InFlightTypes DEF IInv, TypeOK, Requests
  <1>4. LoopLinks'
    BY DEF IInv, LoopLinks
  <1>5. StoreLinks'
    BY InFlightTypes DEF IInv, StoreLinks
  <1> QED
    BY <1>1, <1>2, <1>3, <1>4, <1>5 DEF IInv, TypeOK

LEMMA GiveUpInv ==
  ASSUME IInv, GiveUp
  PROVE  IInv'
  BY LeaveInv, FaultCount
  DEF GiveUp, NextItem, teamVars, storeVars, IInv

LEMMA CrashInv ==
  ASSUME IInv, Crash
  PROVE  IInv'
  BY LeaveInv, FaultCount
  DEF Crash, CrashDesktop, teamVars, storeVars, IInv

LEMMA HandleLateInv ==
  ASSUME IInv, NEW r \in late, HandleLate(r)
  PROVE  IInv'
  <1>1. /\ r.command \in Command
        /\ late' \subseteq late /\ faults' = faults /\ faults \in Nat
        /\ UNCHANGED desktopVars /\ exec' = exec
    BY DEF HandleLate, desktopVars, storeVars, IInv, TypeOK, Requests
  <1>2. CASE CreateGateCommandReceipt(r.command)
    <2>1. TeamKeeps
      BY <1>1, <1>2, ReceiptKeeps
    <2>2. TeamLinks'
      BY <1>1, <2>1, TeamKeepsLinks
    <2> QED
      BY <1>1, <2>1, <2>2, TeamOnlyMoves DEF TeamKeeps
  <1>3. CASE r.kind = "ack" /\ AcknowledgeGateCommand(r.command, r.ack)
    <2>1. exec[r.command] # None /\ r.ack = exec[r.command]
      BY <1>3 DEF IInv, StoreLinks
    <2>2. /\ TeamTypeOK' /\ TeamLinks'
          /\ \A d \in Command : Len(receipts'[d]) = Len(receipts[d])
      BY <1>1, <1>3, <2>1, AckLinks
    <2>3. \A d \in Command : Len(receipts'[d]) >= Len(receipts[d])
      BY <2>2, LenProperties DEF IInv, TypeOK, TeamTypeOK
    <2> QED
      BY <1>1, <2>2, <2>3, TeamOnlyMoves
  <1> QED
    BY <1>2, <1>3 DEF HandleLate

-----------------------------------------------------------------------------
(* The inductive invariant.                                                *)
LEMMA InitInv == Init => IInv
  <1> SUFFICES ASSUME Init PROVE IInv
    OBVIOUS
  <1>1. TeamTypeOK
    BY EmptySeq, TimesAssumption
    DEF Init, TeamInit, TeamTypeOK, NoCommand, Commands, Status, Active,
        Action, Outcome, RunStates
  <1>2. DesktopTypeOK
    BY NoJobType, MaterialsAssumption
    DEF Init, DesktopInit, DesktopTypeOK, RunStates
  <1>3. late \subseteq Requests /\ faults \in Nat
    BY DEF Init
  <1>4. LoopLinks /\ StoreLinks /\ TeamLinks
    BY DEF Init, TeamInit, DesktopInit, LoopLinks, StoreLinks, TeamLinks,
           NoCommand
  <1> QED
    BY <1>1, <1>2, <1>3, <1>4 DEF IInv, TypeOK

LEMMA StutterInv ==
  ASSUME IInv, UNCHANGED vars
  PROVE  IInv'
  BY DEF vars, teamVars, desktopVars, storeVars, loopVars, netVars, IInv,
         TypeOK, TeamTypeOK, DesktopTypeOK, LoopLinks, StoreLinks, TeamLinks

LEMMA StepInv == IInv /\ [Next]_vars => IInv'
  <1> SUFFICES ASSUME IInv, [Next]_vars PROVE IInv'
    OBVIOUS
  <1>1. PollStep => IInv'
    BY LoopStepInv, PollInboxInv, RequestReceiptInv, SendAckInv DEF PollStep
  <1>2. FaultStep => IInv'
    BY DenyAckInv, GiveUpInv, CrashInv, HandleLateInv DEF FaultStep
  <1> QED
    BY <1>1, <1>2, WebStepInv, SyncStepInv, TimeStepInv, LocalStepInv,
       StutterInv DEF Next

(* The inductive invariant holds throughout.                               *)
THEOREM InductiveInvariant == Spec => []IInv
  BY InitInv, StepInv, PTL DEF Spec

(* The tables of the Team, LocalStore and the poll loop keep their shape.  *)
THEOREM TypeCorrect == Spec => []TypeOK
  <1>1. IInv => TypeOK
    BY DEF IInv
  <1> QED
    BY <1>1, InductiveInvariant, PTL

(* What the Team records as the outcome of a command is the decision the   *)
(* desktop took and stored, for any number of commands and faults.         *)
THEOREM RecordsTruth == Spec => []TeamRecordsTruth
  <1>1. IInv => TeamRecordsTruth
    BY DEF IInv, TeamLinks, TeamRecordsTruth
  <1> QED
    BY <1>1, InductiveInvariant, PTL

-----------------------------------------------------------------------------
(* What a step may do to a command.                                        *)

(* What was asked for never changes.                                       *)
Lasting(d) ==
  cmd[d].status # "none" =>
    /\ cmd'[d].status # "none"
    /\ cmd'[d].action = cmd[d].action
    /\ cmd'[d].expected = cmd[d].expected
    /\ cmd'[d].expiresAt = cmd[d].expiresAt

(* The end of a command is final, but for a decision reported late.        *)
Final(d) ==
  cmd[d].status \in Terminal /\ cmd'[d] # cmd[d] =>
    cmd[d].status = "expired" /\ teamAck[d] = None /\ teamAck'[d] # None

StaysActive(d) == IsActive(d) /\ cmd'[d].expected = cmd[d].expected

(* No command becomes active.                                              *)
NoneActivated(d) == IsActive(d)' => StaysActive(d)

Keeps(d) == Lasting(d) /\ Final(d) /\ NoneActivated(d)

LEMMA SweepSteps ==
  ASSUME TeamTypeOK, NEW d \in Command,
         cmd'[d] \in {cmd[d], Expire(d), Revoke(d)},
         cmd'[d] # cmd[d] => IsActive(d)
  PROVE  Keeps(d)
  <1>1. cmd[d] \in Commands
    BY DEF TeamTypeOK
  <1>2. CASE cmd'[d] = cmd[d]
    BY <1>2 DEF Keeps, Lasting, Final, NoneActivated, StaysActive, IsActive
  <1>3. CASE cmd'[d] = Expire(d) /\ IsActive(d)
    BY <1>1, <1>3
    DEF Expire, Commands, Keeps, Lasting, Final, NoneActivated, StaysActive,
        IsActive, Active, Terminal
  <1>4. CASE cmd'[d] = Revoke(d) /\ IsActive(d)
    BY <1>1, <1>4
    DEF Revoke, Commands, Keeps, Lasting, Final, NoneActivated, StaysActive,
        IsActive, Active, Terminal
  <1> QED
    BY <1>2, <1>3, <1>4

LEMMA ListSteps ==
  ASSUME TeamTypeOK, ListGateCommands, NEW d \in Command
  PROVE  Keeps(d)
  BY SweepSteps
  DEF ListGateCommands, TerminalizeObserved, Overdue, Disowned

(* The commands of a snapshot, when a new one is asked for.                *)
LEMMA TupleSteps ==
  ASSUME TeamTypeOK, NEW v, NEW d \in Command
  PROVE  /\ ExpireTuple(v)[d] \in {cmd[d], Expire(d)}
         /\ ExpireTuple(v)[d] # cmd[d] => IsActive(d)
         /\ d \in Rivals(v) /\ Overdue(d) => ExpireTuple(v)[d] = Expire(d)
  BY DEF ExpireTuple, Rivals

LEMMA RefuseSteps ==
  ASSUME TeamTypeOK, NEW c \in Command, NEW d \in Command,
         RefuseActiveConflict(c) \/ RefuseCreate(c)
  PROVE  Keeps(d)
  <1> DEFINE t == ExpireTuple(projection.version)
  <1>1. cmd[c].status = "none" /\ c \in DOMAIN cmd /\ c \in DOMAIN t
    BY DEF RefuseActiveConflict, RefuseCreate, CreateAllowed, ExpireTuple,
           TeamTypeOK
  <1>2. CASE d # c
    <2>1. cmd'[d] \in {cmd[d], t[d]}
      BY <1>2 DEF RefuseActiveConflict, RefuseCreate, ExpireTuple, TeamTypeOK
    <2> QED
      BY <2>1, TupleSteps, SweepSteps
  <1>3. CASE d = c
    <2>1. t[c] \in Commands /\ cmd[c] \in Commands
      BY ExpireTupleKeeps DEF TeamTypeOK
    <2>2. cmd'[c].status = "refused"
      <3>1. CASE RefuseActiveConflict(c)
        <4>1. cmd'[c] = [t[c] EXCEPT !.status = "refused"]
          BY <1>1, <3>1 DEF RefuseActiveConflict
        <4> QED
          BY <2>1, <4>1 DEF Commands
      <3>2. CASE RefuseCreate(c)
        BY <1>1, <2>1, <3>2 DEF RefuseCreate, Commands
      <3> QED
        BY <3>1, <3>2
    <2> QED
      BY <1>1, <1>3, <2>2
      DEF Keeps, Lasting, Final, NoneActivated, StaysActive, IsActive, Active,
          Terminal
  <1> QED
    BY <1>2, <1>3

LEMMA ReceiptSteps ==
  ASSUME TeamTypeOK, NEW c \in Command, NEW d \in Command,
         CreateGateCommandReceipt(c)
  PROVE  Keeps(d)
  <1>1. CASE LeaseReceipt(c) /\ d = c
    <2>1. cmd[c] \in Commands /\ IsActive(c)
      BY <1>1 DEF LeaseReceipt, Deliverable, TeamTypeOK
    <2>2. cmd'[c] = [cmd[c] EXCEPT !.status = "delivering"]
      BY <1>1 DEF LeaseReceipt, TeamTypeOK
    <2> QED
      BY <1>1, <2>1, <2>2
      DEF Commands, Keeps, Lasting, Final, NoneActivated, StaysActive,
          IsActive, Active, Terminal
  <1>2. CASE LeaseReceipt(c) /\ d # c
    BY <1>2, SweepSteps DEF LeaseReceipt, TeamTypeOK
  <1>3. CASE ReplayReceipt(c)
    BY <1>3, SweepSteps DEF ReplayReceipt, teamVars
  <1>4. CASE RefuseReceipt(c)
    BY <1>4, SweepSteps DEF RefuseReceipt, Overdue, Disowned, TeamTypeOK
  <1> QED
    BY <1>1, <1>2, <1>3, <1>4 DEF CreateGateCommandReceipt

LEMMA AckSteps ==
  ASSUME TeamTypeOK, NEW c \in Command, NEW ack \in Decisions,
         NEW d \in Command, AcknowledgeGateCommand(c, ack)
  PROVE  Keeps(d)
  <1>1. CASE AcceptAck(c, ack) /\ d = c
    <2>1. /\ cmd[c] \in Commands
          /\ cmd[c].status \in {"delivering", "expired"}
          /\ teamAck[c] = None /\ teamAck'[c] # None
      BY <1>1, NoneAssumption DEF AcceptAck, Acceptable, TeamTypeOK
    <2>2. cmd'[c] = [cmd[c] EXCEPT !.status = TerminalStatus(ack.outcome),
                                   !.outcome = ack.outcome]
      BY <1>1 DEF AcceptAck, TeamTypeOK
    <2>3. /\ cmd'[c].status \in {"applied", "expired", "rejected"}
          /\ cmd'[c].action = cmd[c].action
          /\ cmd'[c].expected = cmd[c].expected
          /\ cmd'[c].expiresAt = cmd[c].expiresAt
      BY <2>1, <2>2, TerminalStatusType DEF Commands
    <2> QED
      BY <1>1, <2>1, <2>3
      DEF Keeps, Lasting, Final, NoneActivated, StaysActive, IsActive, Active,
          Terminal
  <1>2. CASE AcceptAck(c, ack) /\ d # c
    BY <1>2, SweepSteps DEF AcceptAck, TeamTypeOK
  <1>3. CASE ReplayOrRefuseAck(c, ack)
    BY <1>3, SweepSteps DEF ReplayOrRefuseAck, teamVars
  <1> QED
    BY <1>1, <1>2, <1>3 DEF AcknowledgeGateCommand

(* Creating a command is the only step that activates one.                 *)
LEMMA CreateSteps ==
  ASSUME TeamTypeOK, NEW c \in Command, NEW a \in Action,
         CreateGateCommand(c, a), NEW d \in Command
  PROVE  /\ Lasting(d) /\ Final(d)
         /\ d # c => Keeps(d)
         /\ d # c /\ IsActive(d)' => cmd'[d].expected # cmd'[c].expected
  <1> DEFINE v == projection.version
             t == ExpireTuple(v)
             new == [status |-> "pending", outcome |-> None, action |-> a,
                     expected |-> v, expiresAt |-> clock + TTL]
  <1>1. /\ cmd[c].status = "none" /\ TupleIsFree(v)
        /\ cmd' = [t EXCEPT ![c] = new]
    BY DEF CreateGateCommand, CreateAllowed
  <1>2. cmd'[c] = new /\ (d # c => cmd'[d] = t[d])
    BY <1>1, ExpireTupleKeeps
  <1>3. CASE d # c
    <2>1. Keeps(d)
      BY <1>2, <1>3, TupleSteps, SweepSteps
    <2>2. ASSUME IsActive(d)', cmd'[d].expected = cmd'[c].expected
          PROVE  FALSE
      <3>1. cmd'[c].expected = v
        BY <1>2
      <3>2. d \in Rivals(v)
        BY <2>1, <2>2, <3>1 DEF Keeps, NoneActivated, StaysActive, Rivals
      <3>3. Overdue(d)
        BY <1>1, <3>2 DEF TupleIsFree
      <3>4. cmd'[d] = Expire(d) /\ cmd[d] \in Commands
        BY <1>2, <1>3, <3>2, <3>3, TupleSteps DEF TeamTypeOK
      <3> QED
        BY <2>2, <3>4 DEF Expire, IsActive, Active, Commands
    <2> QED
      BY <1>3, <2>1, <2>2 DEF Keeps
  <1>4. CASE d = c
    BY <1>1, <1>4 DEF Lasting, Final, Terminal
  <1> QED
    BY <1>3, <1>4

(* A step either creates a command or activates none.                      *)
LEMMA StepKeeps ==
  ASSUME IInv, [Next]_vars
  PROVE  \/ \A d \in Command : Keeps(d)
         \/ \E c \in Command, a \in Action : CreateGateCommand(c, a)
  <1>1. TeamTypeOK
    BY DEF IInv, TypeOK
  <1>2. cmd' = cmd => \A d \in Command : Keeps(d)
    BY <1>1, SweepSteps
  <1>3. CASE WebStep
    <2>1. ASSUME NEW c \in Command,
                 RefuseActiveConflict(c) \/ RefuseCreate(c)
          PROVE  \A d \in Command : Keeps(d)
      BY <1>1, <2>1, RefuseSteps
    <2>2. ASSUME NEW c \in Command, ChangeMembership(c) PROVE cmd' = cmd
      BY <2>2 DEF ChangeMembership
    <2>3. ListGateCommands => \A d \in Command : Keeps(d)
      BY <1>1, ListSteps
    <2> QED
      BY <1>2, <1>3, <2>1, <2>2, <2>3 DEF WebStep
  <1>4. CASE PollStep
    <2>1. LoopStep => cmd' = cmd
      BY DEF LoopStep, teamVars
    <2>2. PollInbox => \A d \in Command : Keeps(d)
      BY <1>1, ListSteps DEF PollInbox
    <2>3. ASSUME RequestReceipt PROVE \A d \in Command : Keeps(d)
      BY <1>1, <2>3, ReceiptSteps
      DEF RequestReceipt, IInv, TypeOK, DesktopTypeOK
    <2>4. ASSUME SendAck PROVE \A d \in Command : Keeps(d)
      <3>1. job.command \in Command /\ exec[job.command] # None
        BY <2>4 DEF SendAck, IInv, TypeOK, DesktopTypeOK, LoopLinks
      <3>2. exec[job.command] \in Decisions
        BY <3>1 DEF IInv, TypeOK, DesktopTypeOK
      <3> QED
        BY <1>1, <2>4, <3>1, <3>2, AckSteps DEF SendAck
    <2> QED
      BY <1>2, <1>4, <2>1, <2>2, <2>3, <2>4 DEF PollStep
  <1>5. CASE FaultStep
    <2>1. DenyAck \/ GiveUp \/ Crash => cmd' = cmd
      BY DEF DenyAck, GiveUp, Crash, teamVars
    <2>2. ASSUME NEW r \in late, HandleLate(r)
          PROVE  \A d \in Command : Keeps(d)
      <3>1. r.command \in Command
        BY DEF IInv, TypeOK, Requests
      <3>2. CASE CreateGateCommandReceipt(r.command)
        BY <1>1, <3>1, <3>2, ReceiptSteps
      <3>3. CASE r.kind = "ack" /\ AcknowledgeGateCommand(r.command, r.ack)
        <4>1. r.ack \in Decisions
          BY <3>1, <3>3 DEF IInv, StoreLinks, TypeOK, DesktopTypeOK
        <4> QED
          BY <1>1, <3>1, <3>3, <4>1, AckSteps
      <3> QED
        BY <2>2, <3>2, <3>3 DEF HandleLate
    <2> QED
      BY <1>2, <1>5, <2>1, <2>2 DEF FaultStep
  <1>6. CASE SyncStep \/ TimeStep \/ LocalStep \/ UNCHANGED vars
    BY <1>2, <1>6
    DEF SyncStep, UploadRunSummary, TimeStep, Tick, LocalStep, vars, teamVars
  <1> QED
    BY <1>3, <1>4, <1>5, <1>6 DEF Next

(* What was asked for never changes, and the end of a command is final.    *)
LEMMA StepFinal ==
  ASSUME IInv, [Next]_vars, NEW d \in Command
  PROVE  Lasting(d) /\ Final(d)
  <1>1. TeamTypeOK
    BY DEF IInv, TypeOK
  <1>2. CASE \A e \in Command : Keeps(e)
    BY <1>2 DEF Keeps
  <1>3. ASSUME NEW c \in Command, NEW a \in Action, CreateGateCommand(c, a)
        PROVE  Lasting(d) /\ Final(d)
    BY <1>1, <1>3, CreateSteps
  <1> QED
    BY <1>2, <1>3, StepKeeps

-----------------------------------------------------------------------------
(* Theorems about the Team's commands.                                     *)

(* At most one command is active for a run snapshot.                       *)
THEOREM OneActive == Spec => []OneActivePerTuple
  <1>1. Init => OneActivePerTuple
    BY DEF Init, TeamInit, OneActivePerTuple, IsActive, Active, NoCommand
  <1>2. IInv /\ OneActivePerTuple /\ [Next]_vars => OneActivePerTuple'
    <2> SUFFICES ASSUME IInv, OneActivePerTuple, [Next]_vars,
                        NEW c \in Command, NEW d \in Command,
                        IsActive(c)', IsActive(d)',
                        cmd'[c].expected = cmd'[d].expected, c # d
                 PROVE  FALSE
      BY DEF OneActivePerTuple
    <2>1. CASE \A e \in Command : Keeps(e)
      BY <2>1 DEF Keeps, NoneActivated, StaysActive, OneActivePerTuple
    <2>2. ASSUME NEW e \in Command, NEW a \in Action, CreateGateCommand(e, a)
          PROVE  FALSE
      <3>1. TeamTypeOK
        BY DEF IInv, TypeOK
      <3>2. \A f \in Command \ {e} :
              Keeps(f) /\ (IsActive(f)' => cmd'[f].expected # cmd'[e].expected)
        BY <2>2, <3>1, CreateSteps
      <3>3. c # e /\ d # e
        BY <3>2
      <3> QED
        BY <3>2, <3>3 DEF Keeps, NoneActivated, StaysActive, OneActivePerTuple
    <2> QED
      BY <2>1, <2>2, StepKeeps
  <1> QED
    BY <1>1, <1>2, InductiveInvariant, PTL DEF Spec

(* The end of a command is final: only an expiry may still give way, once, *)
(* to the decision the desktop took in time.                               *)
THEOREM FinalEnds == Spec => TerminalIsFinal
  <1>1. IInv /\ [Next]_vars =>
          [\A c \in Command :
             cmd[c].status \in {"refused", "applied", "rejected", "expired"}
               /\ cmd'[c] # cmd[c] =>
                 /\ cmd[c].status = "expired"
                 /\ teamAck[c] = None /\ teamAck'[c] # None]_vars
    BY StepFinal DEF Final, Terminal
  <1> QED
    BY <1>1, InductiveInvariant, PTL DEF Spec, TerminalIsFinal

-----------------------------------------------------------------------------
(* What a step may do to the desktop's decisions.                          *)

LEMMA OnlyCommitDecides ==
  ASSUME [Next]_vars, exec' # exec
  PROVE  LoopStep /\ CommitDecision
  <1>1. ~(UNCHANGED exec)
    OBVIOUS
  <1>2. ~(UNCHANGED storeVars)
    BY <1>1 DEF storeVars
  <1>3. ~(UNCHANGED desktopVars)
    BY <1>2 DEF desktopVars
  <1>4. LoopStep
    BY <1>1, <1>2, <1>3
    DEF Next, vars, WebStep, SyncStep, TimeStep, LocalStep, LocalTransition,
        ChangeMaterial, PollStep, PollInbox, ReadInbox, RequestReceipt,
        SendAck, FaultStep, DenyAck, GiveUp, Crash, CrashDesktop, HandleLate
  <1> QED
    BY <1>1, <1>2, <1>4
    DEF LoopStep, StartPoll, RetryPendingAck, TakeCommand, StopOnBacklog,
        EndPoll, CheckReceipt, LoadRun, Evaluate, ReplayExecution, SettleAck

LEMMA Deciding ==
  ASSUME IInv, CommitDecision
  PROVE  /\ job.command \in Command
         /\ exec[job.command] = None
         /\ exec' = [exec EXCEPT ![job.command] = Execution(job)]
         /\ Execution(job) # None
  <1>1. /\ job.command \in Command /\ job.outcome \in Outcome
        /\ exec[job.command] = None
    BY DEF CommitDecision, NoExecution, IInv, TypeOK, DesktopTypeOK, LoopLinks
  <1>2. Execution(job) \in Decisions
    BY <1>1, ExecutionType DEF IInv
  <1> QED
    BY <1>1, <1>2, NoneAssumption DEF CommitDecision

LEMMA DecisionsStay ==
  ASSUME IInv, [Next]_vars, NEW c \in Command, exec[c] # None
  PROVE  exec'[c] = exec[c]
  <1>1. CASE exec' = exec
    BY <1>1
  <1>2. CASE exec' # exec
    <2>1. c # job.command /\ c \in DOMAIN exec
            /\ exec' = [exec EXCEPT ![job.command] = Execution(job)]
      BY <1>2, OnlyCommitDecides, Deciding DEF IInv, TypeOK, DesktopTypeOK
    <2> QED
      BY <2>1
  <1> QED
    BY <1>1, <1>2

(* A decision once stored is never taken again or changed, however often   *)
(* its command is delivered, lost and delivered again.                     *)
THEOREM Once == Spec => DecidedOnce
  <1>1. IInv /\ [Next]_vars =>
          [\A c \in Command : exec[c] # None => exec'[c] = exec[c]]_vars
    BY DecisionsStay
  <1> QED
    BY <1>1, InductiveInvariant, PTL DEF Spec, DecidedOnce

-----------------------------------------------------------------------------
(* Applying a command.                                                     *)

(* What was read of the run is still what its version says, and what was   *)
(* evaluated as applicable was: an older version may be anything, but the  *)
(* same version is the same run.                                           *)
Evaluated ==
  /\ pc \in {"received", "observed", "loaded", "decided"} =>
       cmd[job.command].status # "none"
  /\ pc = "loaded" \/ (pc = "decided" /\ job.outcome = "applied") =>
       /\ job.base <= run.version
       /\ job.base = run.version => job.atGate = run.atGate
  /\ pc = "decided" /\ job.outcome = "applied" =>
       /\ cmd[job.command].action = "approve"
       /\ job.base = cmd[job.command].expected
       /\ job.atGate

(* Steps of others than the poll loop.                                     *)
LoopResting ==
  /\ UNCHANGED <<pc, job>>
  /\ run' = run \/ run'.version > run.version

LEMMA OthersRest ==
  ASSUME IInv, [Next]_vars, ~PollStep, pc' # "next", pc' # "replied"
  PROVE  LoopResting
  <1>1. CASE WebStep \/ SyncStep \/ TimeStep \/ UNCHANGED vars
    BY <1>1
    DEF WebStep, SyncStep, TimeStep, vars, desktopVars, storeVars, loopVars,
        LoopResting
  <1>2. CASE LocalStep
    BY <1>2
    DEF LocalStep, LocalTransition, ChangeMaterial, WriteRun, loopVars,
        LoopResting, IInv, TypeOK, DesktopTypeOK, RunStates
  <1>3. CASE FaultStep
    <2>1. ~DenyAck /\ ~GiveUp /\ ~Crash
      BY DEF DenyAck, GoOn, GiveUp, NextItem, Crash, CrashDesktop
    <2>2. \E r \in late : HandleLate(r)
      BY <1>3, <2>1 DEF FaultStep
    <2> QED
      BY <2>2 DEF HandleLate, desktopVars, storeVars, loopVars, LoopResting
  <1> QED
    BY <1>1, <1>2, <1>3 DEF Next

LEMMA EvaluatedRests ==
  ASSUME IInv, Evaluated, [Next]_vars, LoopResting
  PROVE  Evaluated'
  <1>1. pc # "next" => job.command \in Command
    BY DEF IInv, TypeOK, DesktopTypeOK
  <1>2. pc # "next" => Lasting(job.command)
    BY <1>1, StepFinal
  <1>3. run.version \in Nat /\ job.base \in Nat
    BY DEF IInv, TypeOK, DesktopTypeOK, RunStates, Jobs
  <1>4. run'.version \in Nat
    BY StepInv DEF IInv, TypeOK, DesktopTypeOK, RunStates
  <1> QED
    BY <1>2, <1>3, <1>4 DEF LoopResting, Evaluated, Lasting

LEMMA EvaluatedStep ==
  ASSUME IInv, Evaluated, [Next]_vars
  PROVE  Evaluated'
  <1>1. CASE pc' \notin {"received", "observed", "loaded", "decided"}
    BY <1>1 DEF Evaluated
  <1>2. CASE ~PollStep /\ pc' \in {"received", "observed", "loaded", "decided"}
    BY <1>2, OthersRest, EvaluatedRests
  <1>3. CASE RequestReceipt /\ pc' # "next"
    <2>1. /\ pc' = "received"
          /\ job.command \in Command
          /\ cmd[job.command].status # "none"
          /\ job'.command = job.command
      BY <1>3
      DEF RequestReceipt, NextItem, GoOn, Deliverable, IsActive, Active, IInv,
          TypeOK, DesktopTypeOK, Jobs
    <2>2. cmd'[job.command].status # "none"
      BY <2>1, StepFinal DEF Lasting
    <2> QED
      BY <1>3, <2>1, <2>2 DEF Evaluated
  <1>4. CASE CheckReceipt /\ UNCHANGED cmd
    <2>1. pc' = "observed" => job' = job
      BY <1>4 DEF CheckReceipt, NextItem, GoOn
    <2>2. pc' = "decided" =>
            job'.outcome = "expired" /\ job'.command = job.command
      BY <1>4, DecideType
      DEF CheckReceipt, NextItem, GoOn, IInv, Outcome
    <2>3. pc = "received" /\ pc' \in {"next", "observed", "decided"}
      BY <1>4 DEF CheckReceipt, NextItem, GoOn
    <2> QED
      BY <1>4, <2>1, <2>2, <2>3 DEF Evaluated
  <1>5. CASE LoadRun /\ UNCHANGED cmd
    <2>1. /\ pc = "observed" /\ pc' = "loaded" /\ run' = run
          /\ job' = [job EXCEPT !.base = run.version, !.atGate = run.atGate]
      BY <1>5 DEF LoadRun, GoOn, storeVars
    <2>2. /\ job'.command = job.command
          /\ job'.base = run.version /\ job'.atGate = run.atGate
      BY <2>1 DEF IInv, TypeOK, DesktopTypeOK, Jobs
    <2>3. run.version \in Nat
      BY DEF IInv, TypeOK, DesktopTypeOK, RunStates
    <2> QED
      BY <1>5, <2>1, <2>2, <2>3 DEF Evaluated
  <1>6. CASE Evaluate /\ pc' # "next" /\ UNCHANGED cmd
    <2>1. PICK outcome \in {"expired", Verdict} : job' = Decide(outcome)
      BY <1>6 DEF Evaluate, NextItem, GoOn
    <2>2. /\ job'.outcome = outcome /\ job'.command = job.command
          /\ job'.base = job.base /\ job'.atGate = job.atGate
      BY <2>1 DEF Decide, IInv, TypeOK, DesktopTypeOK, Jobs
    <2>3. pc = "loaded" /\ pc' = "decided" /\ run' = run
      BY <1>6 DEF Evaluate, NextItem, GoOn, storeVars
    <2>4. /\ job.base <= run.version
          /\ job.base = run.version => job.atGate = run.atGate
      BY <2>3 DEF Evaluated
    <2>5. outcome = "applied" =>
            /\ cmd[job.command].action = "approve"
            /\ job.base = cmd[job.command].expected
            /\ job.atGate
      BY <2>1 DEF Verdict
    <2> QED
      BY <1>6, <2>2, <2>3, <2>4, <2>5 DEF Evaluated
  <1>7. CASE \/ PollInbox
             \/ LoopStep /\ ~CheckReceipt /\ ~LoadRun /\ ~Evaluate
    <2>1. CASE LoopResting
      BY <2>1, EvaluatedRests
    <2>2. CASE pc' \in {"next", "requesting", "acking", "replied"}
      BY <2>2 DEF Evaluated
    <2> QED
      BY <1>7, <2>1, <2>2
      DEF PollInbox, ReadInbox, LoopStep, StartPoll, RetryPendingAck,
          TakeCommand, StopOnBacklog, EndPoll, CommitDecision,
          ReplayExecution, SettleAck, NextItem, GoOn, storeVars, LoopResting
  <1>8. CASE SendAck
    BY <1>8 DEF SendAck, GoOn, Evaluated
  <1> QED
    BY <1>1, <1>2, <1>3, <1>4, <1>5, <1>6, <1>7, <1>8
    DEF PollStep, LoopStep, teamVars

(* What processCommand read before its awaits stays usable after them: the *)
(* run it holds is a version the run has had, still the run itself if the  *)
(* version has not moved, and an approval it decided to apply is one for   *)
(* exactly that version, at the gate.                                      *)
THEOREM EvaluatedHolds == Spec => []Evaluated
  <1>1. Init => Evaluated
    BY DEF Init, DesktopInit, Evaluated
  <1>2. IInv /\ Evaluated /\ [Next]_vars => Evaluated'
    BY EvaluatedStep
  <1> QED
    BY <1>1, <1>2, InductiveInvariant, PTL DEF Spec

(* An approval moves the run only while it is current, whatever happened   *)
(* between its evaluation and its commit, and by exactly one version.      *)
THEOREM CurrentWhenApplied == Spec => AppliesOnlyWhenCurrent
  <1>1. IInv /\ Evaluated /\ [Next]_vars =>
          [\A c \in Command : Decides(c, "applied") =>
             /\ cmd[c].action = "approve"
             /\ run.version = cmd[c].expected
             /\ run.atGate
             /\ material = "clear"
             /\ run'.version = run.version + 1]_vars
    <2> SUFFICES ASSUME IInv, Evaluated, [Next]_vars,
                        NEW c \in Command, Decides(c, "applied")
                 PROVE  /\ cmd[c].action = "approve"
                        /\ run.version = cmd[c].expected
                        /\ run.atGate
                        /\ material = "clear"
                        /\ run'.version = run.version + 1
      OBVIOUS
    <2>1. exec' # exec
      BY DEF Decides
    <2>2. CommitDecision
      BY <2>1, OnlyCommitDecides
    <2>3. /\ c = job.command /\ exec' = [exec EXCEPT ![c] = Execution(job)]
          /\ exec'[c] = Execution(job)
      BY <2>2, Deciding DEF Decides, IInv, TypeOK, DesktopTypeOK
    <2>4. Resolve(job) = "applied"
      BY <2>3 DEF Decides, Execution
    <2>5. /\ job.outcome = "applied" /\ material # "blocked"
          /\ run.version = cmd[c].expected
      BY <2>3, <2>4 DEF Resolve
    <2>6. /\ cmd[c].action = "approve" /\ job.base = cmd[c].expected
          /\ job.atGate /\ (job.base = run.version => job.atGate = run.atGate)
      BY <2>2, <2>3, <2>5 DEF CommitDecision, Evaluated
    <2>7. material = "clear"
      BY <2>5, MaterialsAssumption DEF IInv, TypeOK, DesktopTypeOK
    <2>8. run'.version = job.base + 1
      BY <2>2, <2>4 DEF CommitDecision, WriteRun
    <2> QED
      BY <2>5, <2>6, <2>7, <2>8
  <1> QED
    BY <1>1, InductiveInvariant, EvaluatedHolds, PTL
    DEF Spec, AppliesOnlyWhenCurrent

-----------------------------------------------------------------------------
(* The pending acknowledgements and the inbox.                             *)

(* In the inbox phase nothing still to be served is pending, and the item  *)
(* in hand is no longer among what is to be served.                        *)
Serving ==
  phase = "serve" =>
    /\ \A c \in todo : localAck[c] # "pending"
    /\ pc # "next" => job.command \notin todo
    /\ pc \in {"requesting", "received", "observed", "loaded", "decided"} =>
         localAck[job.command] # "pending"

LEMMA ServingStep ==
  ASSUME IInv, Serving, [Next]_vars
  PROVE  Serving'
  <1>1. CASE UNCHANGED <<localAck, phase, todo, pc, job>>
    BY <1>1 DEF Serving
  <1>2. CASE LoopStep
    <2>1. CASE StartPoll \/ StopOnBacklog \/ EndPoll
      BY <2>1 DEF StartPoll, StopOnBacklog, EndPoll, Serving
    <2>2. ASSUME NEW c \in Command, RetryPendingAck(c) PROVE Serving'
      BY <2>2 DEF RetryPendingAck, Serving
    <2>3. ASSUME NEW c \in Command, TakeCommand(c) PROVE Serving'
      <3>1. job' = [NoJob EXCEPT !.command = c] /\ job'.command = c
        BY <2>3, JobForType DEF TakeCommand
      <3> QED
        BY <2>3, <3>1 DEF TakeCommand, storeVars, Serving
    <2>4. CASE CheckReceipt
      <3>1. /\ pc = "received" /\ UNCHANGED <<phase, todo, localAck>>
            /\ pc' # "next" => job'.command = job.command
        BY <2>4, DecideType
        DEF CheckReceipt, NextItem, GoOn, IInv, Outcome
      <3> QED
        BY <3>1 DEF Serving
    <2>5. CASE LoadRun
      <3>1. /\ pc = "observed" /\ UNCHANGED <<phase, todo, localAck>>
            /\ job'.command = job.command
        BY <2>5
        DEF LoadRun, GoOn, storeVars, IInv, TypeOK, DesktopTypeOK, Jobs
      <3> QED
        BY <3>1 DEF Serving
    <2>6. CASE Evaluate
      <3>1. /\ pc = "loaded" /\ UNCHANGED <<phase, todo, localAck>>
            /\ pc' # "next" => job'.command = job.command
        BY <2>6, DecideType, VerdictType
        DEF Evaluate, NextItem, GoOn, storeVars, IInv, Outcome
      <3> QED
        BY <3>1 DEF Serving
    <2>7. CASE CommitDecision
      <3>1. /\ job.command \in Command
            /\ job' = [NoJob EXCEPT !.command = job.command]
            /\ job'.command = job.command
            /\ pc = "decided" /\ pc' = "acking" /\ UNCHANGED <<phase, todo>>
            /\ localAck' = [localAck EXCEPT ![job.command] = "pending"]
        BY <2>7, Deciding, JobForType DEF CommitDecision, GoOn
      <3>2. \A c \in todo : c # job.command => localAck'[c] = localAck[c]
        BY <3>1 DEF IInv, TypeOK, DesktopTypeOK
      <3> QED
        BY <3>1, <3>2 DEF Serving
    <2>8. CASE ReplayExecution
      <3>1. /\ pc \in {"observed", "decided"}
            /\ UNCHANGED <<phase, todo, localAck>>
            /\ pc' \in {"next", "acking"}
            /\ pc' # "next" => job' = [NoJob EXCEPT !.command = job.command]
        BY <2>8 DEF ReplayExecution, NextItem, GoOn, storeVars
      <3>2. job.command \in Command
        BY <3>1 DEF IInv, TypeOK, DesktopTypeOK
      <3>3. pc' # "next" => job'.command = job.command
        BY <3>1, <3>2, JobForType
      <3> QED
        BY <3>1, <3>3 DEF Serving
    <2>9. CASE SettleAck
      <3>1. /\ pc' = "next" /\ UNCHANGED <<phase, todo>>
            /\ \A c \in Command :
                 localAck'[c] = "pending" => localAck[c] = "pending"
        BY <2>9
        DEF SettleAck, TerminalizeAck, RecordAcknowledged, NextItem, IInv,
            TypeOK, DesktopTypeOK
      <3> QED
        BY <3>1 DEF Serving, IInv, TypeOK, DesktopTypeOK
    <2> QED
      BY <1>2, <2>1, <2>2, <2>3, <2>4, <2>5, <2>6, <2>7, <2>8, <2>9
      DEF LoopStep
  <1>3. CASE PollInbox
    BY <1>3
    DEF PollInbox, ReadInbox, BacklogRemains, PendingAcks, storeVars, Serving
  <1>4. CASE RequestReceipt \/ SendAck \/ DenyAck
    <2>1. /\ UNCHANGED <<phase, todo, localAck>>
          /\ pc' \in {"next", "received", "replied"}
          /\ pc' # "next" => job'.command = job.command
          /\ pc' = "received" => pc = "requesting"
          /\ pc # "next"
      BY <1>4
      DEF RequestReceipt, SendAck, DenyAck, NextItem, GoOn, storeVars, IInv,
          TypeOK, DesktopTypeOK, Jobs
    <2> QED
      BY <2>1 DEF Serving
  <1>5. CASE GiveUp \/ Crash
    BY <1>5
    DEF GiveUp, Crash, CrashDesktop, NextItem, storeVars, Serving
  <1> QED
    BY <1>1, <1>2, <1>3, <1>4, <1>5
    DEF Next, vars, WebStep, SyncStep, TimeStep, LocalStep, LocalTransition,
        ChangeMaterial, PollStep, FaultStep, HandleLate, desktopVars,
        storeVars, loopVars

(* A command being decided has no acknowledgement pending: the drain comes *)
(* first and blocks the inbox.                                             *)
THEOREM DrainedFirst == Spec => []DrainedBeforeInbox
  <1>1. Init => Serving
    BY DEF Init, DesktopInit, Serving
  <1>2. IInv /\ Serving /\ [Next]_vars => Serving'
    BY ServingStep
  <1>3. Serving => DrainedBeforeInbox
    BY DEF Serving, DrainedBeforeInbox
  <1> QED
    BY <1>1, <1>2, <1>3, InductiveInvariant, PTL DEF Spec

-----------------------------------------------------------------------------
(* What the desktop believes of the Team.                                  *)

Answered ==
  /\ AcknowledgedMeansRecorded
  /\ pc = "replied" /\ job.reply # "refused" =>
       teamAck[job.command] = exec[job.command]

(* An acknowledgement the Team has stored is never replaced.               *)
LEMMA AckStays ==
  ASSUME IInv, [Next]_vars, NEW c \in Command, teamAck[c] # None
  PROVE  teamAck'[c] = teamAck[c]
  <1>1. \A e \in Command : \A ack :
          AcknowledgeGateCommand(e, ack) => teamAck'[c] = teamAck[c]
    <2> SUFFICES ASSUME NEW e \in Command, NEW ack,
                        AcknowledgeGateCommand(e, ack)
                 PROVE  teamAck'[c] = teamAck[c]
      OBVIOUS
    <2>1. CASE AcceptAck(e, ack)
      <3>1. c # e
        BY <2>1 DEF AcceptAck, Acceptable
      <3> QED
        BY <2>1, <3>1 DEF AcceptAck, IInv, TypeOK, TeamTypeOK
    <2>2. CASE ReplayOrRefuseAck(e, ack)
      BY <2>2 DEF ReplayOrRefuseAck, teamVars
    <2> QED
      BY <2>1, <2>2 DEF AcknowledgeGateCommand
  <1>2. \A e \in Command :
          CreateGateCommandReceipt(e) => teamAck' = teamAck
    BY DEF CreateGateCommandReceipt, LeaseReceipt, ReplayReceipt,
           RefuseReceipt, teamVars
  <1>3. WebStep \/ SyncStep \/ TimeStep \/ LocalStep \/ UNCHANGED vars
          => teamAck' = teamAck
    BY DEF WebStep, CreateGateCommand, RefuseActiveConflict, RefuseCreate,
           ChangeMembership, ListGateCommands, SyncStep, UploadRunSummary,
           TimeStep, Tick, LocalStep, teamVars, vars
  <1>4. LoopStep \/ PollInbox \/ DenyAck \/ GiveUp \/ Crash
          => teamAck' = teamAck
    BY DEF LoopStep, PollInbox, ListGateCommands, DenyAck, GiveUp, Crash,
           teamVars
  <1>5. RequestReceipt \/ SendAck => teamAck'[c] = teamAck[c]
    <2>1. RequestReceipt \/ SendAck => job.command \in Command
      BY DEF RequestReceipt, SendAck, IInv, TypeOK, DesktopTypeOK
    <2> QED
      BY <1>1, <1>2, <2>1 DEF RequestReceipt, SendAck
  <1>6. ASSUME NEW r \in late, HandleLate(r)
        PROVE  teamAck'[c] = teamAck[c]
    <2>1. r.command \in Command
      BY DEF IInv, TypeOK, Requests
    <2> QED
      BY <1>1, <1>2, <1>6, <2>1 DEF HandleLate
  <1> QED
    BY <1>3, <1>4, <1>5, <1>6 DEF Next, PollStep, FaultStep

LEMMA AnsweredStep ==
  ASSUME IInv, Answered, [Next]_vars
  PROVE  Answered'
  <1>1. \A c \in Command : exec[c] # None => exec'[c] = exec[c]
    BY DecisionsStay
  <1>2. \A c \in Command :
          exec[c] # None /\ teamAck[c] = exec[c] => teamAck'[c] = exec'[c]
    BY <1>1, AckStays
  <1>3. CASE SettleAck /\ LoopStep
    <2> DEFINE c == job.command
    <2>1. c \in Command /\ exec[c] # None
      BY <1>3 DEF SettleAck, IInv, TypeOK, DesktopTypeOK, LoopLinks
    <2>2. pc = "replied" /\ pc' = "next" /\ UNCHANGED <<exec, teamAck>>
      BY <1>3 DEF SettleAck, NextItem, LoopStep, teamVars
    <2>3. \A d \in Command :
            localAck'[d] = "acknowledged" =>
              \/ localAck[d] = "acknowledged"
              \/ d = c /\ job.reply # "refused"
      BY <1>3, <2>1
      DEF SettleAck, TerminalizeAck, RecordAcknowledged, IInv, TypeOK,
          DesktopTypeOK, Jobs
    <2> QED
      BY <2>1, <2>2, <2>3 DEF Answered, AcknowledgedMeansRecorded
  <1>4. CASE CommitDecision /\ LoopStep
    <2>1. /\ localAck' = [localAck EXCEPT ![job.command] = "pending"]
          /\ job.command \in Command /\ pc' = "acking"
      BY <1>4, Deciding DEF CommitDecision, GoOn
    <2>2. \A d \in Command : localAck'[d] = "acknowledged" =>
            localAck[d] = "acknowledged"
      BY <2>1 DEF IInv, TypeOK, DesktopTypeOK
    <2> QED
      BY <1>1, <1>2, <2>1, <2>2 DEF Answered, AcknowledgedMeansRecorded
  <1>5. CASE SendAck
    <2> DEFINE c == job.command
    <2>1. /\ c \in Command /\ exec[c] # None
          /\ pc' = "replied" /\ UNCHANGED <<localAck, exec>>
          /\ AcknowledgeGateCommand(c, exec[c])
          /\ job'.command = c
          /\ job'.reply = IF Acceptable(c, exec[c]) \/ Repeated(c, exec[c])
                          THEN "accepted" ELSE "refused"
      BY <1>5
      DEF SendAck, GoOn, storeVars, IInv, TypeOK, DesktopTypeOK, Jobs,
          LoopLinks
    <2>2. Acceptable(c, exec[c]) => teamAck'[c] = exec[c]
      BY <2>1
      DEF AcknowledgeGateCommand, AcceptAck, ReplayOrRefuseAck, IInv, TypeOK,
          TeamTypeOK
    <2>3. Repeated(c, exec[c]) => teamAck'[c] = exec[c]
      BY <2>1, AckStays DEF Repeated
    <2> QED
      BY <1>1, <1>2, <2>1, <2>2, <2>3 DEF Answered, AcknowledgedMeansRecorded
  <1>6. CASE /\ UNCHANGED localAck
             /\ pc' # "replied" \/ (UNCHANGED <<pc, job>>)
    <2>1. pc = "replied" => job.command \in Command /\ exec[job.command] # None
      BY DEF IInv, TypeOK, DesktopTypeOK, LoopLinks
    <2> QED
      BY <1>1, <1>2, <1>6, <2>1 DEF Answered, AcknowledgedMeansRecorded
  <1>7. CASE DenyAck
    <2>1. /\ UNCHANGED localAck /\ pc' = "replied"
          /\ job'.reply = "refused"
      BY <1>7 DEF DenyAck, GoOn, storeVars, IInv, TypeOK, DesktopTypeOK, Jobs
    <2> QED
      BY <1>1, <1>2, <2>1 DEF Answered, AcknowledgedMeansRecorded
  <1>8. CASE LoopStep /\ ~SettleAck /\ ~CommitDecision
    BY <1>6, <1>8
    DEF LoopStep, StartPoll, RetryPendingAck, TakeCommand, StopOnBacklog,
        EndPoll, CheckReceipt, LoadRun, Evaluate, ReplayExecution, NextItem,
        GoOn, storeVars
  <1>9. CASE PollInbox \/ RequestReceipt \/ GiveUp \/ Crash
    BY <1>6, <1>9
    DEF PollInbox, ReadInbox, RequestReceipt, GiveUp, Crash, CrashDesktop,
        NextItem, GoOn, storeVars
  <1>10. CASE ~PollStep /\ ~DenyAck /\ ~GiveUp /\ ~Crash
    BY <1>6, <1>10
    DEF Next, vars, WebStep, SyncStep, TimeStep, LocalStep, LocalTransition,
        ChangeMaterial, FaultStep, HandleLate, desktopVars, storeVars,
        loopVars
  <1> QED
    BY <1>3, <1>4, <1>5, <1>7, <1>8, <1>9, <1>10 DEF PollStep

(* The desktop takes a decision for acknowledged only if the Team has      *)
(* stored that decision.                                                   *)
THEOREM RecordedIfAcknowledged == Spec => []AcknowledgedMeansRecorded
  <1>1. Init => Answered
    BY DEF Init, DesktopInit, Answered, AcknowledgedMeansRecorded
  <1>2. IInv /\ Answered /\ [Next]_vars => Answered'
    BY AnsweredStep
  <1>3. Answered => AcknowledgedMeansRecorded
    BY DEF Answered
  <1> QED
    BY <1>1, <1>2, <1>3, InductiveInvariant, PTL DEF Spec

-----------------------------------------------------------------------------
(* What a step does to the Team's tables, operation by operation.          *)

(* A command stays as it is, or the sweep ends it.                         *)
Swept(d) ==
  \/ cmd'[d] = cmd[d]
  \/ IsActive(d) /\ cmd'[d] \in {Expire(d), Revoke(d)}

Creates(c) ==
  /\ cmd[c].status = "none" /\ cmd'[c].status = "pending"
  /\ cmd'[c].expected = projection.version /\ cmd'[c].outcome = None
  /\ \A d \in Command \ {c} : Swept(d)
  /\ UNCHANGED <<clock, receipts, teamAck, projection>>

Refuses(c) ==
  /\ cmd[c].status = "none"
  /\ cmd'[c] = [cmd[c] EXCEPT !.status = "refused"]
  /\ \A d \in Command \ {c} : Swept(d)
  /\ UNCHANGED <<clock, receipts, teamAck, projection>>

OnlySweeps ==
  /\ \A d \in Command : Swept(d)
  /\ UNCHANGED <<receipts, teamAck>>
  /\ clock' \in {clock, clock + 1}
  /\ UNCHANGED projection \/ projection' \in summaries

OperatesOn(c) ==
  \/ Creates(c) \/ Refuses(c) \/ LeaseReceipt(c)
  \/ exec[c] # None /\ AcceptAck(c, exec[c])

LEMMA TupleSwept ==
  ASSUME TeamTypeOK, NEW c \in Command, NEW d \in Command \ {c}, NEW new,
         cmd' = [ExpireTuple(projection.version) EXCEPT ![c] = new]
  PROVE  Swept(d) /\ cmd'[c] = new
  <1>1. cmd'[d] = ExpireTuple(projection.version)[d] /\ cmd'[c] = new
    BY DEF ExpireTuple
  <1> QED
    BY <1>1, TupleSteps DEF Swept

LEMMA WebOnTeam ==
  ASSUME IInv, WebStep
  PROVE  OnlySweeps \/ \E c \in Command : OperatesOn(c)
  <1> DEFINE t == ExpireTuple(projection.version)
  <1>1. TeamTypeOK
    BY DEF IInv, TypeOK
  <1>2. ASSUME NEW c \in Command, NEW a \in Action, CreateGateCommand(c, a)
        PROVE  Creates(c)
    <2> DEFINE new == [status |-> "pending", outcome |-> None, action |-> a,
                       expected |-> projection.version,
                       expiresAt |-> clock + TTL]
    <2>1. cmd' = [t EXCEPT ![c] = new] /\ cmd[c].status = "none"
          /\ UNCHANGED <<clock, receipts, teamAck, projection>>
      BY <1>2 DEF CreateGateCommand, CreateAllowed
    <2>2. cmd'[c] = new
      BY <2>1 DEF ExpireTuple
    <2>3. \A d \in Command \ {c} : Swept(d)
      BY <1>1, <2>1, TupleSwept
    <2> QED
      BY <2>1, <2>2, <2>3 DEF Creates
  <1>3. ASSUME NEW c \in Command, RefuseActiveConflict(c) PROVE Refuses(c)
    <2>1. /\ cmd' = [t EXCEPT ![c] = [t[c] EXCEPT !.status = "refused"]]
          /\ cmd[c].status = "none"
          /\ UNCHANGED <<clock, receipts, teamAck, projection>>
      BY <1>3 DEF RefuseActiveConflict, CreateAllowed
    <2>2. t[c] = cmd[c]
      BY <1>1, <2>1, ExpireTupleKeeps
    <2>3. cmd'[c] = [cmd[c] EXCEPT !.status = "refused"]
      BY <2>1, <2>2 DEF ExpireTuple
    <2>4. \A d \in Command \ {c} : Swept(d)
      BY <1>1, <2>1, TupleSwept
    <2> QED
      BY <2>1, <2>3, <2>4 DEF Refuses
  <1>4. ASSUME NEW c \in Command, RefuseCreate(c) PROVE Refuses(c)
    BY <1>1, <1>4 DEF RefuseCreate, Refuses, Swept, TeamTypeOK
  <1>5. ASSUME NEW c \in Command, ChangeMembership(c) PROVE OnlySweeps
    BY <1>5 DEF ChangeMembership, OnlySweeps, Swept
  <1>6. ListGateCommands => OnlySweeps
    BY DEF ListGateCommands, TerminalizeObserved, OnlySweeps, Swept, Overdue,
           Disowned
  <1> QED
    BY <1>2, <1>3, <1>4, <1>5, <1>6 DEF WebStep, OperatesOn

LEMMA ReceiptOnTeam ==
  ASSUME IInv, NEW c \in Command, CreateGateCommandReceipt(c)
  PROVE  OnlySweeps \/ LeaseReceipt(c)
  <1>1. ReplayReceipt(c) => OnlySweeps
    BY DEF ReplayReceipt, teamVars, OnlySweeps, Swept
  <1>2. RefuseReceipt(c) => OnlySweeps
    BY DEF RefuseReceipt, OnlySweeps, Swept, Overdue, Disowned, IInv, TypeOK,
           TeamTypeOK
  <1> QED
    BY <1>1, <1>2 DEF CreateGateCommandReceipt

LEMMA AckOnTeam ==
  ASSUME IInv, NEW c \in Command, AcknowledgeGateCommand(c, exec[c])
  PROVE  OnlySweeps \/ AcceptAck(c, exec[c])
  BY DEF AcknowledgeGateCommand, ReplayOrRefuseAck, teamVars, OnlySweeps, Swept

(* Every step either lets the sweep pass or operates on one command.       *)
LEMMA StepOnTeam ==
  ASSUME IInv, [Next]_vars
  PROVE  OnlySweeps \/ \E c \in Command : OperatesOn(c)
  <1>1. UNCHANGED teamVars => OnlySweeps
    BY DEF teamVars, OnlySweeps, Swept
  <1>2. ASSUME PollStep PROVE OnlySweeps \/ \E c \in Command : OperatesOn(c)
    <2>1. LoopStep => OnlySweeps
      BY <1>1 DEF LoopStep
    <2>2. PollInbox => OnlySweeps
      BY DEF PollInbox, ListGateCommands, TerminalizeObserved, OnlySweeps,
             Swept, Overdue, Disowned
    <2>3. RequestReceipt \/ SendAck => job.command \in Command
      BY DEF RequestReceipt, SendAck, IInv, TypeOK, DesktopTypeOK
    <2>4. RequestReceipt => OnlySweeps \/ OperatesOn(job.command)
      BY <2>3, ReceiptOnTeam DEF RequestReceipt, OperatesOn
    <2>5. SendAck => OnlySweeps \/ OperatesOn(job.command)
      BY <2>3, AckOnTeam DEF SendAck, OperatesOn, IInv, LoopLinks
    <2> QED
      BY <1>2, <2>1, <2>2, <2>3, <2>4, <2>5 DEF PollStep
  <1>3. ASSUME FaultStep PROVE OnlySweeps \/ \E c \in Command : OperatesOn(c)
    <2>1. DenyAck \/ GiveUp \/ Crash => OnlySweeps
      BY <1>1 DEF DenyAck, GiveUp, Crash
    <2>2. ASSUME NEW r \in late, HandleLate(r)
          PROVE  OnlySweeps \/ OperatesOn(r.command)
      <3>1. r.command \in Command
        BY DEF IInv, TypeOK, Requests
      <3>2. r.kind = "ack" => exec[r.command] # None /\ r.ack = exec[r.command]
        BY <3>1 DEF IInv, StoreLinks
      <3> QED
        BY <2>2, <3>1, <3>2, ReceiptOnTeam, AckOnTeam DEF HandleLate, OperatesOn
    <2>3. \A r \in late : r.command \in Command
      BY DEF IInv, TypeOK, Requests
    <2> QED
      BY <1>3, <2>1, <2>2, <2>3 DEF FaultStep
  <1>4. SyncStep => OnlySweeps
    BY DEF SyncStep, UploadRunSummary, OnlySweeps, Swept
  <1>5. TimeStep => OnlySweeps
    BY DEF TimeStep, Tick, OnlySweeps, Swept
  <1>6. LocalStep \/ UNCHANGED vars => OnlySweeps
    BY <1>1 DEF LocalStep, vars
  <1> QED
    BY <1>2, <1>3, <1>4, <1>5, <1>6, WebOnTeam DEF Next

-----------------------------------------------------------------------------
(* Leases.                                                                 *)

(* Whether a command was ever leased shows in its status, receipts are of  *)
(* the past and end with the command, and only the acknowledgement the     *)
(* Team has stored closed one.                                             *)
LeasesOf(c) ==
  /\ receipts[c] # <<>> =>
       cmd[c].status \in {"delivering", "applied", "rejected", "expired"}
  /\ \A k \in 1..Len(receipts[c]) :
       /\ receipts[c][k].leasedAt <= clock
       /\ receipts[c][k].leasedAt <= receipts[c][k].leaseExpires
       /\ receipts[c][k].leaseExpires <= cmd[c].expiresAt
       /\ receipts[c][k].ackedAt # None => teamAck[c] # None
       /\ \A j \in 1..(k - 1) :
            receipts[c][j].leaseExpires <= receipts[c][k].leasedAt

LeaseInv == \A c \in Command : LeasesOf(c)

LEMMA ReceiptFields ==
  ASSUME TeamTypeOK, NEW c \in Command
  PROVE  /\ Len(receipts[c]) \in Nat
         /\ \A k \in 1..Len(receipts[c]) :
              /\ receipts[c][k] \in Receipts
              /\ receipts[c][k].leasedAt \in Nat
              /\ receipts[c][k].leaseExpires \in Nat
         /\ receipts[c] # <<>> => Len(receipts[c]) > 0
  <1>1. receipts[c] \in Seq(Receipts)
    BY DEF TeamTypeOK
  <1>2. Len(receipts[c]) \in Nat /\ (receipts[c] # <<>> => Len(receipts[c]) > 0)
    BY <1>1, LenProperties, EmptySeq
  <1>3. \A k \in 1..Len(receipts[c]) : receipts[c][k] \in Receipts
    BY <1>1, ElementOfSeq
  <1> QED
    BY <1>2, <1>3 DEF Receipts

(* What leaves receipts and their acknowledgement alone keeps the leases.  *)
LEMMA LeasesStay ==
  ASSUME IInv, LeaseInv, [Next]_vars, NEW c \in Command,
         receipts'[c] = receipts[c], teamAck'[c] = teamAck[c],
         \/ Swept(c)
         \/ cmd[c].status = "none"
  PROVE  LeasesOf(c)'
  <1>1. TeamTypeOK /\ TeamTypeOK'
    BY StepInv DEF IInv, TypeOK
  <1>2. /\ clock' \in Nat /\ clock \in Nat /\ clock' >= clock
    <2>1. clock' \in {clock, clock + 1}
      BY StepOnTeam
      DEF OnlySweeps, OperatesOn, Creates, Refuses, LeaseReceipt, AcceptAck
    <2> QED
      BY <1>1, <2>1 DEF TeamTypeOK
  <1>3. CASE receipts[c] = <<>>
    <2>1. Len(receipts[c]) = 0
      BY <1>3, EmptySeq
    <2> QED
      BY <1>3, <2>1 DEF LeasesOf
  <1>4. CASE receipts[c] # <<>>
    <2>1. /\ cmd[c].status \in {"delivering", "applied", "rejected", "expired"}
          /\ cmd'[c].expiresAt = cmd[c].expiresAt
      BY <1>4, StepFinal DEF LeaseInv, LeasesOf, Lasting
    <2>2. cmd'[c].status \in {"delivering", "applied", "rejected", "expired"}
      BY <1>1, <2>1 DEF Swept, Expire, Revoke, TeamTypeOK, Commands
    <2> QED
      BY <1>1, <1>2, <1>4, <2>1, <2>2, ReceiptFields DEF LeaseInv, LeasesOf
  <1> QED
    BY <1>3, <1>4

(* A new lease begins where the one before has ended.                      *)
LEMMA LeasesGrow ==
  ASSUME IInv, LeaseInv, [Next]_vars, NEW c \in Command, LeaseReceipt(c)
  PROVE  LeasesOf(c)'
  <1> DEFINE n == Len(receipts[c])
             new == NewReceipt(c)
  <1>1. TeamTypeOK
    BY DEF IInv, TypeOK
  <1>2. /\ receipts'[c] = Append(receipts[c], new)
        /\ cmd'[c] = [cmd[c] EXCEPT !.status = "delivering"]
        /\ teamAck[c] = None /\ UNCHANGED <<clock, teamAck>>
        /\ ~HasLease(c) /\ cmd[c].expiresAt > clock
    BY <1>1
    DEF LeaseReceipt, Deliverable, Overdue, TeamTypeOK, Commands
  <1>3. /\ new \in Receipts
        /\ new.leasedAt = clock /\ new.ackedAt = None
        /\ clock <= new.leaseExpires /\ new.leaseExpires <= cmd[c].expiresAt
    BY <1>1, <1>2, NewReceiptType, TimesAssumption
    DEF NewReceipt, TeamTypeOK, Commands
  <1>4. /\ n \in Nat
        /\ Len(receipts'[c]) = n + 1
        /\ receipts'[c][n + 1] = new
        /\ \A k \in 1..n : receipts'[c][k] = receipts[c][k]
    <2>1. receipts[c] \in Seq(Receipts) /\ n \in Nat
      BY <1>1, LenProperties DEF TeamTypeOK
    <2> QED
      BY <1>2, <1>3, <2>1, AppendProperties
  <1>5. \A k \in 1..n : receipts[c][k].leaseExpires <= clock
    <2>1. SUFFICES ASSUME n > 0
                   PROVE  \A k \in 1..n : receipts[c][k].leaseExpires <= clock
      BY <1>4
    <2>2. receipts[c] # <<>>
      BY <2>1, EmptySeq
    <2>3. receipts[c][n].ackedAt = None
      BY <1>2, <1>4, <2>1 DEF LeaseInv, LeasesOf
    <2>4. receipts[c][n].leaseExpires <= clock
      BY <1>1, <1>2, <1>4, <2>1, <2>2, <2>3, ReceiptFields
      DEF HasLease, LatestReceipt, TeamTypeOK
    <2>5. \A k \in 1..(n - 1) : receipts[c][k].leaseExpires <= receipts[c][n].leasedAt
      BY <1>4, <2>1 DEF LeaseInv, LeasesOf
    <2>6. receipts[c][n].leasedAt <= clock
      BY <1>4, <2>1 DEF LeaseInv, LeasesOf
    <2> QED
      BY <1>1, <1>4, <2>1, <2>4, <2>5, <2>6, ReceiptFields DEF TeamTypeOK
  <1>6. /\ cmd'[c].status = "delivering"
        /\ cmd'[c].expiresAt = cmd[c].expiresAt
    BY <1>1, <1>2 DEF TeamTypeOK, Commands
  <1>7. ASSUME NEW k \in 1..n
        PROVE  /\ receipts'[c][k].leasedAt <= clock'
               /\ receipts'[c][k].leasedAt <= receipts'[c][k].leaseExpires
               /\ receipts'[c][k].leaseExpires <= cmd'[c].expiresAt
               /\ receipts'[c][k].ackedAt # None => teamAck'[c] # None
               /\ \A j \in 1..(k - 1) :
                    receipts'[c][j].leaseExpires <= receipts'[c][k].leasedAt
    BY <1>2, <1>4, <1>6 DEF LeaseInv, LeasesOf
  <1>8. /\ receipts'[c][n + 1].leasedAt <= clock'
        /\ receipts'[c][n + 1].leasedAt <= receipts'[c][n + 1].leaseExpires
        /\ receipts'[c][n + 1].leaseExpires <= cmd'[c].expiresAt
        /\ receipts'[c][n + 1].ackedAt = None
        /\ \A j \in 1..n :
             receipts'[c][j].leaseExpires <= receipts'[c][n + 1].leasedAt
    BY <1>1, <1>2, <1>3, <1>4, <1>5, <1>6 DEF TeamTypeOK
  <1>9. \A k \in 1..(n + 1) : k \in 1..n \/ (k = n + 1 /\ 1..(k - 1) = 1..n)
    BY <1>4
  <1> QED
    BY <1>4, <1>6, <1>7, <1>8, <1>9 DEF LeasesOf

(* Acknowledging a command closes a lease and moves none.                  *)
LEMMA LeasesClose ==
  ASSUME IInv, LeaseInv, NEW c \in Command, exec[c] # None,
         AcceptAck(c, exec[c])
  PROVE  LeasesOf(c)'
  <1> DEFINE k == exec[c].attempt
             r == [receipts[c][k] EXCEPT !.ackedAt = clock]
  <1>1. /\ TeamTypeOK /\ exec[c] \in Decisions
        /\ k \in 1..Len(receipts[c])
    BY DEF IInv, TypeOK, DesktopTypeOK, StoreLinks
  <1>2. /\ receipts'[c] = [receipts[c] EXCEPT ![k] = r]
        /\ cmd'[c] = [cmd[c] EXCEPT !.status = TerminalStatus(exec[c].outcome),
                                    !.outcome = exec[c].outcome]
        /\ teamAck'[c] = exec[c] /\ clock' = clock
    BY <1>1 DEF AcceptAck, TeamTypeOK
  <1>3. receipts[c] \in Seq(Receipts) /\ receipts[c][k] \in Receipts
    BY <1>1, ReceiptFields DEF TeamTypeOK
  <1>4. /\ r \in Receipts /\ r.leasedAt = receipts[c][k].leasedAt
        /\ r.leaseExpires = receipts[c][k].leaseExpires
    BY <1>1, <1>3 DEF Receipts, TeamTypeOK
  <1>5. /\ Len(receipts'[c]) = Len(receipts[c])
        /\ \A j \in 1..Len(receipts[c]) :
             receipts'[c][j] = IF j = k THEN r ELSE receipts[c][j]
    BY <1>1, <1>2, <1>3, <1>4, ExceptSeq
  <1>6. /\ cmd'[c].status \in {"applied", "expired", "rejected"}
        /\ cmd'[c].expiresAt = cmd[c].expiresAt
    BY <1>1, <1>2, TerminalStatusType DEF TeamTypeOK, Commands
  <1>7. Len(receipts[c]) \in Nat
    BY <1>1, ReceiptFields
  <1>8. \A j \in 1..Len(receipts[c]) :
          /\ receipts'[c][j].leasedAt = receipts[c][j].leasedAt
          /\ receipts'[c][j].leaseExpires = receipts[c][j].leaseExpires
    BY <1>4, <1>5
  <1> QED
    BY <1>2, <1>5, <1>6, <1>7, <1>8 DEF LeaseInv, LeasesOf

LEMMA LeaseStep ==
  ASSUME IInv, LeaseInv, [Next]_vars
  PROVE  LeaseInv'
  <1> SUFFICES ASSUME NEW c \in Command
               PROVE  LeasesOf(c)'
    BY DEF LeaseInv
  <1>1. CASE OnlySweeps
    BY <1>1, LeasesStay DEF OnlySweeps
  <1>2. ASSUME NEW d \in Command, OperatesOn(d)
        PROVE  LeasesOf(c)'
    <2>1. CASE Creates(d) \/ Refuses(d)
      BY <2>1, LeasesStay DEF Creates, Refuses
    <2>2. CASE LeaseReceipt(d) /\ d # c
      BY <2>2, LeasesStay DEF LeaseReceipt, Swept, IInv, TypeOK, TeamTypeOK
    <2>3. CASE exec[d] # None /\ AcceptAck(d, exec[d]) /\ d # c
      BY <2>3, LeasesStay DEF AcceptAck, Swept, IInv, TypeOK, TeamTypeOK
    <2> QED
      BY <1>2, <2>1, <2>2, <2>3, LeasesGrow, LeasesClose DEF OperatesOn
  <1> QED
    BY <1>1, <1>2, StepOnTeam

THEOREM LeaseInvHolds == Spec => []LeaseInv
  <1>1. Init => LeaseInv
    <2> SUFFICES ASSUME Init, NEW c \in Command
                 PROVE  LeasesOf(c)
      BY DEF LeaseInv
    <2>1. receipts[c] = <<>>
      BY DEF Init, TeamInit
    <2>2. Len(receipts[c]) = 0
      BY <2>1, EmptySeq
    <2>3. 1..Len(receipts[c]) = {}
      BY <2>2
    <2> QED
      BY <2>1, <2>3 DEF LeasesOf
  <1>2. IInv /\ LeaseInv /\ [Next]_vars => LeaseInv'
    BY LeaseStep
  <1> QED
    BY <1>1, <1>2, InductiveInvariant, PTL DEF Spec

(* The leases of a command follow one another and end with the command,    *)
(* however often it is asked for a receipt.                                *)
THEOREM LeasesFollow == Spec => []LeasesDoNotOverlap
  <1>1. LeaseInv => LeasesDoNotOverlap
    BY DEF LeaseInv, LeasesOf, LeasesDoNotOverlap
  <1> QED
    BY <1>1, LeaseInvHolds, PTL

-----------------------------------------------------------------------------
(* Versions.                                                               *)

(* What the Team knows of the run and what commands were issued for are    *)
(* versions the run has had.                                               *)
VersionsOf(c) ==
  IF cmd[c].status \in {"none", "refused"} THEN cmd[c].expected = 0
  ELSE cmd[c].expected \in 1..run.version

VersionInv ==
  /\ projection.version \in 1..run.version
  /\ \A s \in summaries : s.version \in 1..run.version
  /\ \A c \in Command : VersionsOf(c)

(* Whoever moves the run, its version grows and its summary is queued.     *)
LEMMA RunGrows ==
  ASSUME IInv, Evaluated, [Next]_vars
  PROVE  /\ run.version \in Nat /\ run'.version \in Nat
         /\ UNCHANGED <<run, summaries>>
              \/ /\ run'.version = run.version + 1
                 /\ summaries' = summaries \union {run'}
  <1>1. run.version \in Nat /\ run'.version \in Nat
    BY StepInv DEF IInv, TypeOK, DesktopTypeOK, RunStates
  <1>2. ASSUME CommitDecision
        PROVE  UNCHANGED <<run, summaries>>
                 \/ /\ run'.version = run.version + 1
                    /\ summaries' = summaries \union {run'}
    <2>1. CASE Resolve(job) = "applied"
      <3>1. /\ job.outcome = "applied"
            /\ run.version = cmd[job.command].expected
        BY <2>1 DEF Resolve
      <3>2. job.base = run.version
        BY <1>2, <3>1 DEF CommitDecision, Evaluated
      <3> QED
        BY <1>2, <2>1, <3>2 DEF CommitDecision, WriteRun
    <2>2. CASE Resolve(job) # "applied"
      BY <1>2, <2>2 DEF CommitDecision
    <2> QED
      BY <2>1, <2>2
  <1>3. LoopStep /\ ~CommitDecision => UNCHANGED <<run, summaries>>
    BY DEF LoopStep, StartPoll, RetryPendingAck, TakeCommand, StopOnBacklog,
           EndPoll, CheckReceipt, LoadRun, Evaluate, ReplayExecution,
           SettleAck, storeVars
  <1>4. LocalStep => UNCHANGED <<run, summaries>>
                       \/ /\ run'.version = run.version + 1
                          /\ summaries' = summaries \union {run'}
    BY DEF LocalStep, LocalTransition, ChangeMaterial, WriteRun
  <1>5. ~LoopStep /\ ~LocalStep => UNCHANGED <<run, summaries>>
    BY DEF Next, vars, WebStep, SyncStep, TimeStep, PollStep, PollInbox,
           ReadInbox, RequestReceipt, SendAck, FaultStep, DenyAck, GiveUp,
           Crash, CrashDesktop, HandleLate, desktopVars, storeVars
  <1> QED
    BY <1>1, <1>2, <1>3, <1>4, <1>5

LEMMA SweptFields ==
  ASSUME TeamTypeOK, NEW c \in Command, Swept(c)
  PROVE  /\ cmd'[c].expected = cmd[c].expected
         /\ cmd'[c].expiresAt = cmd[c].expiresAt
         /\ cmd'[c].action = cmd[c].action
         /\ \/ /\ cmd'[c].status = cmd[c].status
               /\ cmd'[c].outcome = cmd[c].outcome
            \/ /\ cmd[c].status \in Active
               /\ cmd'[c].status = "expired" /\ cmd'[c].outcome = "expired"
            \/ /\ cmd[c].status \in Active
               /\ cmd'[c].status = "rejected"
               /\ cmd'[c].outcome = "requester_revoked"
  BY DEF Swept, IsActive, Expire, Revoke, TeamTypeOK, Commands

(* The same for the two operations that move a command on.                 *)
LEMMA LeaseFields ==
  ASSUME TeamTypeOK, NEW c \in Command, LeaseReceipt(c)
  PROVE  /\ cmd'[c] = [cmd[c] EXCEPT !.status = "delivering"]
         /\ cmd[c].status \in Active /\ cmd'[c].status = "delivering"
         /\ cmd'[c].expected = cmd[c].expected
         /\ cmd'[c].outcome = cmd[c].outcome
         /\ \A d \in Command \ {c} : Swept(d) /\ receipts'[d] = receipts[d]
  BY DEF LeaseReceipt, Deliverable, IsActive, Swept, TeamTypeOK, Commands

LEMMA AckFields ==
  ASSUME TeamTypeOK, NEW c \in Command, NEW ack \in Decisions,
         AcceptAck(c, ack)
  PROVE  /\ cmd[c].status \in {"delivering", "expired"}
         /\ cmd'[c].status = TerminalStatus(ack.outcome)
         /\ cmd'[c].status \in {"applied", "expired", "rejected"}
         /\ cmd'[c].outcome = ack.outcome
         /\ cmd'[c].expected = cmd[c].expected
         /\ teamAck[c] = None /\ teamAck'[c] = ack
         /\ \A d \in Command \ {c} : Swept(d) /\ teamAck'[d] = teamAck[d]
  BY TerminalStatusType
  DEF AcceptAck, Acceptable, Swept, TeamTypeOK, Commands

LEMMA VersionStep ==
  ASSUME IInv, Evaluated, VersionInv, [Next]_vars
  PROVE  VersionInv'
  <1>1. TeamTypeOK
    BY DEF IInv, TypeOK
  <1>2. 1..run.version \subseteq 1..run'.version
    BY RunGrows
  <1>3. \A s \in summaries' : s.version \in 1..run'.version
    <2>1. 1 <= run.version
      BY RunGrows DEF VersionInv
    <2> QED
      BY <1>2, <2>1, RunGrows DEF VersionInv
  <1>4. \A c \in Command : Swept(c) => VersionsOf(c)'
    BY <1>1, <1>2, SweptFields DEF VersionInv, VersionsOf, Active
  <1>5. CASE OnlySweeps
    BY <1>2, <1>3, <1>4, <1>5 DEF OnlySweeps, VersionInv
  <1>6. ASSUME NEW d \in Command, OperatesOn(d)
        PROVE  VersionInv'
    <2>1. CASE Creates(d)
      BY <1>2, <1>3, <1>4, <2>1 DEF Creates, VersionInv, VersionsOf
    <2>2. CASE Refuses(d)
      <3>1. cmd'[d].status = "refused" /\ cmd'[d].expected = cmd[d].expected
        BY <1>1, <2>2 DEF Refuses, TeamTypeOK, Commands
      <3> QED
        BY <1>2, <1>3, <1>4, <2>2, <3>1 DEF Refuses, VersionInv, VersionsOf
    <2>3. CASE LeaseReceipt(d)
      <3>1. UNCHANGED projection
        BY <2>3 DEF LeaseReceipt
      <3> QED
        BY <1>1, <1>2, <1>3, <1>4, <2>3, <3>1, LeaseFields
        DEF VersionInv, VersionsOf, Active
    <2>4. CASE exec[d] # None /\ AcceptAck(d, exec[d])
      <3>1. UNCHANGED projection /\ exec[d] \in Decisions
        BY <2>4 DEF AcceptAck, IInv, TypeOK, DesktopTypeOK
      <3> QED
        BY <1>1, <1>2, <1>3, <1>4, <2>4, <3>1, AckFields
        DEF VersionInv, VersionsOf
    <2> QED
      BY <1>6, <2>1, <2>2, <2>3, <2>4 DEF OperatesOn
  <1> QED
    BY <1>5, <1>6, StepOnTeam

THEOREM VersionInvHolds == Spec => []VersionInv
  <1>1. Init => VersionInv
    BY DEF Init, TeamInit, DesktopInit, VersionInv, VersionsOf, NoCommand
  <1>2. IInv /\ Evaluated /\ VersionInv /\ [Next]_vars => VersionInv'
    BY VersionStep
  <1> QED
    BY <1>1, <1>2, InductiveInvariant, EvaluatedHolds, PTL DEF Spec

-----------------------------------------------------------------------------
(* Ends.                                                                   *)

(* A command is rejected by a decision reported or because its requester   *)
(* lost the right to it.                                                   *)
EndOf(c) ==
  /\ cmd[c].outcome = "requester_revoked" => cmd[c].status = "rejected"
  /\ cmd[c].status = "rejected" /\ teamAck[c] = None =>
       cmd[c].outcome = "requester_revoked"

EndInv == \A c \in Command : EndOf(c)

LEMMA EndStep ==
  ASSUME IInv, EndInv, [Next]_vars
  PROVE  EndInv'
  <1>1. TeamTypeOK
    BY DEF IInv, TypeOK
  <1>2. ASSUME NEW c \in Command, Swept(c), teamAck'[c] = teamAck[c]
        PROVE  EndOf(c)'
    BY <1>1, <1>2, SweptFields DEF EndInv, EndOf, Active
  <1>3. CASE OnlySweeps
    BY <1>2, <1>3 DEF OnlySweeps, EndInv
  <1>4. ASSUME NEW d \in Command, OperatesOn(d)
        PROVE  EndInv'
    <2>1. CASE Creates(d)
      BY <1>2, <2>1, NoneAssumption DEF Creates, EndInv, EndOf
    <2>2. CASE Refuses(d)
      <3>1. cmd'[d].status = "refused" /\ cmd'[d].outcome = cmd[d].outcome
        BY <1>1, <2>2 DEF Refuses, TeamTypeOK, Commands
      <3> QED
        BY <1>2, <2>2, <3>1 DEF Refuses, EndInv, EndOf
    <2>3. CASE LeaseReceipt(d)
      <3>1. UNCHANGED teamAck
        BY <2>3 DEF LeaseReceipt
      <3> QED
        BY <1>1, <1>2, <2>3, <3>1, LeaseFields DEF EndInv, EndOf, Active
    <2>4. CASE exec[d] # None /\ AcceptAck(d, exec[d])
      <3>1. exec[d] \in Decisions
        BY <2>4 DEF IInv, TypeOK, DesktopTypeOK
      <3>2. exec[d].outcome # "requester_revoked" /\ exec[d] # None
        BY <2>4, <3>1 DEF Decisions, Outcome
      <3> QED
        BY <1>1, <1>2, <2>4, <3>1, <3>2, AckFields DEF EndInv, EndOf
    <2> QED
      BY <1>4, <2>1, <2>2, <2>3, <2>4 DEF OperatesOn
  <1> QED
    BY <1>3, <1>4, StepOnTeam

THEOREM EndInvHolds == Spec => []EndInv
  <1>1. Init => EndInv
    <2> SUFFICES ASSUME Init, NEW c \in Command
                 PROVE  EndOf(c)
      BY DEF EndInv
    <2>1. cmd[c] = NoCommand
      BY DEF Init, TeamInit
    <2>2. cmd[c].status = "none" /\ cmd[c].outcome = None
      BY <2>1 DEF NoCommand
    <2>3. None # "requester_revoked"
      BY NoneAssumption
    <2> QED
      BY <2>2, <2>3 DEF EndOf
  <1>2. IInv /\ EndInv /\ [Next]_vars => EndInv'
    BY EndStep
  <1> QED
    BY <1>1, <1>2, InductiveInvariant, PTL DEF Spec

-----------------------------------------------------------------------------
(* Decisions.                                                              *)

(* The moment of a decision lies within the lease it was taken under; only *)
(* an expiry is decided once the command is over.                          *)
Timely(c, k, outcome, at) ==
  /\ receipts[c][k].leasedAt <= at /\ at <= Now
  /\ IF outcome = "expired" THEN cmd[c].expiresAt <= at
     ELSE at < receipts[c][k].leaseExpires

(* What the loop has decided and not yet committed.                        *)
JobInv ==
  /\ pc \in {"observed", "loaded"} => Receipt.leasedAt <= Now
  /\ pc = "loaded" => cmd[job.command].expected <= job.base
  /\ pc = "decided" =>
       /\ Timely(job.command, job.attempt, job.outcome, job.evaluatedAt)
       /\ job.outcome = "human_rejected" => cmd[job.command].action = "reject"
       /\ job.outcome = "stale_run" =>
            cmd[job.command].expected < run.version

(* What it has stored, the Team will find in order.                        *)
DecisionOf(c) ==
  exec[c] # None =>
    /\ Timely(c, exec[c].attempt, exec[c].outcome, exec[c].evaluatedAt)
    /\ WellFormed(c, exec[c])

DecisionInv == JobInv /\ \A c \in Command : DecisionOf(c)

LEMMA SkewStays ==
  ASSUME [Next]_vars
  PROVE  skew' = skew
  BY DEF Next, vars, WebStep, SyncStep, TimeStep, LocalStep,
         LocalTransition, ChangeMaterial, PollStep, PollInbox, ReadInbox,
         RequestReceipt, SendAck, FaultStep, DenyAck, GiveUp, Crash,
         CrashDesktop, HandleLate, desktopVars, LoopStep, StartPoll,
         RetryPendingAck, TakeCommand, StopOnBacklog, EndPoll, CheckReceipt,
         LoadRun, Evaluate, CommitDecision, ReplayExecution, SettleAck

LEMMA ClockGrows ==
  ASSUME IInv, [Next]_vars
  PROVE  Now \in Int /\ Now' \in Int /\ Now <= Now'
  <1>1. clock' \in {clock, clock + 1}
    BY StepOnTeam
    DEF OnlySweeps, OperatesOn, Creates, Refuses, LeaseReceipt, AcceptAck
  <1>2. skew' = skew
    BY SkewStays
  <1>3. clock \in Nat /\ skew \in Int
    BY SkewsAssumption DEF IInv, TypeOK, TeamTypeOK, DesktopTypeOK
  <1>4. clock' \in Nat /\ clock <= clock'
    BY <1>1, <1>3
  <1>5. \A a, b \in Nat, s \in Int :
          a <= b => a + s \in Int /\ b + s \in Int /\ a + s <= b + s
    OBVIOUS
  <1>6. /\ clock + skew \in Int /\ clock' + skew \in Int
        /\ clock + skew <= clock' + skew
    BY <1>3, <1>4, <1>5
  <1> QED
    BY <1>2, <1>6 DEF Now

(* A receipt keeps its bounds, and what was leased keeps what it asks for. *)
LEMMA BoundsStay ==
  ASSUME IInv, LeaseInv, [Next]_vars, NEW c \in Command,
         NEW k \in 1..Len(receipts[c])
  PROVE  /\ receipts'[c][k].leasedAt = receipts[c][k].leasedAt
         /\ receipts'[c][k].leaseExpires = receipts[c][k].leaseExpires
         /\ cmd'[c].expiresAt = cmd[c].expiresAt
         /\ cmd'[c].action = cmd[c].action
         /\ cmd'[c].expected = cmd[c].expected
         /\ receipts[c][k].leasedAt \in Nat
         /\ receipts[c][k].leaseExpires \in Nat
         /\ cmd[c].expiresAt \in Nat /\ cmd[c].expected \in Nat
         /\ cmd[c].status \notin {"none", "refused"}
  <1>1. /\ TeamTypeOK /\ receipts[c] \in Seq(Receipts)
        /\ receipts[c][k] \in Receipts /\ Len(receipts[c]) \in Nat
    BY ReceiptFields DEF IInv, TypeOK, TeamTypeOK
  <1>2. receipts[c] # <<>>
    BY <1>1, EmptySeq
  <1>3. cmd[c].status \notin {"none", "refused"}
    BY <1>2 DEF LeaseInv, LeasesOf
  <1>4. /\ cmd'[c].expiresAt = cmd[c].expiresAt
        /\ cmd'[c].action = cmd[c].action
        /\ cmd'[c].expected = cmd[c].expected
    BY <1>3, StepFinal DEF Lasting
  <1>5. /\ receipts'[c][k].leasedAt = receipts[c][k].leasedAt
        /\ receipts'[c][k].leaseExpires = receipts[c][k].leaseExpires
    <2>1. CASE receipts'[c] = receipts[c]
      BY <2>1
    <2>2. CASE LeaseReceipt(c)
      <3>1. receipts'[c] = Append(receipts[c], NewReceipt(c))
        BY <1>1, <2>2 DEF LeaseReceipt, TeamTypeOK
      <3>2. NewReceipt(c) \in Receipts
        BY <1>1, NewReceiptType
      <3> QED
        BY <1>1, <3>1, <3>2, AppendProperties
    <2>3. CASE exec[c] # None /\ AcceptAck(c, exec[c])
      <3> DEFINE a == exec[c].attempt
                 r == [receipts[c][a] EXCEPT !.ackedAt = clock]
      <3>1. a \in 1..Len(receipts[c])
        BY <2>3 DEF IInv, StoreLinks
      <3>2. receipts'[c] = [receipts[c] EXCEPT ![a] = r]
        BY <1>1, <2>3 DEF AcceptAck, TeamTypeOK
      <3>3. receipts[c][a] \in Receipts /\ r \in Receipts
            /\ r.leasedAt = receipts[c][a].leasedAt
            /\ r.leaseExpires = receipts[c][a].leaseExpires
        BY <1>1, <3>1, ReceiptFields DEF Receipts, TeamTypeOK
      <3>4. receipts'[c][k] = IF k = a THEN r ELSE receipts[c][k]
        BY <1>1, <3>1, <3>2, <3>3, ExceptSeq
      <3> QED
        BY <3>3, <3>4
    <2>4. ASSUME NEW d \in Command, d # c, OperatesOn(d)
          PROVE  receipts'[c] = receipts[c]
      BY <1>1, <2>4
      DEF OperatesOn, Creates, Refuses, LeaseReceipt, AcceptAck, TeamTypeOK
    <2>5. ASSUME OperatesOn(c)
          PROVE  \/ receipts'[c] = receipts[c] \/ LeaseReceipt(c)
                 \/ exec[c] # None /\ AcceptAck(c, exec[c])
      BY <2>5 DEF OperatesOn, Creates, Refuses
    <2> QED
      BY <2>1, <2>2, <2>3, <2>4, <2>5, StepOnTeam DEF OnlySweeps
  <1> QED
    BY <1>1, <1>3, <1>4, <1>5 DEF Receipts, TeamTypeOK, Commands

(* What the loop has in hand, and that nobody else touches it.             *)
LEMMA InHand ==
  ASSUME IInv, pc \in {"received", "observed", "loaded", "decided"}
  PROVE  /\ job.command \in Command /\ job.attempt \in Nat
         /\ job.attempt \in 1..Len(receipts[job.command])
         /\ job.base \in Nat /\ job.evaluatedAt \in Int /\ job \in Jobs
         /\ run.version \in Nat
  BY DEF IInv, TypeOK, DesktopTypeOK, LoopLinks, Jobs, RunStates

LEMMA JobRests ==
  ASSUME IInv, Evaluated, LeaseInv, JobInv, [Next]_vars, UNCHANGED <<pc, job>>
  PROVE  JobInv'
  <1> SUFFICES ASSUME pc \in {"observed", "loaded", "decided"}
               PROVE  JobInv'
    BY DEF JobInv
  <1> DEFINE c == job.command
             k == job.attempt
  <1>1. /\ receipts'[c][k].leasedAt = receipts[c][k].leasedAt
        /\ receipts'[c][k].leaseExpires = receipts[c][k].leaseExpires
        /\ cmd'[c].expiresAt = cmd[c].expiresAt
        /\ cmd'[c].action = cmd[c].action
        /\ cmd'[c].expected = cmd[c].expected
        /\ receipts[c][k].leasedAt \in Nat /\ cmd[c].expected \in Nat
    BY InHand, BoundsStay
  <1>2. Now \in Int /\ Now' \in Int /\ Now <= Now'
    BY ClockGrows
  <1>3. /\ run.version \in Nat /\ run'.version \in Nat
        /\ run'.version = run.version \/ run'.version = run.version + 1
    BY RunGrows
  <1>4. pc \in {"observed", "loaded"} => Receipt'.leasedAt <= Now'
    BY <1>1, <1>2 DEF JobInv, Receipt
  <1>5. pc = "decided" =>
          Timely(job.command, job.attempt, job.outcome, job.evaluatedAt)'
    <2>1. job.evaluatedAt \in Int
      BY InHand
    <2> QED
      BY <1>1, <1>2, <2>1 DEF JobInv, Timely
  <1>6. pc = "decided" /\ job.outcome = "stale_run" =>
          cmd'[c].expected < run'.version
    BY <1>1, <1>3 DEF JobInv
  <1> QED
    BY <1>1, <1>4, <1>5, <1>6 DEF JobInv

LEMMA JobStep ==
  ASSUME IInv, Evaluated, LeaseInv, VersionInv, JobInv, [Next]_vars
  PROVE  JobInv'
  <1>1. CASE pc' \notin {"observed", "loaded", "decided"}
    BY <1>1 DEF JobInv
  <1>2. CASE UNCHANGED <<pc, job>>
    BY <1>2, JobRests
  <1>3. CASE CheckReceipt /\ UNCHANGED teamVars /\ pc' # "next"
    <2>1. /\ pc = "received" /\ pc' \in {"observed", "decided"}
          /\ UNCHANGED <<skew, run, cmd, receipts, clock>>
          /\ ~(Now < Receipt.leasedAt)
          /\ pc' = "observed" => job' = job
          /\ pc' = "decided" => CommandOver /\ job' = Decide("expired")
      BY <1>3 DEF CheckReceipt, NextItem, GoOn, teamVars
    <2>2. /\ job'.command = job.command /\ job'.attempt = job.attempt
          /\ pc' = "decided" => job'.outcome = "expired" /\ job'.evaluatedAt = Now
      BY <2>1, InHand DEF Decide, Jobs
    <2>3. /\ Now \in Int /\ Receipt.leasedAt \in Nat
          /\ cmd[job.command].expiresAt \in Nat
      BY <2>1, InHand, BoundsStay, ClockGrows DEF Receipt
    <2>4. /\ Now' = Now /\ Receipt' = Receipt /\ Receipt.leasedAt <= Now
          /\ pc' = "decided" => cmd[job.command].expiresAt <= Now
      BY <2>1, <2>2, <2>3 DEF Now, Receipt, CommandOver
    <2> QED
      BY <2>1, <2>2, <2>3, <2>4 DEF JobInv, Timely, Receipt
  <1>4. CASE LoadRun /\ UNCHANGED teamVars
    <2>1. /\ pc = "observed" /\ pc' = "loaded"
          /\ UNCHANGED <<skew, cmd, receipts, clock>>
          /\ job' = [job EXCEPT !.base = run.version, !.atGate = run.atGate]
      BY <1>4 DEF LoadRun, GoOn, storeVars, teamVars
    <2>2. /\ job'.command = job.command /\ job'.attempt = job.attempt
          /\ job'.base = run.version
      BY <2>1, InHand DEF Jobs
    <2>3. cmd[job.command].expected <= run.version
      <3>1. cmd[job.command].status \notin {"none", "refused"}
        BY <2>1, InHand, BoundsStay
      <3> QED
        BY <2>1, <3>1, InHand DEF VersionInv, VersionsOf
    <2> QED
      BY <2>1, <2>2, <2>3 DEF JobInv, Receipt, Now
  <1>5. CASE Evaluate /\ UNCHANGED teamVars /\ pc' # "next"
    <2>1. /\ pc = "loaded" /\ pc' = "decided"
          /\ UNCHANGED <<skew, run, cmd, receipts, clock>>
      BY <1>5 DEF Evaluate, NextItem, GoOn, storeVars, teamVars
    <2>2. PICK outcome \in {"expired", Verdict} :
            /\ job' = Decide(outcome)
            /\ outcome = "expired" => CommandOver
            /\ outcome # "expired" => ~LeaseOver /\ outcome = Verdict
      BY <1>5 DEF Evaluate, NextItem, GoOn, Verdict
    <2>3. /\ job'.command = job.command /\ job'.attempt = job.attempt
          /\ job'.outcome = outcome /\ job'.evaluatedAt = Now
      BY <2>1, <2>2, InHand DEF Decide, Jobs
    <2>4. /\ Now \in Int /\ Receipt.leasedAt \in Nat
          /\ Receipt.leaseExpires \in Nat
          /\ cmd[job.command].expiresAt \in Nat
          /\ cmd[job.command].expected \in Nat
          /\ run.version \in Nat /\ job.base \in Nat
      BY <2>1, InHand, BoundsStay, ClockGrows DEF Receipt
    <2>5. Now' = Now
      BY <2>1 DEF Now
    <2>6. Timely(job.command, job.attempt, job.outcome, job.evaluatedAt)'
      BY <2>1, <2>2, <2>3, <2>4, <2>5
      DEF JobInv, Timely, Receipt, CommandOver, LeaseOver
    <2>7. outcome = "human_rejected" => cmd[job.command].action = "reject"
      <3>1. cmd[job.command].action \in Action
        BY <2>1, InHand DEF IInv, TypeOK, TeamTypeOK, Commands
      <3> QED
        BY <2>2, <3>1 DEF Verdict, Action
    <2>8. outcome = "stale_run" => cmd[job.command].expected < run.version
      <3>1. cmd[job.command].expected <= job.base /\ job.base <= run.version
        BY <2>1 DEF JobInv, Evaluated
      <3>2. outcome = "stale_run" => job.base # cmd[job.command].expected
        BY <2>2 DEF Verdict
      <3> QED
        BY <2>4, <3>1, <3>2
    <2> QED
      BY <2>1, <2>3, <2>6, <2>7, <2>8 DEF JobInv
  <1>6. ASSUME pc' \in {"observed", "loaded", "decided"},
               ~(UNCHANGED <<pc, job>>)
        PROVE  (CheckReceipt \/ LoadRun \/ Evaluate) /\ UNCHANGED teamVars
    <2>1. ~(UNCHANGED loopVars)
      BY <1>6 DEF loopVars
    <2>2. ~(UNCHANGED desktopVars)
      BY <2>1 DEF desktopVars
    <2>3. LoopStep /\ UNCHANGED teamVars
      BY <1>6, <2>1, <2>2
      DEF Next, vars, WebStep, SyncStep, TimeStep, LocalStep,
          LocalTransition, ChangeMaterial, PollStep, PollInbox, ReadInbox,
          RequestReceipt, SendAck, NextItem, GoOn, FaultStep, DenyAck, GiveUp,
          Crash, CrashDesktop, HandleLate, LoopStep
    <2> QED
      BY <1>6, <2>3
      DEF LoopStep, StartPoll, RetryPendingAck, TakeCommand, StopOnBacklog,
          EndPoll, CommitDecision, ReplayExecution, SettleAck, NextItem, GoOn
  <1> QED
    BY <1>1, <1>2, <1>3, <1>4, <1>5, <1>6

(* What the commit stores of a decision.                                   *)
LEMMA Committed ==
  ASSUME IInv, Evaluated, LeaseInv, JobInv, CommitDecision, [Next]_vars,
         UNCHANGED teamVars, NEW c \in Command, c = job.command
  PROVE  DecisionOf(c)'
  <1> DEFINE k == job.attempt
             x == Execution(job)
  <1>1. /\ pc = "decided" /\ c \in Command /\ k \in 1..Len(receipts[c])
        /\ exec'[c] = x /\ x \in Decisions /\ x.attempt = k
        /\ UNCHANGED <<cmd, receipts>>
    BY InHand, Deciding, ExecutionType
    DEF CommitDecision, teamVars, IInv, TypeOK, DesktopTypeOK, LoopLinks
  <1>2. /\ x.outcome = Resolve(job) /\ x.evaluatedAt = job.evaluatedAt
        /\ x.before = IF Resolve(job) = "stale_run" THEN run.version
                      ELSE cmd[c].expected
    BY DEF Execution
  <1>3. /\ receipts[c][k].leaseExpires \in Nat /\ cmd[c].expiresAt \in Nat
        /\ cmd[c].expected \in Nat /\ run.version \in Nat
        /\ job.evaluatedAt \in Int /\ Now \in Int /\ Now' \in Int /\ Now <= Now'
    BY <1>1, InHand, BoundsStay, ClockGrows
  <1>4. Timely(c, k, job.outcome, job.evaluatedAt)
    BY <1>1 DEF JobInv
  <1>5. (Resolve(job) = "expired") <=> (job.outcome = "expired")
    BY DEF Resolve
  <1>6. Timely(c, exec[c].attempt, exec[c].outcome, exec[c].evaluatedAt)'
    BY <1>1, <1>2, <1>3, <1>4, <1>5 DEF Timely
  <1>7. (Resolve(job) = "stale_run") <=> (x.before # cmd[c].expected)
    <2>1. Resolve(job) = "stale_run" => run.version # cmd[c].expected
      BY <1>1, <1>3 DEF Resolve, JobInv
    <2> QED
      BY <1>2, <2>1
  <1>8. /\ Resolve(job) = "applied" => cmd[c].action = "approve"
        /\ Resolve(job) = "human_rejected" => cmd[c].action = "reject"
    BY <1>1 DEF Resolve, Evaluated, JobInv
  <1>9. WellFormed(c, exec[c])'
    BY <1>1, <1>2, <1>7, <1>8 DEF WellFormed
  <1> QED
    BY <1>6, <1>9 DEF DecisionOf

LEMMA DecisionStep ==
  ASSUME IInv, Evaluated, LeaseInv, VersionInv, DecisionInv, [Next]_vars
  PROVE  DecisionInv'
  <1>1. JobInv'
    BY JobStep DEF DecisionInv
  <1>2. ASSUME NEW c \in Command, exec[c] # None, exec'[c] = exec[c]
        PROVE  DecisionOf(c)'
    <2>1. exec[c] \in Decisions /\ exec[c].attempt \in 1..Len(receipts[c])
      BY <1>2 DEF IInv, TypeOK, DesktopTypeOK, StoreLinks
    <2>2. exec[c].evaluatedAt \in Int
      BY <2>1 DEF Decisions
    <2>3. Now \in Int /\ Now' \in Int /\ Now <= Now'
      BY ClockGrows
    <2> DEFINE k == exec[c].attempt
    <2>4. /\ receipts'[c][k].leasedAt = receipts[c][k].leasedAt
          /\ receipts'[c][k].leaseExpires = receipts[c][k].leaseExpires
          /\ cmd'[c].expiresAt = cmd[c].expiresAt
          /\ cmd'[c].action = cmd[c].action
          /\ cmd'[c].expected = cmd[c].expected
      BY <2>1, BoundsStay
    <2> QED
      BY <1>2, <2>2, <2>3, <2>4 DEF DecisionInv, DecisionOf, Timely, WellFormed
  <1>3. ASSUME NEW c \in Command, exec'[c] # exec[c]
        PROVE  DecisionOf(c)'
    <2>1. LoopStep /\ CommitDecision
      BY <1>3, OnlyCommitDecides
    <2>2. c = job.command
      BY <1>3, <2>1, Deciding DEF IInv, TypeOK, DesktopTypeOK
    <2>3. UNCHANGED teamVars
      BY <2>1 DEF LoopStep
    <2> QED
      BY <2>1, <2>2, <2>3, Committed DEF DecisionInv
  <1> QED
    BY <1>1, <1>2, <1>3 DEF DecisionInv, DecisionOf

THEOREM DecisionInvHolds == Spec => []DecisionInv
  <1>1. Init => DecisionInv
    BY DEF Init, DesktopInit, DecisionInv, JobInv, DecisionOf
  <1>2. /\ IInv /\ Evaluated /\ LeaseInv /\ VersionInv /\ DecisionInv
        /\ [Next]_vars
        => DecisionInv'
    BY DecisionStep
  <1> QED
    BY <1>1, <1>2, InductiveInvariant, EvaluatedHolds, LeaseInvHolds,
       VersionInvHolds, PTL
    DEF Spec

(* A decision other than an expiry was taken while the desktop held the    *)
(* lease named in it, by its own clock: processCommand looks at the clock  *)
(* again after its awaits.                                                 *)
THEOREM DecidedInTime == Spec => []DecidedUnderLease
  <1>1. DecisionInv => DecidedUnderLease
    BY DEF DecisionInv, DecisionOf, Timely, DecidedUnderLease
  <1> QED
    BY <1>1, DecisionInvHolds, PTL

-----------------------------------------------------------------------------
(* Refusals.                                                               *)

Withdrawn(c) == cmd[c].outcome = "requester_revoked"

(* Whoever waits for no denial and has no clock that runs ahead reads a    *)
(* refusal only of a command that was withdrawn.                           *)
RefusedInv ==
  skew <= 0 /\ ~MayDeny =>
    /\ pc = "replied" /\ job.reply = "refused" => Withdrawn(job.command)
    /\ \A c \in Command : localAck[c] = "terminal" => Withdrawn(c)

LEMMA WithdrawnStays ==
  ASSUME IInv, EndInv, [Next]_vars, NEW c \in Command, Withdrawn(c)
  PROVE  Withdrawn(c)'
  <1>1. cmd[c].status = "rejected"
    BY DEF EndInv, EndOf, Withdrawn
  <1>2. cmd'[c] = cmd[c]
    BY <1>1, StepFinal DEF Final, Terminal
  <1> QED
    BY <1>2 DEF Withdrawn

(* The Team refuses a decision only if it had withdrawn the command.       *)
LEMMA RefusedIfWithdrawn ==
  ASSUME IInv, LeaseInv, EndInv, DecisionInv, skew <= 0,
         NEW c \in Command, exec[c] # None,
         ~Acceptable(c, exec[c]), ~Repeated(c, exec[c])
  PROVE  Withdrawn(c)
  <1> DEFINE x == exec[c]
             r == receipts[c][x.attempt]
  <1>1. /\ x \in Decisions /\ x.attempt \in 1..Len(receipts[c])
        /\ TeamTypeOK
        /\ teamAck[c] # None =>
             teamAck[c] = x /\ cmd[c].status \in {"applied", "rejected", "expired"}
        /\ cmd[c].status = "applied" => teamAck[c] # None
    BY DEF IInv, TypeOK, DesktopTypeOK, StoreLinks, TeamLinks
  <1>2. WellFormed(c, x) /\ Timely(c, x.attempt, x.outcome, x.evaluatedAt)
    BY DEF DecisionInv, DecisionOf
  <1>3. teamAck[c] = None
    BY <1>1, <1>2 DEF Repeated
  <1>4. /\ r.leasedAt <= r.leaseExpires
        /\ r.leaseExpires <= cmd[c].expiresAt
        /\ r.ackedAt = None
    BY <1>1, <1>3 DEF LeaseInv, LeasesOf
  <1>5. /\ clock \in Nat /\ skew \in Int /\ x.evaluatedAt \in Int
        /\ r.leasedAt \in Nat /\ r.leaseExpires \in Nat
        /\ cmd[c].expiresAt \in Nat
    BY <1>1, ReceiptFields, SkewsAssumption
    DEF TeamTypeOK, Decisions, IInv, TypeOK, DesktopTypeOK, Commands
  <1>6. x.evaluatedAt <= clock
    <2>1. x.evaluatedAt <= clock + skew
      BY <1>2 DEF Timely, Now
    <2>2. \A a \in Int, b \in Nat, s \in Int : a <= b + s /\ s <= 0 => a <= b
      OBVIOUS
    <2> QED
      BY <1>5, <2>1, <2>2
  <1>7. InWindow(c, x)
    BY <1>2, <1>4, <1>5, <1>6 DEF InWindow, Timely
  <1>8. cmd[c].status \notin {"delivering", "expired"}
    BY <1>2, <1>3, <1>4, <1>7 DEF Acceptable
  <1>9. receipts[c] # <<>>
    <2>1. Len(receipts[c]) \in Nat /\ receipts[c] \in Seq(Receipts)
      BY <1>1, ReceiptFields DEF TeamTypeOK
    <2> QED
      BY <1>1, <2>1, EmptySeq
  <1>10. cmd[c].status = "rejected"
    BY <1>1, <1>3, <1>8, <1>9 DEF LeaseInv, LeasesOf
  <1> QED
    BY <1>3, <1>10 DEF EndInv, EndOf, Withdrawn

LEMMA RefusedStep ==
  ASSUME IInv, LeaseInv, EndInv, DecisionInv, RefusedInv, [Next]_vars
  PROVE  RefusedInv'
  <1>1. skew' = skew
    BY SkewStays
  <1> SUFFICES ASSUME skew <= 0, ~MayDeny
               PROVE  /\ pc' = "replied" /\ job'.reply = "refused" =>
                           cmd'[job'.command].outcome = "requester_revoked"
                      /\ \A c \in Command :
                           localAck'[c] = "terminal" =>
                             cmd'[c].outcome = "requester_revoked"
    BY <1>1 DEF RefusedInv, Withdrawn
  <1>2. ASSUME pc' = "replied", job'.reply = "refused"
        PROVE  cmd'[job'.command].outcome = "requester_revoked"
    <2>1. CASE UNCHANGED <<pc, job>>
      <3>1. job.command \in Command /\ Withdrawn(job.command)
        BY <1>2, <2>1 DEF RefusedInv, IInv, TypeOK, DesktopTypeOK
      <3> QED
        BY <2>1, <3>1, WithdrawnStays DEF Withdrawn
    <2>2. CASE SendAck
      <3> DEFINE c == job.command
      <3>1. c \in Command /\ exec[c] # None /\ job \in Jobs
        BY <2>2 DEF SendAck, IInv, TypeOK, DesktopTypeOK, LoopLinks
      <3>2. /\ job'.command = c
            /\ job'.reply = IF Acceptable(c, exec[c]) \/ Repeated(c, exec[c])
                            THEN "accepted" ELSE "refused"
        BY <2>2, <3>1 DEF SendAck, GoOn, Jobs
      <3>3. Withdrawn(c)
        BY <1>2, <3>1, <3>2, RefusedIfWithdrawn
      <3> QED
        BY <3>1, <3>2, <3>3, WithdrawnStays DEF Withdrawn
    <2>3. UNCHANGED <<pc, job>> \/ SendAck
      BY <1>2
      DEF Next, vars, WebStep, SyncStep, TimeStep, LocalStep,
          LocalTransition, ChangeMaterial, PollStep, PollInbox, ReadInbox,
          RequestReceipt, NextItem, GoOn, FaultStep, DenyAck, GiveUp, Crash,
          CrashDesktop, HandleLate, desktopVars, loopVars, LoopStep, StartPoll,
          RetryPendingAck, TakeCommand, StopOnBacklog, EndPoll, CheckReceipt,
          LoadRun, Evaluate, CommitDecision, ReplayExecution, SettleAck
    <2> QED
      BY <2>1, <2>2, <2>3
  <1>3. ASSUME NEW c \in Command, localAck'[c] = "terminal"
        PROVE  Withdrawn(c)'
    <2>1. CASE localAck[c] = "terminal"
      BY <2>1, WithdrawnStays DEF RefusedInv
    <2>2. CASE localAck[c] # "terminal"
      <3>1. ~(UNCHANGED localAck)
        BY <1>3, <2>2
      <3>2. ~(UNCHANGED storeVars)
        BY <3>1 DEF storeVars
      <3>3. ~(UNCHANGED desktopVars)
        BY <3>2 DEF desktopVars
      <3>4. LoopStep
        BY <3>1, <3>2, <3>3
        DEF Next, vars, WebStep, SyncStep, TimeStep, LocalStep,
            LocalTransition, ChangeMaterial, PollStep, PollInbox, ReadInbox,
            RequestReceipt, SendAck, FaultStep, DenyAck, GiveUp, Crash,
            CrashDesktop, HandleLate
      <3>5. CommitDecision \/ SettleAck
        BY <3>1, <3>2, <3>4
        DEF LoopStep, StartPoll, RetryPendingAck, TakeCommand, StopOnBacklog,
            EndPoll, CheckReceipt, LoadRun, Evaluate, ReplayExecution
      <3>6. localAck \in [Command -> {"none", "pending", "acknowledged", "terminal"}]
        BY DEF IInv, TypeOK, DesktopTypeOK
      <3>7. ~CommitDecision
        BY <1>3, <2>2, <3>6 DEF CommitDecision
      <3>8. /\ pc = "replied" /\ job.reply = "refused" /\ c = job.command
        BY <1>3, <2>2, <3>5, <3>6, <3>7
        DEF SettleAck, TerminalizeAck, RecordAcknowledged
      <3> QED
        BY <3>8, WithdrawnStays DEF RefusedInv
    <2> QED
      BY <2>1, <2>2
  <1> QED
    BY <1>2, <1>3 DEF Withdrawn

THEOREM RefusedInvHolds == Spec => []RefusedInv
  <1>1. Init => RefusedInv
    BY DEF Init, DesktopInit, RefusedInv
  <1>2. /\ IInv /\ LeaseInv /\ EndInv /\ DecisionInv /\ RefusedInv
        /\ [Next]_vars
        => RefusedInv'
    BY RefusedStep
  <1> QED
    BY <1>1, <1>2, InductiveInvariant, LeaseInvHolds, EndInvHolds,
       DecisionInvHolds, PTL
    DEF Spec

(* Time-outs, crashes, late and repeated requests alone never lose a       *)
(* decision: unless the bearer is denied or the desktop's clock runs       *)
(* ahead, the Team refuses for good only what it had withdrawn.            *)
THEOREM OnlyWithdrawnRefused == Spec => []RefusedOnlyIfRevoked
  <1>1. RefusedInv => RefusedOnlyIfRevoked
    BY DEF RefusedInv, Withdrawn, RefusedOnlyIfRevoked
  <1> QED
    BY <1>1, RefusedInvHolds, PTL

-----------------------------------------------------------------------------
(* The abstract decision register.                                         *)

Verdicts == [c \in Command |->
               IF exec[c] = None THEN "undecided" ELSE exec[c].outcome]

PublishedOf(c) ==
  IF cmd[c].outcome = "requester_revoked" THEN "withdrawn"
  ELSE IF teamAck[c] # None THEN teamAck[c].outcome
  ELSE IF cmd[c].status = "expired" THEN "lapsed"
  ELSE "open"

Published == [c \in Command |-> PublishedOf(c)]

Closing(c) ==
  \/ PublishedOf(c)' = PublishedOf(c)
  \/ /\ cmd[c].expected # 0 /\ PublishedOf(c) = "open"
     /\ PublishedOf(c)' \in {"lapsed", "withdrawn"}

(* To the register a sweep closes an open command, or nothing happens.     *)
LEMMA SweepCloses ==
  ASSUME IInv, VersionInv, EndInv, NEW c \in Command,
         Swept(c), teamAck'[c] = teamAck[c]
  PROVE  Closing(c) /\ cmd'[c].expected = cmd[c].expected
  <1>1. TeamTypeOK
    BY DEF IInv, TypeOK
  <1>2. CASE cmd'[c].status = cmd[c].status /\ cmd'[c].outcome = cmd[c].outcome
    BY <1>1, <1>2, SweptFields DEF Closing, PublishedOf
  <1>3. CASE cmd[c].status \in Active
    <2>1. teamAck[c] = None
      BY <1>3 DEF IInv, TeamLinks, Active
    <2>2. cmd[c].outcome # "requester_revoked"
      BY <1>3 DEF EndInv, EndOf, Active
    <2>3. cmd[c].expected # 0
      BY <1>3 DEF VersionInv, VersionsOf, Active
    <2> QED
      BY <1>1, <1>3, <2>1, <2>2, <2>3, SweptFields
      DEF Closing, PublishedOf, Active
  <1> QED
    BY <1>1, <1>2, <1>3, SweptFields

LEMMA CloseMaps ==
  ASSUME \A c \in Command : Closing(c) /\ cmd'[c].expected = cmd[c].expected,
         UNCHANGED <<exec, run>>
  PROVE  Decision!Close
  <1>1. Published' \in [Command -> {Published[c] : c \in Command}
                                     \union {"lapsed", "withdrawn"}]
    <2>1. \A c \in Command : Published'[c] \in
            {Published[d] : d \in Command} \union {"lapsed", "withdrawn"}
      BY DEF Closing, Published
    <2> QED
      BY <2>1 DEF Published
  <1> QED
    BY <1>1 DEF Decision!Close, Decision!Closes, Closing, Published, PublishedOf

LEMMA IssueMaps ==
  ASSUME IInv, VersionInv, EndInv, NEW c \in Command, Creates(c),
         UNCHANGED <<exec, run>>, NEW v, v = projection.version
  PROVE  Decision!Issue(c, v)
  <1>1. cmd[c].expected = 0
    BY DEF Creates, VersionInv, VersionsOf
  <1>2. \A d \in Command \ {c} :
          Closing(d) /\ cmd'[d].expected = cmd[d].expected
    BY SweepCloses DEF Creates
  <1>3. PublishedOf(c) = "open" /\ PublishedOf(c)' = "open"
    <2>1. teamAck[c] = None /\ teamAck'[c] = None
      BY DEF IInv, TeamLinks, Creates
    <2>2. cmd[c].outcome # "requester_revoked"
      BY DEF EndInv, EndOf, Creates
    <2>3. cmd'[c].outcome # "requester_revoked"
      BY NoneAssumption DEF Creates
    <2> QED
      BY <2>1, <2>2, <2>3 DEF PublishedOf, Creates
  <1>4. \A d \in Command : Closing(d)
    BY <1>2, <1>3 DEF Closing
  <1>5. Published' \in [Command -> {Published[d] : d \in Command}
                                     \union {"lapsed", "withdrawn"}]
    <2>1. \A e \in Command : Published'[e] \in
            {Published[d] : d \in Command} \union {"lapsed", "withdrawn"}
      BY <1>4 DEF Closing, Published
    <2> QED
      BY <2>1 DEF Published
  <1>6. [d \in Command |-> cmd'[d].expected] =
          [[d \in Command |-> cmd[d].expected] EXCEPT ![c] = v]
    BY <1>2 DEF Creates
  <1> QED
    BY <1>1, <1>3, <1>4, <1>5, <1>6
    DEF Decision!Issue, Decision!Closes, Closing, Published, PublishedOf

LEMMA ReportMaps ==
  ASSUME IInv, EndInv, NEW c \in Command, exec[c] # None,
         AcceptAck(c, exec[c]), UNCHANGED <<exec, run>>
  PROVE  Decision!Report(c)
  <1>1. /\ TeamTypeOK /\ exec[c] \in Decisions /\ exec[c].outcome \in Outcome
    BY DEF IInv, TypeOK, DesktopTypeOK, Decisions
  <1>2. /\ cmd[c].status \in {"delivering", "expired"}
        /\ teamAck[c] = None /\ teamAck'[c] = exec[c]
        /\ cmd'[c].outcome = exec[c].outcome
        /\ cmd'[c].expected = cmd[c].expected
        /\ \A d \in Command \ {c} : cmd'[d] = cmd[d] /\ teamAck'[d] = teamAck[d]
    BY <1>1, AckFields DEF AcceptAck, TeamTypeOK
  <1>3. PublishedOf(c) \in {"open", "lapsed"}
    BY <1>2 DEF PublishedOf, EndInv, EndOf
  <1>4. PublishedOf(c)' = exec[c].outcome /\ exec[c].outcome # "undecided"
    BY <1>1, <1>2 DEF PublishedOf, Outcome
  <1>5. \A d \in Command \ {c} : PublishedOf(d)' = PublishedOf(d)
    BY <1>2 DEF PublishedOf
  <1>6. Published' = [Published EXCEPT ![c] = exec[c].outcome]
    BY <1>4, <1>5 DEF Published
  <1>7. [d \in Command |-> cmd'[d].expected] = [d \in Command |-> cmd[d].expected]
    BY <1>2
  <1> QED
    BY <1>3, <1>4, <1>6, <1>7 DEF Decision!Report, Published, PublishedOf

(* What the Team does moves the register by one of its actions or closes   *)
(* commands.                                                               *)
LEMMA TeamMaps ==
  ASSUME IInv, VersionInv, EndInv, [Next]_vars, UNCHANGED <<exec, run>>
  PROVE  Decision!Next
  <1>1. TeamTypeOK
    BY DEF IInv, TypeOK
  <1>2. CASE OnlySweeps
    BY <1>2, SweepCloses, CloseMaps DEF OnlySweeps, Decision!Next
  <1>3. ASSUME NEW c \in Command, OperatesOn(c)
        PROVE  Decision!Next
    <2>1. CASE Creates(c)
      <3>1. PICK v \in 1..run.version : v = projection.version
        BY DEF VersionInv
      <3>2. Decision!Issue(c, v)
        BY <1>3, <2>1, <3>1, IssueMaps
      <3> QED
        BY <3>2 DEF Decision!Next
    <2>2. CASE Refuses(c)
      <3>1. /\ cmd'[c].expected = cmd[c].expected
            /\ cmd'[c].outcome = cmd[c].outcome
            /\ cmd[c].status = "none" /\ cmd'[c].status = "refused"
            /\ teamAck'[c] = teamAck[c]
        BY <1>1, <2>2 DEF Refuses, TeamTypeOK, Commands
      <3>2. Closing(c)
        BY <3>1 DEF Closing, PublishedOf
      <3>3. \A d \in Command : Closing(d) /\ cmd'[d].expected = cmd[d].expected
        BY <2>2, <3>1, <3>2, SweepCloses DEF Refuses
      <3> QED
        BY <3>3, CloseMaps DEF Decision!Next
    <2>3. CASE LeaseReceipt(c)
      <3>1. UNCHANGED teamAck
        BY <2>3 DEF LeaseReceipt
      <3>2. /\ cmd'[c].expected = cmd[c].expected
            /\ cmd'[c].outcome = cmd[c].outcome
            /\ cmd[c].status # "expired" /\ cmd'[c].status # "expired"
        BY <1>1, <2>3, LeaseFields DEF Active
      <3>3. Closing(c)
        BY <3>1, <3>2 DEF Closing, PublishedOf
      <3>4. \A d \in Command : Closing(d) /\ cmd'[d].expected = cmd[d].expected
        BY <1>1, <2>3, <3>1, <3>2, <3>3, LeaseFields, SweepCloses
      <3> QED
        BY <3>4, CloseMaps DEF Decision!Next
    <2>4. CASE exec[c] # None /\ AcceptAck(c, exec[c])
      BY <2>4, ReportMaps DEF Decision!Next
    <2> QED
      BY <1>3, <2>1, <2>2, <2>3, <2>4 DEF OperatesOn
  <1> QED
    BY <1>2, <1>3, StepOnTeam

(* What the desktop decides, the register applies or declines.             *)
LEMMA CommitMaps ==
  ASSUME IInv, Evaluated, LeaseInv, VersionInv, JobInv, [Next]_vars,
         CommitDecision, UNCHANGED teamVars,
         NEW c \in Command, c = job.command, NEW why, why = Resolve(job)
  PROVE  Decision!Next
  <1>1. /\ pc = "decided" /\ exec[c] = None
        /\ exec' = [exec EXCEPT ![c] = Execution(job)]
        /\ Execution(job) # None /\ Execution(job).outcome = why
        /\ exec \in [Command -> Decisions \union {None}]
    BY Deciding
    DEF CommitDecision, Execution, IInv, TypeOK, DesktopTypeOK
  <1>2. /\ cmd[c].expected \in 1..run.version /\ run.version \in Nat
        /\ UNCHANGED <<cmd, teamAck>>
    <2>1. cmd[c].status \notin {"none", "refused"}
      BY <1>1, InHand, BoundsStay
    <2> QED
      BY <1>1, <2>1, InHand DEF VersionInv, VersionsOf, teamVars
  <1>3. Verdicts' = [Verdicts EXCEPT ![c] = why] /\ Verdicts[c] = "undecided"
    BY <1>1 DEF Verdicts
  <1>4. Published' = Published
    BY <1>2 DEF Published, PublishedOf
  <1>5. CASE why = "applied"
    <2>1. cmd[c].expected = run.version /\ job.outcome = "applied"
      BY <1>5 DEF Resolve
    <2>2. job.base = run.version
      BY <1>1, <2>1 DEF Evaluated
    <2>3. run'.version = run.version + 1
      BY <1>5, <2>2 DEF CommitDecision, WriteRun
    <2>4. Decision!Apply(c)
      BY <1>1, <1>2, <1>3, <1>4, <1>5, <2>1, <2>3
      DEF Decision!Apply, Verdicts, Published, PublishedOf
    <2> QED
      BY <1>1, <2>4 DEF Decision!Next
  <1>6. CASE why # "applied"
    <2>1. job.outcome \in Outcome
      BY <1>1 DEF IInv, LoopLinks
    <2>2. /\ why \in {"human_rejected", "evidence_blocked", "stale_run",
                      "expired"}
      BY <1>6, <2>1 DEF Resolve, Outcome
    <2>3. /\ why = "stale_run" => run.version # cmd[c].expected
          /\ why \in {"human_rejected", "evidence_blocked"} =>
               run.version = cmd[c].expected
      <3>1. job.outcome = "stale_run" => cmd[c].expected < run.version
        BY <1>1 DEF JobInv
      <3> QED
        BY <1>2, <2>2, <3>1 DEF Resolve
    <2>4. run' = run
      BY <1>6 DEF CommitDecision
    <2>5. Decision!Decline(c, why)
      BY <1>1, <1>2, <1>3, <1>4, <2>2, <2>3, <2>4
      DEF Decision!Decline, Verdicts, Published, PublishedOf
    <2> QED
      BY <1>1, <2>2, <2>5 DEF Decision!Next
  <1> QED
    BY <1>5, <1>6

LEMMA RegisterStep ==
  ASSUME IInv, Evaluated, LeaseInv, VersionInv, EndInv, DecisionInv,
         [Next]_vars
  PROVE  [Decision!Next]_(Decision!dvars)
  <1>1. CASE UNCHANGED <<exec, run>>
    BY <1>1, TeamMaps
  <1>2. CASE exec' # exec
    <2>1. CommitDecision /\ UNCHANGED teamVars
      BY <1>2, OnlyCommitDecides DEF LoopStep
    <2>2. PICK c \in Command, why \in Outcome \union {None} :
            c = job.command /\ why = Resolve(job)
      BY <2>1, Deciding
      DEF Resolve, Outcome, IInv, TypeOK, DesktopTypeOK, Jobs
    <2> QED
      BY <2>1, <2>2, CommitMaps DEF DecisionInv
  <1>3. CASE exec' = exec /\ run' # run
    <2>1. UNCHANGED teamVars
      BY <1>3
      DEF Next, vars, WebStep, SyncStep, TimeStep, LocalStep, PollStep,
          LoopStep, PollInbox, ReadInbox, RequestReceipt, SendAck, FaultStep,
          DenyAck, GiveUp, Crash, CrashDesktop, HandleLate, desktopVars,
          storeVars
    <2>2. run'.version = run.version + 1
      BY <1>3, RunGrows
    <2>3. Decision!OtherWork
      BY <1>3, <2>1, <2>2 DEF Decision!OtherWork, teamVars
    <2> QED
      BY <2>3 DEF Decision!Next
  <1> QED
    BY <1>1, <1>2, <1>3

(* The protocol, with its leases, requests, crashes and repetitions,       *)
(* implements a register that decides every command at most once and       *)
(* publishes that decision or that there was none in time.                 *)
THEOREM ImplementsRegister == Spec => ImplementsDecision
  <1>1. Init => Decision!Init
    BY NoneAssumption
    DEF Init, TeamInit, DesktopInit, NoCommand, Decision!Init
  <1>2. /\ IInv /\ Evaluated /\ LeaseInv /\ VersionInv /\ EndInv
        /\ DecisionInv /\ [Next]_vars
        => [Decision!Next]_(Decision!dvars)
    BY RegisterStep
  <1> QED
    BY <1>1, <1>2, InductiveInvariant, EvaluatedHolds, LeaseInvHolds,
       VersionInvHolds, EndInvHolds, DecisionInvHolds, PTL
    DEF Spec, ImplementsDecision, Decision!Spec
=============================================================================
