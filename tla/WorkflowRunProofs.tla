------------------------- MODULE WorkflowRunProofs -------------------------
(***************************************************************************)
(* Proofs about a workflow run, for any handlers, coding engines and       *)
(* bounds.                                                                 *)
(***************************************************************************)
EXTENDS WorkflowRun, SequenceTheorems, FiniteSetTheorems, TLAPS

-----------------------------------------------------------------------------
(* What a sound run looks like, without the store's normalization.         *)

Flat(r) ==
  LET c == r.current
  IN IF r.status = "completed"
     THEN c = Accept /\ \A n \in Node : r.at[n] = "success"
     ELSE /\ r.status = IF r.at[c] = "failed" THEN "failed" ELSE RunStatusAt(c)
          /\ \A n \in Node : n # c => r.at[n] # "running"
          /\ \A n \in Node : n < c => r.at[n] = "success"
          /\ \A n \in Node : n > c + 1 => r.at[n] = "pending"
          /\ r.at[c] = "running" => \A n \in Node : n > c => r.at[n] = "pending"

LEMMA Nodes ==
  /\ Node = 1..8
  /\ {Clarify, ClarifyGate, Design, DesignGate, Build, Test, Pr, Accept} = Node
  /\ \A n \in Node : RunStatusAt(n) \in RunStatus \ {"failed", "completed"}
  /\ {"failed", "completed"} \subseteq RunStatus
PROOF
  BY DEF Node, Clarify, ClarifyGate, Design, DesignGate, Build, Test, Pr,
         Accept, RunStatus, RunStatusAt

LEMMA LeastNode ==
  ASSUME NEW S \in SUBSET Node, S # {}
  PROVE  \E n \in S : \A m \in S : n <= m
PROOF
<1>0. S # {}
  OBVIOUS
<1>1. S \subseteq 1..8
  BY Nodes
<1>2. SUFFICES ASSUME \A n \in S : ~(S \subseteq n..8) PROVE FALSE
  BY <1>1
<1>3. S \subseteq 2..8
  BY <1>2, <1>1
<1>4. S \subseteq 3..8
  BY <1>2, <1>3
<1>5. S \subseteq 4..8
  BY <1>2, <1>4
<1>6. S \subseteq 5..8
  BY <1>2, <1>5
<1>7. S \subseteq 6..8
  BY <1>2, <1>6
<1>8. S \subseteq 7..8
  BY <1>2, <1>7
<1>9. S \subseteq 8..8
  BY <1>2, <1>8
<1>10. S \subseteq 9..8
  BY <1>2, <1>9
<1>11. 9..8 = {}
  OBVIOUS
<1> QED
  BY <1>0, <1>10, <1>11

LEMMA NormalizedTyped ==
  ASSUME NEW r \in RunType
  PROVE  Normalized(r) \in RunType
PROOF
<1>1. CASE Running(r) = {}
  BY <1>1 DEF Normalized
<1>2. CASE Running(r) # {}
  <2>1. ActiveNode(r) \in Node
    <3>1. Running(r) \in SUBSET Node
      BY DEF Running
    <3>2. \E n \in Running(r) : \A m \in Running(r) : n <= m
      BY <1>2, <3>1, LeastNode
    <3> QED
      BY <3>1, <3>2 DEF ActiveNode, RunType
  <2>2. RunStatusAt(ActiveNode(r)) \in RunStatus
    BY <2>1, Nodes
  <2> DEFINE at == [n \in Node |-> IF n > ActiveNode(r) THEN "pending" ELSE r.at[n]]
  <2>3. at \in [Node -> NodeStatus]
    BY DEF RunType, NodeStatus
  <2>4. Normalized(r) = [r EXCEPT !.current = ActiveNode(r),
                                  !.status = RunStatusAt(ActiveNode(r)),
                                  !.at = at]
    BY <1>2 DEF Normalized
  <2> QED
    BY <2>1, <2>2, <2>3, <2>4 DEF RunType
<1> QED
  BY <1>1, <1>2

LEMMA FlatIsNormal ==
  ASSUME NEW r \in RunType, Flat(r)
  PROVE  Normalized(r) = r
PROOF
<1>1. CASE Running(r) = {}
  BY <1>1 DEF Normalized
<1>2. CASE Running(r) # {}
  <2>1. r.status # "completed"
    BY <1>2 DEF Flat, Running
  <2>2. Running(r) = {r.current}
    BY <1>2, <2>1 DEF Flat, Running
  <2>3. r.at[r.current] = "running" /\ r.current \in Node
    BY <2>2 DEF RunType, Running
  <2>4. r.status = RunStatusAt(r.current) /\ ActiveNode(r) = r.current
    BY <2>1, <2>2, <2>3 DEF Flat, ActiveNode
  <2> DEFINE at == [n \in Node |-> IF n > ActiveNode(r) THEN "pending" ELSE r.at[n]]
  <2>5. at = r.at
    BY <2>1, <2>3, <2>4 DEF Flat, RunType
  <2>6. Normalized(r) = [r EXCEPT !.current = ActiveNode(r),
                                  !.status = RunStatusAt(ActiveNode(r)),
                                  !.at = at]
    BY <1>2 DEF Normalized
  <2> HIDE DEF at
  <2> QED
    BY <2>4, <2>5, <2>6 DEF RunType
<1> QED
  BY <1>1, <1>2

LEMMA FlatIsSound ==
  ASSUME NEW r \in RunType, Flat(r)
  PROVE  Sound(r)
PROOF
  BY FlatIsNormal DEF Flat, Sound, Structured, RunType

-----------------------------------------------------------------------------
(* What each change makes of a sound run.                                  *)

Later(r, s) == s \in RunType /\ Flat(s) /\ s.version = r.version + 1

LEMMA SentBackLater ==
  ASSUME NEW r \in RunType
  PROVE  Later(r, SentBack(r))
PROOF
<1> DEFINE at == [n \in Node |-> IF n = Clarify THEN "running" ELSE "pending"]
           linked == [r.linked EXCEPT ![ClarifyGate] = {}]
           v == r.version + 1
           s == [r EXCEPT !.version = v, !.current = Clarify,
                          !.status = "clarifying", !.at = at, !.linked = linked]
<1>1. SentBack(r) = s
  BY DEF SentBack, RunType
<1>2. v \in Nat
  BY DEF RunType
<1>3. at \in [Node -> NodeStatus]
  BY DEF NodeStatus
<1>4. linked \in [Node -> SUBSET Nat]
  BY DEF RunType
<1>5. Clarify \in Node /\ RunStatusAt(Clarify) = "clarifying"
  BY Nodes DEF RunStatusAt
<1>6. "clarifying" \in RunStatus
  BY <1>5, Nodes
<1>7. /\ at[Clarify] = "running"
      /\ \A n \in Node : n # Clarify => at[n] = "pending"
  BY <1>5
<1> HIDE DEF v, at, linked
<1>8. s \in RunType
  BY <1>2, <1>3, <1>4, <1>5, <1>6 DEF RunType
<1>9. /\ s.version = v /\ s.current = Clarify
      /\ s.status = "clarifying" /\ s.at = at
  BY DEF RunType
<1> HIDE DEF s
<1>10. Flat(s)
  BY <1>5, <1>7, <1>9, Nodes DEF Flat, Clarify
<1> QED
  BY <1>1, <1>8, <1>9, <1>10 DEF Later, v

LEMMA LinksLater ==
  ASSUME NEW r \in RunType, Flat(r), NEW linked \in [Node -> SUBSET Nat]
  PROVE  Later(r, [r EXCEPT !.version = @ + 1, !.linked = linked])
PROOF
<1> DEFINE v == r.version + 1
           s == [r EXCEPT !.version = v, !.linked = linked]
<1>1. v \in Nat
  BY DEF RunType
<1> HIDE DEF v
<1>2. s \in RunType /\ s.version = v
  BY <1>1 DEF RunType
<1>3. s.current = r.current /\ s.status = r.status /\ s.at = r.at
  BY DEF RunType
<1> HIDE DEF s
<1>4. Flat(s)
  BY <1>3 DEF Flat
<1> QED
  BY <1>2, <1>4 DEF Later, s, v

LEMMA RedesignedLater ==
  ASSUME NEW r \in RunType, Flat(r), NEW name \in Nat
  PROVE  Later(r, Redesigned(r, name))
PROOF
<1> DEFINE linked == [r.linked EXCEPT ![Design] = @ \union {name}, ![DesignGate] = {name}]
<1>1. Redesigned(r, name) = [r EXCEPT !.version = @ + 1, !.linked = linked]
  BY DEF Redesigned, RunType
<1>2. linked \in [Node -> SUBSET Nat]
  BY Nodes DEF RunType
<1> QED
  BY <1>1, <1>2, LinksLater

LEMMA WithArtifactLater ==
  ASSUME NEW r \in RunType, Flat(r), NEW cmd \in CommandType
  PROVE  Later(r, WithArtifact(r, cmd))
PROOF
<1> DEFINE linked == [r.linked EXCEPT ![cmd.node] = @ \union {cmd.name}]
<1>1. WithArtifact(r, cmd) = [r EXCEPT !.version = @ + 1, !.linked = linked]
  BY DEF WithArtifact, RunType
<1>2. linked \in [Node -> SUBSET Nat]
  BY DEF RunType, CommandType
<1> QED
  BY <1>1, <1>2, LinksLater

LEMMA FailedLater ==
  ASSUME NEW r \in RunType, Flat(r), NEW cmd \in CommandType,
         r.current = cmd.node, r.status # "completed"
  PROVE  Later(r, Failed(r, cmd))
PROOF
<1> DEFINE w == WithArtifact(r, cmd)
           at == [w.at EXCEPT ![cmd.node] = "failed"]
           s == [w EXCEPT !.status = "failed", !.at = at]
<1>1. w \in RunType /\ w.version = r.version + 1
  BY WithArtifactLater DEF Later
<1>2. w.at = r.at /\ w.current = r.current
  BY DEF WithArtifact, RunType
<1>3. Failed(r, cmd) = s
  BY <1>1 DEF Failed, RunType
<1>4. at \in [Node -> NodeStatus]
  BY <1>1 DEF RunType, NodeStatus
<1>5. /\ at[r.current] = "failed"
      /\ \A n \in Node : n # r.current => at[n] = r.at[n]
  BY <1>1, <1>2 DEF RunType
<1> HIDE DEF w, at
<1>6. s \in RunType
  BY <1>1, <1>4, Nodes DEF RunType
<1>7. /\ s.version = r.version + 1 /\ s.current = r.current
      /\ s.status = "failed" /\ s.at = at
  BY <1>1, <1>2 DEF RunType
<1> HIDE DEF s
<1>8. Flat(s)
  <2>1. /\ \A n \in Node : n # r.current => r.at[n] # "running"
        /\ \A n \in Node : n < r.current => r.at[n] = "success"
        /\ \A n \in Node : n > r.current + 1 => r.at[n] = "pending"
    BY DEF Flat
  <2>2. r.current \in Nat /\ Node \subseteq Nat
    BY Nodes DEF RunType
  <2> QED
    BY <1>5, <1>7, <2>1, <2>2 DEF Flat
<1> QED
  BY <1>3, <1>6, <1>7, <1>8 DEF Later

LEMMA AcceptedLater ==
  ASSUME NEW r \in RunType, Flat(r), r.current = Accept, r.status # "completed"
  PROVE  Later(r, Accepted(r))
PROOF
<1> DEFINE at == [r.at EXCEPT ![Accept] = "success"]
           v == r.version + 1
           s == [r EXCEPT !.version = v, !.status = "completed", !.at = at]
<1>1. Accepted(r) = s
  BY DEF Accepted, RunType
<1>2. v \in Nat /\ at \in [Node -> NodeStatus]
  BY DEF RunType, NodeStatus
<1>3. \A n \in Node : at[n] = "success"
  BY Nodes DEF RunType, Flat, Accept
<1> HIDE DEF v, at
<1>4. s \in RunType
  BY <1>2, Nodes DEF RunType
<1>5. /\ s.version = v /\ s.current = Accept
      /\ s.status = "completed" /\ s.at = at
  BY DEF RunType
<1> HIDE DEF s
<1>6. Flat(s)
  BY <1>3, <1>5 DEF Flat
<1> QED
  BY <1>1, <1>4, <1>5, <1>6 DEF Later, v

LEMMA AdvancedLater ==
  ASSUME NEW r \in RunType, Flat(r), NEW cmd \in CommandType, NEW ev,
         DOMAIN ev.intents \subseteq Nat, r.status # "completed",
         r.current = cmd.node, cmd.node # Accept,
         cmd.do = "complete_pr" => Deliveries(r, ev, cmd) # {}
  PROVE  Later(r, Advanced(r, cmd, ev))
PROOF
<1> DEFINE n == cmd.node
           at == [r.at EXCEPT ![n] = "success", ![n + 1] = "running"]
           keeps == cmd.do \in {"complete_agent", "record_test_result", "complete_pr"}
           hands == cmd.do = "complete_agent"
           more(m) == IF (m = n /\ keeps) \/ (m = n + 1 /\ hands)
                      THEN {cmd.name} ELSE {}
           linked == [m \in Node |-> r.linked[m] \union more(m)]
           pr == IF cmd.do = "complete_pr"
                 THEN CHOOSE i \in Deliveries(r, ev, cmd) : TRUE ELSE r.pullRequest
           v == r.version + 1
           s == [r EXCEPT !.version = v, !.current = n + 1,
                          !.status = RunStatusAt(n + 1), !.at = at,
                          !.linked = linked, !.pullRequest = pr]
<1>1. n \in Node /\ n + 1 \in Node
  BY Nodes DEF CommandType, Accept
<1>2. Advanced(r, cmd, ev) = s
  BY DEF Advanced, RunType, StatusWhenLeft
<1>3. v \in Nat /\ at \in [Node -> NodeStatus]
  BY <1>1 DEF RunType, NodeStatus
<1>4. linked \in [Node -> SUBSET Nat]
  BY DEF RunType, CommandType
<1>5. pr \in Nat
  BY DEF RunType, Deliveries
<1>6. RunStatusAt(n + 1) \in RunStatus \ {"failed", "completed"}
  BY <1>1, Nodes
<1>7. at[n + 1] = "running" /\ at[n] = "success"
  BY <1>1, Nodes DEF RunType
<1>8. \A m \in Node : m # n /\ m # n + 1 => at[m] = r.at[m]
  BY <1>1 DEF RunType
<1> HIDE DEF v, at, linked, pr
<1>9. s \in RunType
  BY <1>1, <1>3, <1>4, <1>5, <1>6 DEF RunType
<1>10. /\ s.version = v /\ s.current = n + 1
       /\ s.status = RunStatusAt(n + 1) /\ s.at = at
  BY DEF RunType
<1> HIDE DEF s
<1>11. /\ \A m \in Node : m < n => r.at[m] = "success"
       /\ \A m \in Node : m > n + 1 => r.at[m] = "pending"
  BY DEF Flat
<1>12. /\ \A m \in Node : m < n + 1 => at[m] = "success"
       /\ \A m \in Node : m > n + 1 => at[m] = "pending"
  BY <1>1, <1>7, <1>8, <1>11, Nodes
<1>13. Flat(s)
  BY <1>1, <1>6, <1>7, <1>10, <1>12, Nodes DEF Flat
<1> QED
  BY <1>2, <1>9, <1>10, <1>13 DEF Later, v

-----------------------------------------------------------------------------
(* A permitted command leaves a sound run, one version on; only attaching  *)
(* what is attached already leaves the run as it is.                       *)

MovesOn(r, cmd, s) == Later(r, s) \/ (cmd.do \in Attaching /\ s = r)

LEMMA AppliedMovesOn ==
  ASSUME NEW r \in RunType, Flat(r), NEW cmd \in CommandType, NEW ev,
         DOMAIN ev.intents \subseteq Nat, Allowed(r, cmd, ev)
  PROVE  MovesOn(r, cmd, Applied(r, cmd, ev))
PROOF
<1>1. r.status # "completed" /\ r.current = cmd.node /\ Supported(r, cmd, ev)
  BY DEF Allowed
<1>2. CASE cmd.do \in Attaching
  <2>1. Applied(r, cmd, ev) = r \/ Applied(r, cmd, ev) = WithArtifact(r, cmd)
    BY <1>2 DEF Applied, Attaching
  <2> QED
    BY <1>2, <2>1, WithArtifactLater DEF MovesOn
<1>3. CASE cmd.do = "approve_acceptance"
  <2>1. cmd.node = Accept
    BY <1>1, <1>3 DEF Supported
  <2>2. Applied(r, cmd, ev) = Accepted(r)
    BY <1>3 DEF Applied, Attaching
  <2> QED
    BY <1>1, <2>1, <2>2, AcceptedLater DEF MovesOn
<1>4. CASE cmd.do = "record_test_result" /\ cmd.result = "failed"
  <2>1. Applied(r, cmd, ev) = Failed(r, cmd)
    BY <1>4 DEF Applied, Attaching
  <2> QED
    BY <1>1, <2>1, FailedLater DEF MovesOn
<1>5. CASE /\ cmd.do \notin Attaching
           /\ cmd.do # "approve_acceptance"
           /\ ~(cmd.do = "record_test_result" /\ cmd.result = "failed")
  <2>1. Applied(r, cmd, ev) = Advanced(r, cmd, ev)
    BY <1>5 DEF Applied
  <2>2. cmd.node # Accept
    BY <1>1, <1>5 DEF Supported, Attaching, Agents, Gates, Clarify, ClarifyGate,
                      Design, DesignGate, Build, Test, Pr, Accept
  <2>3. ASSUME cmd.do = "complete_pr"
        PROVE  Deliveries(r, ev, cmd) # {}
    <3>1. DeliveryEvidence(r, ev, cmd)
      BY <1>1, <2>3 DEF Supported
    <3>2. Cardinality(Deliveries(r, ev, cmd)) = 1
      BY <2>3, <3>1 DEF DeliveryEvidence
    <3> QED
      BY <3>2, FS_EmptySet
  <2> QED
    BY <1>1, <2>1, <2>2, <2>3, AdvancedLater DEF MovesOn
<1> QED
  BY <1>2, <1>3, <1>4, <1>5

LEMMA ResultMovesOn ==
  ASSUME NEW r \in RunType, Flat(r), NEW cmd \in CommandType, NEW ev,
         DOMAIN ev.intents \subseteq Nat, Permitted(r, cmd, ev)
  PROVE  MovesOn(r, cmd, Result(r, cmd, ev))
PROOF
<1>1. CASE cmd.do = "request_changes"
  BY <1>1, SentBackLater DEF Result, MovesOn
<1>2. CASE cmd.do = "revise_design"
  <2>1. Result(r, cmd, ev) = Redesigned(r, cmd.name) /\ cmd.name \in Nat
    BY <1>2 DEF Result, CommandType
  <2> QED
    BY <2>1, RedesignedLater DEF MovesOn
<1>3. CASE cmd.do \notin {"request_changes", "revise_design"}
  <2>1. Allowed(r, cmd, ev) /\ Result(r, cmd, ev) = Applied(r, cmd, ev)
    BY <1>3 DEF Permitted, Result
  <2> QED
    BY <2>1, AppliedMovesOn
<1> QED
  BY <1>1, <1>2, <1>3

-----------------------------------------------------------------------------
(* The inductive invariant.  A decision, for as long as the stored run is  *)
(* the one it was taken on, moves that run on.                             *)

OpType == [phase : {"idle", "begun", "decided", "settling"},
           cmd : CommandType, read : Nat, next : RunType]

WellDecided(o) ==
  o.phase = "decided" =>
    /\ Flat(o.next)
    /\ o.read <= run.version
    /\ o.read = run.version => MovesOn(run, o.cmd, o.next)

RunInv == run \in RunType /\ Flat(run)
OpInv == op \in [Handlers -> OpType] /\ \A h \in Handlers : WellDecided(op[h])
EvidenceInv ==
  /\ revision \in Seq(RevisionStatus)
  /\ coding \in Seq(CodingType)
  /\ tests \in Seq({"passed", "failed"})
  /\ intents \in Seq(IntentType)
  /\ crashes \in Nat

IInv == RunInv /\ OpInv /\ EvidenceInv

LEMMA InvTyped ==
  ASSUME IInv
  PROVE  TypeOK
PROOF
  BY DEF IInv, RunInv, OpInv, EvidenceInv, TypeOK, OpType

LEMMA IdleTyped ==
  /\ NewRun \in RunType /\ Flat(NewRun)
  /\ Idle \in OpType /\ Idle.phase = "idle"
  /\ Idle.cmd \in CommandType
PROOF
<1> DEFINE at == [n \in Node |-> IF n = Clarify THEN "running" ELSE "pending"]
           linked == [n \in Node |-> {}]
<1>1. at \in [Node -> NodeStatus] /\ linked \in [Node -> SUBSET Nat]
  BY DEF NodeStatus
<1>2. Clarify \in Node /\ RunStatusAt(Clarify) = "clarifying"
  BY Nodes DEF RunStatusAt
<1>3. at[Clarify] = "running" /\ \A n \in Node : n # Clarify => at[n] = "pending"
  BY <1>2
<1>4. NewRun = [version |-> 1, current |-> Clarify, status |-> "clarifying",
                at |-> at, linked |-> linked, pullRequest |-> 0]
  BY DEF NewRun
<1> HIDE DEF at, linked
<1>5. "clarifying" \in RunStatus
  BY <1>2, Nodes
<1>6. NewRun \in RunType
  BY <1>1, <1>2, <1>4, <1>5 DEF RunType
<1>7. Flat(NewRun)
  BY <1>2, <1>3, <1>4, Nodes DEF Flat, Clarify
<1>8. Command("none", Clarify, 0, "none") \in CommandType
  BY <1>2 DEF Command, CommandType, Commands
<1> QED
  BY <1>6, <1>7, <1>8 DEF Idle, OpType

LEMMA InitInv ==
  ASSUME Init
  PROVE  IInv
PROOF
<1>1. RunInv
  BY IdleTyped DEF Init, RunInv
<1>2. OpInv
  BY IdleTyped DEF Init, OpInv, WellDecided
<1>3. EvidenceInv
  BY DEF Init, EvidenceInv
<1> QED
  BY <1>1, <1>2, <1>3 DEF IInv

(* A handler's step that leaves the run alone.                             *)
LEMMA OpSet ==
  ASSUME IInv, NEW h \in Handlers, NEW o \in OpType, WellDecided(o),
         op' = [op EXCEPT ![h] = o], run' = run
  PROVE  RunInv' /\ OpInv'
PROOF
<1>1. RunInv'
  BY DEF IInv, RunInv
<1>2. op' \in [Handlers -> OpType]
  BY DEF IInv, OpInv
<1>3. ASSUME NEW k \in Handlers
      PROVE  WellDecided(op[k])'
  <2>1. op'[k] = o \/ op'[k] = op[k]
    BY DEF IInv, OpInv
  <2>2. WellDecided(op[k])
    BY DEF IInv, OpInv
  <2> QED
    BY <2>1, <2>2 DEF WellDecided
<1> QED
  BY <1>1, <1>2, <1>3 DEF OpInv

(* Only the handlers' attention moves.                                     *)
LEMMA IdleSet ==
  ASSUME IInv, NEW h \in Handlers, NEW o \in OpType, o.phase # "decided",
         op' = [op EXCEPT ![h] = o], run' = run
  PROVE  RunInv' /\ OpInv'
PROOF
  BY OpSet DEF WellDecided

LEMMA RunStays ==
  ASSUME IInv, UNCHANGED <<run, op>>
  PROVE  RunInv' /\ OpInv'
PROOF
  BY DEF IInv, RunInv, OpInv, WellDecided

(* The run moves on, and whoever decided on it before is too late.         *)
LEMMA RunMoves ==
  ASSUME IInv, NEW s, run' = s, Later(run, s) \/ s = run,
         \/ op' = op
         \/ \E h \in Handlers, o \in OpType :
              o.phase # "decided" /\ op' = [op EXCEPT ![h] = o]
  PROVE  RunInv' /\ OpInv'
PROOF
<1>1. CASE s = run
  BY <1>1, RunStays, IdleSet
<1>2. CASE Later(run, s)
  <2>1. RunInv'
    BY <1>2 DEF RunInv, Later
  <2>2. op' \in [Handlers -> OpType]
    BY DEF IInv, OpInv
  <2>3. ASSUME NEW k \in Handlers
        PROVE  WellDecided(op[k])'
    <3>1. op'[k] = op[k] \/ op'[k].phase # "decided"
      BY DEF IInv, OpInv
    <3>2. WellDecided(op[k]) /\ op[k].read \in Nat /\ run.version \in Nat
      BY DEF IInv, OpInv, OpType, RunInv, RunType
    <3> QED
      BY <1>2, <3>1, <3>2 DEF WellDecided, Later
  <2> QED
    BY <2>1, <2>2, <2>3 DEF OpInv
<1> QED
  BY <1>1, <1>2

-----------------------------------------------------------------------------
(* One lemma for each kind of step.                                        *)

LEMMA BeginInv ==
  ASSUME IInv, NEW h \in Handlers, NEW cmd \in CommandType,
         op' = [op EXCEPT ![h] = Begun(cmd, run.version)],
         run' = run, EvidenceInv'
  PROVE  IInv'
PROOF
<1>1. run.version \in Nat
  BY DEF IInv, RunInv, RunType
<1>2. Begun(cmd, run.version) \in OpType /\ Begun(cmd, run.version).phase # "decided"
  BY <1>1, IdleTyped DEF Begun, OpType
<1> QED
  BY <1>2, IdleSet DEF IInv

LEMMA CommandTyped ==
  ASSUME NEW do \in Commands, NEW n \in Node, NEW name \in Nat,
         NEW result \in {"none", "passed", "failed", "saved"}
  PROVE  Command(do, n, name, result) \in CommandType
PROOF
  BY DEF Command, CommandType

LEMMA EvidenceStays ==
  ASSUME IInv, UNCHANGED <<evidence, crashes>>
  PROVE  EvidenceInv'
PROOF
  BY DEF IInv, EvidenceInv, evidence

(* The handlers that set out.                                              *)
LEMMA SettingOut ==
  ASSUME IInv, NEW h \in Handlers,
         \/ GenerateStage(h) \/ ReviseDesign(h) \/ ReviewGate(h)
         \/ RunTests(h) \/ CreatePackage(h) \/ AdvanceDelivered(h)
         \/ CreateBundle(h) \/ ApproveAcceptance(h) \/ PrepareCoding(h)
  PROVE  IInv'
PROOF
<1>1. SUFFICES ASSUME NEW cmd \in CommandType, Begin(h, cmd)
               PROVE  IInv'
  <2>1. Len(revision) \in Nat /\ Len(tests) \in Nat /\ run.version \in Nat
    BY LenProperties DEF IInv, EvidenceInv, RunInv, RunType
  <2>2. Agents \subseteq Node /\ Gates \subseteq Node
    BY Nodes DEF Agents, Gates
  <2>3. CASE GenerateStage(h)
    BY <2>1, <2>2, <2>3, <1>1, CommandTyped DEF GenerateStage, Commands
  <2>4. CASE ReviseDesign(h)
    BY <2>1, <2>4, <1>1, Nodes, CommandTyped DEF ReviseDesign, Commands
  <2>5. CASE ReviewGate(h)
    <3>1. run.linked[run.current] \subseteq Nat
      BY DEF IInv, RunInv, RunType
    <3> QED
      BY <2>2, <2>5, <3>1, <1>1, CommandTyped DEF ReviewGate, Commands
  <2>6. CASE RunTests(h)
    <3>1. PICK result \in {"passed", "failed", "saved"} :
                 Begin(h, Command("record_test_result", Test, Len(tests) + 1, result))
      BY <2>6 DEF RunTests
    <3>2. Len(tests) + 1 \in Nat
      BY <2>1
    <3> QED
      BY <3>1, <3>2, <1>1, Nodes, CommandTyped DEF Commands
  <2>7. CASE CreatePackage(h)
    BY <2>1, <2>7, <1>1, Nodes, CommandTyped DEF CreatePackage, Commands
  <2>8. CASE AdvanceDelivered(h)
    <3>1. PICK i \in DOMAIN intents :
                 Begin(h, Command("complete_pr", Pr, intents[i].package, "none"))
      BY <2>8 DEF AdvanceDelivered
    <3>2. intents \in Seq(IntentType)
      BY DEF IInv, EvidenceInv
    <3>3. intents[i] \in IntentType
      BY <3>2, ElementOfSeq, LenProperties
    <3>4. intents[i].package \in Nat
      BY <3>3 DEF IntentType
    <3> QED
      BY <3>1, <3>4, <1>1, Nodes, CommandTyped DEF Commands
  <2>9. CASE CreateBundle(h)
    BY <2>9, <1>1, Nodes, CommandTyped DEF CreateBundle, Commands
  <2>10. CASE ApproveAcceptance(h)
    BY <2>10, <1>1, Nodes, CommandTyped DEF ApproveAcceptance, Commands
  <2>11. CASE PrepareCoding(h)
    BY <2>11, <1>1, Nodes, CommandTyped DEF PrepareCoding, Commands
  <2> QED
    BY <2>3, <2>4, <2>5, <2>6, <2>7, <2>8, <2>9, <2>10, <2>11
<1>2. EvidenceInv'
  BY <1>1, EvidenceStays DEF Begin
<1> QED
  BY <1>1, <1>2, BeginInv DEF Begin

LEMMA DecideInv ==
  ASSUME IInv, NEW h \in Handlers, Decide(h)
  PROVE  IInv'
PROOF
<1> DEFINE cmd == op[h].cmd
           s == Result(run, cmd, Ev)
           o == Decided(op[h])
<1>1. op[h] \in OpType /\ cmd \in CommandType
  BY DEF IInv, OpInv, OpType
<1>2. DOMAIN Ev.intents \subseteq Nat
  BY DEF IInv, EvidenceInv, Ev
<1>3. MovesOn(run, cmd, s)
  BY <1>1, <1>2, ResultMovesOn DEF Decide, IInv, RunInv
<1>4. run \in RunType /\ Flat(run) /\ run.version \in Nat
  BY DEF IInv, RunInv, RunType
<1>5. s \in RunType /\ Flat(s)
  BY <1>3, <1>4 DEF MovesOn, Later
<1> HIDE DEF s
<1>6. /\ o.phase = "decided" /\ o.read = run.version
      /\ o.next = s /\ o.cmd = cmd /\ o \in OpType
  BY <1>1, <1>4, <1>5 DEF Decided, OpType, s
<1> HIDE DEF o, cmd
<1>7. WellDecided(o)
  BY <1>3, <1>4, <1>5, <1>6 DEF WellDecided
<1>8. op' = [op EXCEPT ![h] = o] /\ run' = run
  BY DEF Decide, o
<1>9. EvidenceInv'
  BY EvidenceStays DEF Decide
<1> QED
  BY <1>6, <1>7, <1>8, <1>9, OpSet DEF IInv

LEMMA SetInSeq ==
  ASSUME NEW S, NEW seq \in Seq(S), NEW i, NEW e \in S
  PROVE  [seq EXCEPT ![i] = e] \in Seq(S)
PROOF
<1>1. DOMAIN seq = 1..Len(seq) /\ Len(seq) \in Nat
  BY LenProperties
<1>2. CASE i \in 1..Len(seq)
  BY <1>2, ExceptSeq
<1>3. CASE i \notin 1..Len(seq)
  <2>1. [seq EXCEPT ![i] = e] = [j \in 1..Len(seq) |-> seq[j]]
    BY <1>1, <1>3
  <2>2. \A j \in 1..Len(seq) : seq[j] \in S
    BY ElementOfSeq
  <2>3. [j \in 1..Len(seq) |-> seq[j]] \in Seq(S)
    BY <1>1, <2>2, IsASeq
  <2> QED
    BY <2>1, <2>3
<1> QED
  BY <1>2, <1>3

(* The commit, in the handler's transaction and in the remote command's.   *)
LEMMA RevisionTyped ==
  ASSUME IInv, NEW cmd \in CommandType
  PROVE  RevisionAfter(cmd) \in Seq(RevisionStatus)
PROOF
<1>1. revision \in Seq(RevisionStatus)
  BY DEF IInv, EvidenceInv
<1>2. CASE cmd.do = "complete_agent" /\ cmd.node = Clarify
  <2> DEFINE old == [i \in DOMAIN revision |-> Superseded(revision[i])]
  <2>1. DOMAIN revision = 1..Len(revision) /\ Len(revision) \in Nat
    BY <1>1, LenProperties
  <2>2. \A i \in 1..Len(revision) : Superseded(revision[i]) \in RevisionStatus
    BY <1>1, ElementOfSeq DEF Superseded, RevisionStatus
  <2>3. old \in Seq(RevisionStatus)
    BY <2>1, <2>2, IsASeq
  <2>4. RevisionAfter(cmd) = Append(old, "review_requested")
    BY <1>2 DEF RevisionAfter
  <2> HIDE DEF old
  <2>5. "review_requested" \in RevisionStatus
    BY DEF RevisionStatus
  <2> QED
    BY <2>3, <2>4, <2>5, AppendProperties
<1>3. CASE cmd.do = "request_changes"
  <2>1. RevisionAfter(cmd) = [revision EXCEPT ![cmd.name] = "revision_requested"]
    BY <1>3 DEF RevisionAfter
  <2>2. "revision_requested" \in RevisionStatus
    BY DEF RevisionStatus
  <2>3. [revision EXCEPT ![cmd.name] = "revision_requested"] \in Seq(RevisionStatus)
    BY <1>1, <2>2, SetInSeq
  <2> QED
    BY <2>1, <2>3
<1>4. CASE cmd.do = "approve_gate" /\ cmd.node = ClarifyGate
  <2>1. RevisionAfter(cmd) = [revision EXCEPT ![cmd.name] = "approved"]
    BY <1>4 DEF RevisionAfter
  <2>2. "approved" \in RevisionStatus
    BY DEF RevisionStatus
  <2>3. [revision EXCEPT ![cmd.name] = "approved"] \in Seq(RevisionStatus)
    BY <1>1, <2>2, SetInSeq
  <2> QED
    BY <2>1, <2>3
<1>5. CASE /\ ~(cmd.do = "complete_agent" /\ cmd.node = Clarify)
           /\ cmd.do # "request_changes"
           /\ ~(cmd.do = "approve_gate" /\ cmd.node = ClarifyGate)
  BY <1>1, <1>5 DEF RevisionAfter
<1> QED
  BY <1>2, <1>3, <1>4, <1>5

(* What the stored run becomes: the decision, which needs no normalizing.  *)
LEMMA CommitMovesOn ==
  ASSUME IInv, NEW h \in Handlers, Commit(h)
  PROVE  run' = op[h].next /\ MovesOn(run, op[h].cmd, op[h].next)
PROOF
<1>1. op[h].phase = "decided" /\ op[h].read = run.version /\ run' = Normalized(op[h].next)
  BY DEF Commit, Committed
<1>2. op[h].next \in RunType /\ WellDecided(op[h])
  BY DEF IInv, OpInv, OpType
<1>3. Flat(op[h].next) /\ MovesOn(run, op[h].cmd, op[h].next)
  BY <1>1, <1>2 DEF WellDecided
<1> QED
  BY <1>1, <1>2, <1>3, FlatIsNormal

LEMMA CommitInv ==
  ASSUME IInv, NEW h \in Handlers, Commit(h)
  PROVE  IInv'
PROOF
<1> DEFINE cmd == op[h].cmd
           s == op[h].next
           o == IF Applying(cmd)
                THEN [Idle EXCEPT !.phase = "settling", !.cmd = cmd] ELSE Idle
<1>1. run' = s /\ (Later(run, s) \/ s = run)
  BY CommitMovesOn DEF MovesOn
<1>2. cmd \in CommandType /\ op[h] \in OpType
  BY DEF IInv, OpInv, OpType
<1>3. o \in OpType /\ o.phase # "decided" /\ op' = [op EXCEPT ![h] = o]
  <2>1. Idle \in OpType /\ Idle.phase # "decided"
    BY IdleTyped
  <2>2. [Idle EXCEPT !.phase = "settling", !.cmd = cmd] \in OpType
    BY <1>2, <2>1 DEF OpType
  <2>3. [Idle EXCEPT !.phase = "settling", !.cmd = cmd].phase = "settling"
    BY <2>1 DEF OpType
  <2> QED
    BY <2>1, <2>2, <2>3 DEF Commit, Committed
<1>4. revision' \in Seq(RevisionStatus)
  BY <1>2, RevisionTyped DEF Commit, Committed
<1>5. tests' \in Seq({"passed", "failed"})
  <2>1. tests \in Seq({"passed", "failed"})
    BY DEF IInv, EvidenceInv
  <2> QED
    BY <2>1, AppendProperties DEF Commit, Committed
<1>6. EvidenceInv'
  BY <1>4, <1>5 DEF Commit, Committed, IInv, EvidenceInv
<1> HIDE DEF o, s
<1> QED
  BY <1>1, <1>3, <1>6, RunMoves DEF IInv

LEMMA CodingTyped ==
  ASSUME IInv, NEW c, NEW status \in Active \union {"completed", "ended"}
  PROVE  [coding EXCEPT ![c].status = status] \in Seq(CodingType)
PROOF
<1>1. coding \in Seq(CodingType)
  BY DEF IInv, EvidenceInv
<1>2. DOMAIN coding = 1..Len(coding) /\ Len(coding) \in Nat
  BY <1>1, LenProperties
<1>3. \A d \in 1..Len(coding) : coding[d] \in CodingType
  BY <1>1, ElementOfSeq
<1> DEFINE f == [d \in 1..Len(coding) |->
                   IF d = c THEN [coding[d] EXCEPT !.status = status] ELSE coding[d]]
<1>4. [coding EXCEPT ![c].status = status] = f
  BY <1>2
<1>5. \A d \in 1..Len(coding) : [coding[d] EXCEPT !.status = status] \in CodingType
  BY <1>3 DEF CodingType
<1>6. f \in Seq(CodingType)
  BY <1>2, <1>3, <1>5, IsASeq
<1> QED
  BY <1>4, <1>6

LEMMA IntentTyped ==
  ASSUME IInv, NEW i, NEW status \in {"pending", "completed", "ended"}
  PROVE  [intents EXCEPT ![i].status = status] \in Seq(IntentType)
PROOF
<1>1. intents \in Seq(IntentType)
  BY DEF IInv, EvidenceInv
<1>2. DOMAIN intents = 1..Len(intents) /\ Len(intents) \in Nat
  BY <1>1, LenProperties
<1>3. \A d \in 1..Len(intents) : intents[d] \in IntentType
  BY <1>1, ElementOfSeq
<1> DEFINE f == [d \in 1..Len(intents) |->
                   IF d = i THEN [intents[d] EXCEPT !.status = status] ELSE intents[d]]
<1>4. [intents EXCEPT ![i].status = status] = f
  BY <1>2
<1>5. \A d \in 1..Len(intents) : [intents[d] EXCEPT !.status = status] \in IntentType
  BY <1>3 DEF IntentType
<1>6. f \in Seq(IntentType)
  BY <1>2, <1>3, <1>5, IsASeq
<1> QED
  BY <1>4, <1>6

(* A command of the Team, applied in one transaction.                      *)
LEMMA ApproveRemotelyMovesOn ==
  ASSUME IInv, ApproveRemotely
  PROVE  Later(run, run') /\ UNCHANGED <<op, coding, tests, intents, crashes>>
         /\ revision' \in Seq(RevisionStatus)
PROOF
<1>0. PICK n \in Gates : \E name \in run.linked[n] :
        LET cmd == Command("approve_gate", n, name, "none")
        IN /\ Allowed(run, cmd, Ev)
           /\ run' = Normalized(Applied(run, cmd, Ev))
           /\ revision' = RevisionAfter(cmd)
  BY DEF ApproveRemotely
<1>1. PICK name \in run.linked[n] :
        LET cmd == Command("approve_gate", n, name, "none")
        IN /\ Allowed(run, cmd, Ev)
           /\ run' = Normalized(Applied(run, cmd, Ev))
           /\ revision' = RevisionAfter(cmd)
  BY <1>0
<1> DEFINE cmd == Command("approve_gate", n, name, "none")
<1>2. run \in RunType /\ Flat(run) /\ DOMAIN Ev.intents \subseteq Nat
  BY DEF IInv, RunInv, EvidenceInv, Ev
<1>3. n \in Node /\ name \in Nat
  BY <1>2, Nodes DEF Gates, RunType
<1>4. cmd \in CommandType /\ cmd.do = "approve_gate"
  BY <1>3, CommandTyped DEF Commands, Command
<1>5. /\ Allowed(run, cmd, Ev) /\ revision' = RevisionAfter(cmd)
      /\ run' = Normalized(Applied(run, cmd, Ev))
  BY <1>1
<1> HIDE DEF cmd
<1>6. Later(run, Applied(run, cmd, Ev))
  BY <1>2, <1>4, <1>5, AppliedMovesOn DEF MovesOn, Attaching
<1>7. run' = Applied(run, cmd, Ev)
  BY <1>5, <1>6, FlatIsNormal DEF Later
<1>8. revision' \in Seq(RevisionStatus)
  BY <1>4, <1>5, RevisionTyped
<1> QED
  BY <1>6, <1>7, <1>8 DEF ApproveRemotely

LEMMA ApproveRemotelyInv ==
  ASSUME IInv, ApproveRemotely
  PROVE  IInv'
PROOF
<1>1. EvidenceInv'
  BY ApproveRemotelyMovesOn DEF IInv, EvidenceInv
<1>2. op' = op /\ Later(run, run')
  BY ApproveRemotelyMovesOn
<1> QED
  BY <1>1, <1>2, RunMoves DEF IInv

(* The other steps of a handler leave the run alone and end in no decision.*)
LEMMA HandlerInv ==
  ASSUME IInv, NEW h \in Handlers,
         SaveTest(h) \/ GiveUp(h) \/ StartCoding(h) \/ SettleCoding(h)
  PROVE  IInv'
PROOF
<1>1. run' = run /\ op' = [op EXCEPT ![h] = Idle]
  BY DEF SaveTest, GiveUp, StartCoding, SettleCoding
<1>2. RunInv' /\ OpInv'
  BY <1>1, IdleTyped, IdleSet
<1>3. /\ revision' \in Seq(RevisionStatus) /\ intents' \in Seq(IntentType)
      /\ crashes' \in Nat
  BY DEF SaveTest, GiveUp, StartCoding, SettleCoding, IInv, EvidenceInv
<1>4. tests' \in Seq({"passed", "failed"})
  <2>1. tests \in Seq({"passed", "failed"})
    BY DEF IInv, EvidenceInv
  <2> QED
    BY <2>1, AppendProperties DEF SaveTest, GiveUp, StartCoding, SettleCoding
<1>5. coding' \in Seq(CodingType)
  <2>1. coding \in Seq(CodingType)
    BY DEF IInv, EvidenceInv
  <2>2. CASE StartCoding(h)
    <3>1. PICK e \in Engines :
            coding' = Append(coding,
                        [engine |-> e,
                         status |-> IF op[h].read = run.version THEN "active" ELSE "ended"])
      BY <2>2 DEF StartCoding
    <3>2. [engine |-> e, status |-> IF op[h].read = run.version THEN "active" ELSE "ended"]
            \in CodingType
      BY DEF CodingType, Active
    <3> QED
      BY <2>1, <3>1, <3>2, AppendProperties
  <2>3. CASE GiveUp(h)
    <3>1. [coding EXCEPT ![op[h].cmd.name].status = "ended"] \in Seq(CodingType)
      BY CodingTyped
    <3> QED
      BY <2>1, <2>3, <3>1 DEF GiveUp
  <2>4. CASE SettleCoding(h)
    <3>1. [coding EXCEPT ![op[h].cmd.name].status = "completed"] \in Seq(CodingType)
      BY CodingTyped
    <3> QED
      BY <2>1, <2>4, <3>1 DEF SettleCoding
  <2>5. CASE SaveTest(h)
    BY <2>1, <2>5 DEF SaveTest
  <2> QED
    BY <2>2, <2>3, <2>4, <2>5
<1> QED
  BY <1>2, <1>3, <1>4, <1>5 DEF IInv, EvidenceInv

LEMMA CompleteBuildInv ==
  ASSUME IInv, NEW h \in Handlers, NEW c \in DOMAIN coding,
         FinishNative(h, c) \/ AcceptChanges(h, c)
  PROVE  IInv'
PROOF
<1>1. c \in Nat
  BY LenProperties DEF IInv, EvidenceInv
<1>2. Command("complete_build", Build, c, "none") \in CommandType
  BY <1>1, Nodes, CommandTyped DEF Commands
<1>3. /\ op' = [op EXCEPT ![h] =
                  Begun(Command("complete_build", Build, c, "none"), run.version)]
      /\ run' = run /\ UNCHANGED <<revision, tests, intents, crashes>>
  BY DEF FinishNative, AcceptChanges, CompleteBuild
<1>4. coding' \in Seq(CodingType)
  <2>1. /\ [coding EXCEPT ![c].status = "completed"] \in Seq(CodingType)
        /\ [coding EXCEPT ![c].status = "applying"] \in Seq(CodingType)
    BY CodingTyped DEF Active
  <2> QED
    BY <2>1 DEF FinishNative, AcceptChanges
<1>5. EvidenceInv'
  BY <1>3, <1>4 DEF IInv, EvidenceInv
<1> QED
  BY <1>2, <1>3, <1>5, BeginInv

(* Steps of the coding engine and of the deliveries.                       *)
LEMMA EvidenceMovesInv ==
  ASSUME IInv,
         \/ \E c \in DOMAIN coding : OfferChanges(c) \/ EndCoding(c)
         \/ PrepareDelivery
         \/ \E i \in DOMAIN intents : ReplaceDelivery(i) \/ FinishDelivery(i)
  PROVE  IInv'
PROOF
<1>1. UNCHANGED <<run, op, revision, tests, crashes>>
  BY DEF OfferChanges, EndCoding, PrepareDelivery, ReplaceDelivery, FinishDelivery
<1>2. RunInv' /\ OpInv'
  BY <1>1, RunStays
<1>3. coding' \in Seq(CodingType)
  <2>1. coding \in Seq(CodingType)
    BY DEF IInv, EvidenceInv
  <2>2. \A c \in DOMAIN coding :
          /\ [coding EXCEPT ![c].status = "waiting"] \in Seq(CodingType)
          /\ [coding EXCEPT ![c].status = "ended"] \in Seq(CodingType)
    BY CodingTyped DEF Active
  <2> QED
    BY <2>1, <2>2 DEF OfferChanges, EndCoding, PrepareDelivery, ReplaceDelivery,
                      FinishDelivery
<1>4. intents' \in Seq(IntentType)
  <2>1. intents \in Seq(IntentType)
    BY DEF IInv, EvidenceInv
  <2>2. CASE PrepareDelivery \/ \E i \in DOMAIN intents : ReplaceDelivery(i)
    <3>1. NewIntent.package \in Nat
      <4>1. run.linked[Pr] \subseteq Nat
        BY Nodes DEF IInv, RunInv, RunType
      <4> QED
        BY <2>2, <4>1 DEF PrepareDelivery, ReplaceDelivery, Deliverable
    <3>2. NewIntent \in IntentType
      BY <3>1 DEF NewIntent, IntentType, IInv, RunInv, RunType
    <3>3. CASE PrepareDelivery
      <4>1. intents' = <<NewIntent>>
        BY <3>3 DEF PrepareDelivery
      <4> HIDE DEF NewIntent
      <4> QED
        BY <3>2, <4>1
    <3>4. CASE \E i \in DOMAIN intents : ReplaceDelivery(i)
      <4>1. PICK i \in DOMAIN intents :
              intents' = Append([intents EXCEPT ![i].status = "ended"], NewIntent)
        BY <3>4 DEF ReplaceDelivery
      <4>2. [intents EXCEPT ![i].status = "ended"] \in Seq(IntentType)
        BY IntentTyped
      <4> QED
        BY <3>2, <4>1, <4>2, AppendProperties
    <3> QED
      BY <2>2, <3>3, <3>4
  <2>3. CASE \E i \in DOMAIN intents : FinishDelivery(i)
    <3>1. PICK i \in DOMAIN intents, status \in {"completed", "ended"} :
            intents' = [intents EXCEPT ![i].status = status]
      BY <2>3 DEF FinishDelivery
    <3>2. [intents EXCEPT ![i].status = status] \in Seq(IntentType)
      BY IntentTyped
    <3> QED
      BY <3>1, <3>2
  <2>4. CASE \E c \in DOMAIN coding : OfferChanges(c) \/ EndCoding(c)
    BY <2>1, <2>4 DEF OfferChanges, EndCoding
  <2> QED
    BY <2>2, <2>3, <2>4
<1> QED
  BY <1>1, <1>2, <1>3, <1>4 DEF IInv, EvidenceInv

LEMMA CrashInv ==
  ASSUME IInv, Crash
  PROVE  IInv'
PROOF
<1>1. RunInv'
  BY DEF Crash, IInv, RunInv
<1>2. OpInv'
  BY IdleTyped DEF Crash, OpInv, WellDecided
<1>3. coding' \in Seq(CodingType)
  <2>1. coding \in Seq(CodingType)
    BY DEF IInv, EvidenceInv
  <2>2. DOMAIN coding = 1..Len(coding) /\ Len(coding) \in Nat
    BY <2>1, LenProperties
  <2>3. \A c \in 1..Len(coding) : coding[c] \in CodingType
    BY <2>1, ElementOfSeq
  <2> DEFINE new(c) == IF coding[c].status \in {"active", "applying"}
                       THEN [coding[c] EXCEPT !.status = "ended"] ELSE coding[c]
  <2>4. \A c \in 1..Len(coding) : new(c) \in CodingType
    BY <2>3 DEF CodingType
  <2>5. coding' = [c \in 1..Len(coding) |-> new(c)]
    BY <2>2 DEF Crash
  <2> HIDE DEF new
  <2> QED
    BY <2>2, <2>4, <2>5, IsASeq
<1>4. EvidenceInv'
  BY <1>3 DEF Crash, IInv, EvidenceInv
<1> QED
  BY <1>1, <1>2, <1>4 DEF IInv

LEMMA StepInv ==
  ASSUME IInv, [Next]_vars
  PROVE  IInv'
PROOF
<1>1. CASE UNCHANGED vars
  <2>1. UNCHANGED <<run, op, revision, coding, tests, intents, crashes>>
    BY <1>1 DEF vars
  <2>2. RunInv' /\ OpInv'
    BY <2>1, RunStays
  <2>3. EvidenceInv'
    BY <2>1 DEF IInv, EvidenceInv
  <2> QED
    BY <2>2, <2>3 DEF IInv
<1>2. ASSUME NEW h \in Handlers,
             \/ GenerateStage(h) \/ ReviseDesign(h) \/ ReviewGate(h)
             \/ RunTests(h) \/ CreatePackage(h) \/ AdvanceDelivered(h)
             \/ CreateBundle(h) \/ ApproveAcceptance(h) \/ PrepareCoding(h)
      PROVE  IInv'
  BY <1>2, SettingOut
<1>3. ASSUME NEW h \in Handlers, Decide(h)
      PROVE  IInv'
  BY <1>3, DecideInv
<1>4. ASSUME NEW h \in Handlers, Commit(h)
      PROVE  IInv'
  BY <1>4, CommitInv
<1>5. ASSUME NEW h \in Handlers,
             SaveTest(h) \/ GiveUp(h) \/ StartCoding(h) \/ SettleCoding(h)
      PROVE  IInv'
  BY <1>5, HandlerInv
<1>6. ASSUME NEW h \in Handlers, NEW c \in DOMAIN coding,
             FinishNative(h, c) \/ AcceptChanges(h, c)
      PROVE  IInv'
  BY <1>6, CompleteBuildInv
<1>7. CASE ApproveRemotely
  BY <1>7, ApproveRemotelyInv
<1>8. CASE \/ \E c \in DOMAIN coding : OfferChanges(c) \/ EndCoding(c)
           \/ PrepareDelivery
           \/ \E i \in DOMAIN intents : ReplaceDelivery(i) \/ FinishDelivery(i)
  BY <1>8, EvidenceMovesInv
<1>9. CASE Crash
  BY <1>9, CrashInv
<1> QED
  BY <1>1, <1>2, <1>3, <1>4, <1>5, <1>6, <1>7, <1>8, <1>9 DEF Next

THEOREM InvariantHolds == Spec => []IInv
PROOF
<1>1. Init => IInv
  BY InitInv
<1>2. IInv /\ [Next]_vars => IInv'
  BY StepInv
<1> QED
  BY <1>1, <1>2, PTL DEF Spec

(* Type correctness, for any number of handlers and any bounds.            *)
THEOREM TypeCorrect == Spec => []TypeOK
PROOF
<1>1. IInv => TypeOK
  BY InvTyped
<1> QED
  BY <1>1, InvariantHolds, PTL

(* The run keeps its shape whatever sequence of commands it has seen: the  *)
(* engine's structural check never refuses a run the program wrote, and    *)
(* LocalStore's normalization never rewrites one.                          *)
THEOREM RunAlwaysSound == Spec => []RunStaysSound
PROOF
<1>1. IInv => RunStaysSound
  BY FlatIsSound DEF IInv, RunInv, RunStaysSound
<1> QED
  BY <1>1, InvariantHolds, PTL

(* Every change of the stored run raises its version by one.               *)
THEOREM VersionsTellRunsApart == Spec => VersionTellsRunsApart
PROOF
<1>1. ASSUME IInv, [Next]_vars
      PROVE  [run' # run => run'.version = run.version + 1]_vars
  <2>1. ASSUME NEW h \in Handlers, Commit(h)
        PROVE  run' = run \/ run'.version = run.version + 1
    BY <1>1, <2>1, CommitMovesOn DEF MovesOn, Later
  <2>2. CASE ApproveRemotely
    BY <1>1, <2>2, ApproveRemotelyMovesOn DEF Later
  <2>3. CASE run' = run
    BY <2>3
  <2>4. \/ \E h \in Handlers : Commit(h)
        \/ ApproveRemotely
        \/ run' = run
    BY <1>1 DEF Next, vars, GenerateStage, ReviseDesign, ReviewGate, RunTests,
       SaveTest, CreatePackage, AdvanceDelivered, CreateBundle,
       ApproveAcceptance, Decide, GiveUp, PrepareCoding, StartCoding,
       SettleCoding, FinishNative, AcceptChanges, OfferChanges, EndCoding,
       PrepareDelivery, ReplaceDelivery, FinishDelivery, Crash, Begin
  <2> QED
    BY <2>1, <2>2, <2>3, <2>4
<1> QED
  BY <1>1, InvariantHolds, PTL DEF Spec, VersionTellsRunsApart

-----------------------------------------------------------------------------
(* The requirement gate.  At the clarification nothing is linked to it; at *)
(* the gate the latest clarification is, and it is open.                   *)

GateLinked ==
  /\ run.current = Clarify => run.linked[ClarifyGate] = {}
  /\ run.current = ClarifyGate =>
       /\ Len(revision) > 0
       /\ run.linked[ClarifyGate] = {Len(revision)}
       /\ revision[Len(revision)] = "review_requested"

Clarifying(o) == o.cmd.do = "complete_agent" /\ o.cmd.node = Clarify

(* What a handler has set out to write is the next clarification, as long  *)
(* as the run is the one it set out from.                                  *)
WritesNext(o) ==
  o.phase \in {"begun", "decided"} =>
    /\ o.read <= run.version
    /\ Clarifying(o) /\ o.read = run.version => o.cmd.name = Len(revision) + 1

LinksIt(o) ==
  o.phase = "decided" /\ o.read = run.version =>
    /\ o.next.current = Clarify => o.next.linked[ClarifyGate] = {}
    /\ o.next.current = ClarifyGate =>
         Clarifying(o) /\ o.next.linked[ClarifyGate] = {o.cmd.name}

GateInv ==
  /\ GateLinked
  /\ \A h \in Handlers : WritesNext(op[h]) /\ LinksIt(op[h])

LEMMA Different ==
  /\ Clarify = 1 /\ ClarifyGate = 2 /\ Design = 3 /\ DesignGate = 4 /\ Build = 5
  /\ Test = 6 /\ Pr = 7 /\ Accept = 8
PROOF
  BY DEF Clarify, ClarifyGate, Design, DesignGate, Build, Test, Pr, Accept

(* A permitted command leads to the requirement gate only from the         *)
(* clarification before it.                                                *)
LEMMA ResultLinksIt ==
  ASSUME NEW r \in RunType, NEW cmd \in CommandType, NEW ev, Permitted(r, cmd, ev),
         r.current = Clarify => r.linked[ClarifyGate] = {}
  PROVE  LET s == Result(r, cmd, ev)
         IN /\ s.current = Clarify => s.linked[ClarifyGate] = {}
            /\ s.current = ClarifyGate =>
                 /\ cmd.do = "complete_agent" /\ cmd.node = Clarify
                 /\ s.linked[ClarifyGate] = {cmd.name}
PROOF
<1> DEFINE s == Result(r, cmd, ev)
<1>1. CASE cmd.do = "request_changes"
  <2>1. s = SentBack(r)
    BY <1>1 DEF Result
  <2>2. s.current = Clarify
    BY <2>1 DEF SentBack, RunType
  <2>3. s.linked[ClarifyGate] = {}
    BY <2>1, Nodes DEF SentBack, RunType
  <2> QED
    BY <2>2, <2>3, Different
<1>2. CASE cmd.do = "revise_design"
  <2>1. s = Redesigned(r, cmd.name) /\ r.current = DesignGate
    BY <1>2 DEF Result, Permitted
  <2>2. s.current = DesignGate
    BY <2>1 DEF Redesigned, RunType
  <2> QED
    BY <2>2, Different
<1>3. CASE cmd.do \notin {"request_changes", "revise_design"}
  <2>1. /\ s = Applied(r, cmd, ev) /\ r.current = cmd.node
        /\ Supported(r, cmd, ev)
    BY <1>3 DEF Permitted, Result, Allowed
  <2>2. CASE cmd.do = "complete_agent"
    <3>1. s = Advanced(r, cmd, ev) /\ cmd.node \in {Clarify, Design}
      BY <2>1, <2>2 DEF Applied, Attaching, Supported, Agents
    <3>2. s.current = cmd.node + 1
      BY <3>1 DEF Advanced, RunType
    <3>3. CASE cmd.node = Design
      BY <3>2, <3>3, Different
    <3>4. CASE cmd.node = Clarify
      <4>1. s.linked = [m \in Node |->
                          r.linked[m] \union (IF m = cmd.node \/ m = cmd.node + 1
                                              THEN {cmd.name} ELSE {})]
        BY <3>1, <2>2 DEF Advanced, RunType
      <4>2. ClarifyGate = cmd.node + 1 /\ r.linked[ClarifyGate] = {}
        BY <2>1, <3>4, Different
      <4>3. s.linked[ClarifyGate] = {cmd.name}
        BY <4>1, <4>2, Nodes
      <4> QED
        BY <2>2, <3>2, <3>4, <4>3, Different
    <3> QED
      BY <3>1, <3>3, <3>4
  <2>3. CASE cmd.do # "complete_agent"
    <3>1. cmd.node \in {ClarifyGate, DesignGate, Build, Test, Pr, Accept}
      BY <2>1, <2>3 DEF Supported, Gates
    <3>2. /\ cmd.do \in Attaching \/ cmd.do = "approve_acceptance"
             \/ (cmd.do = "record_test_result" /\ cmd.result = "failed")
             => cmd.node \in {Test, Pr, Accept}
      BY <2>1, <2>3 DEF Supported, Attaching
    <3>3. \/ s.current = cmd.node + 1
          \/ s.current = cmd.node /\ cmd.node \in {Test, Pr, Accept}
      BY <2>1, <3>2 DEF Applied, Advanced, Accepted, Failed, WithArtifact, RunType
    <3> QED
      BY <3>1, <3>3, Different
  <2> QED
    BY <2>2, <2>3
<1> QED
  BY <1>1, <1>2, <1>3

LEMMA GateOpSet ==
  ASSUME IInv, GateInv, NEW h \in Handlers, NEW o, WritesNext(o), LinksIt(o),
         op' = [op EXCEPT ![h] = o], UNCHANGED <<run, revision>>
  PROVE  GateInv'
PROOF
<1>1. GateLinked'
  BY DEF GateInv, GateLinked
<1>2. ASSUME NEW k \in Handlers
      PROVE  (WritesNext(op[k]) /\ LinksIt(op[k]))'
  <2>1. op'[k] = o \/ op'[k] = op[k]
    BY DEF IInv, OpInv
  <2>2. WritesNext(op[k]) /\ LinksIt(op[k])
    BY DEF GateInv
  <2> QED
    BY <2>1, <2>2 DEF WritesNext, LinksIt
<1> QED
  BY <1>1, <1>2 DEF GateInv

LEMMA GateBegins ==
  ASSUME IInv, GateInv, NEW h \in Handlers, NEW cmd,
         cmd.do = "complete_agent" /\ cmd.node = Clarify => cmd.name = Len(revision) + 1,
         op' = [op EXCEPT ![h] = Begun(cmd, run.version)],
         UNCHANGED <<run, revision>>
  PROVE  GateInv'
PROOF
<1> DEFINE o == Begun(cmd, run.version)
<1>1. o.phase = "begun" /\ o.cmd = cmd /\ o.read = run.version /\ run.version \in Nat
  BY DEF Begun, IInv, RunInv, RunType
<1>2. WritesNext(o)
  BY <1>1 DEF WritesNext, Clarifying
<1>3. LinksIt(o)
  BY <1>1 DEF LinksIt
<1> QED
  BY <1>2, <1>3, GateOpSet

LEMMA GateStays ==
  ASSUME GateInv, UNCHANGED <<run, revision, op>>
  PROVE  GateInv'
PROOF
  BY DEF GateInv, GateLinked, WritesNext, LinksIt

(* Whoever set out or decided on the run before is too late.               *)
LEMMA GateMoves ==
  ASSUME IInv, GateInv, Later(run, run'), GateLinked',
         \/ op' = op
         \/ \E h \in Handlers, o \in OpType :
              /\ o.phase \notin {"begun", "decided"}
              /\ op' = [op EXCEPT ![h] = o]
  PROVE  GateInv'
PROOF
<1>1. ASSUME NEW k \in Handlers
      PROVE  (WritesNext(op[k]) /\ LinksIt(op[k]))'
  <2>1. op'[k] = op[k] \/ op'[k].phase \notin {"begun", "decided"}
    BY DEF IInv, OpInv
  <2>2. /\ op[k].phase \in {"begun", "decided"} => op[k].read <= run.version
        /\ op[k].read \in Nat /\ run.version \in Nat
    BY DEF GateInv, WritesNext, IInv, OpInv, OpType, RunInv, RunType
  <2>3. run'.version = run.version + 1
    BY DEF Later
  <2>4. CASE op'[k].phase \notin {"begun", "decided"}
    BY <2>4 DEF WritesNext, LinksIt
  <2>5. CASE op'[k] = op[k] /\ op[k].phase \in {"begun", "decided"}
    <3>1. op'[k].read < run'.version /\ op'[k].read <= run'.version
      BY <2>2, <2>3, <2>5
    <3> QED
      BY <2>2, <2>3, <3>1 DEF WritesNext, LinksIt
  <2> QED
    BY <2>1, <2>4, <2>5
<1> QED
  BY <1>1 DEF GateInv

LEMMA SettingOutGate ==
  ASSUME IInv, GateInv, NEW h \in Handlers,
         \/ GenerateStage(h) \/ ReviseDesign(h) \/ ReviewGate(h)
         \/ RunTests(h) \/ CreatePackage(h) \/ AdvanceDelivered(h)
         \/ CreateBundle(h) \/ ApproveAcceptance(h) \/ PrepareCoding(h)
  PROVE  GateInv'
PROOF
<1>1. SUFFICES ASSUME NEW cmd, Begin(h, cmd),
                      cmd.do = "complete_agent" /\ cmd.node = Clarify
                        => cmd.name = Len(revision) + 1
               PROVE  GateInv'
  <2>1. CASE GenerateStage(h)
    BY <1>1, <2>1 DEF GenerateStage, Command
  <2>2. CASE ReviseDesign(h)
    BY <1>1, <2>2 DEF ReviseDesign, Command
  <2>3. CASE ReviewGate(h)
    BY <1>1, <2>3 DEF ReviewGate, Command
  <2>4. CASE RunTests(h)
    BY <1>1, <2>4 DEF RunTests, Command
  <2>5. CASE CreatePackage(h)
    BY <1>1, <2>5 DEF CreatePackage, Command
  <2>6. CASE AdvanceDelivered(h)
    BY <1>1, <2>6 DEF AdvanceDelivered, Command
  <2>7. CASE CreateBundle(h)
    BY <1>1, <2>7 DEF CreateBundle, Command
  <2>8. CASE ApproveAcceptance(h)
    BY <1>1, <2>8 DEF ApproveAcceptance, Command
  <2>9. CASE PrepareCoding(h)
    BY <1>1, <2>9 DEF PrepareCoding, Command
  <2> QED
    BY <2>1, <2>2, <2>3, <2>4, <2>5, <2>6, <2>7, <2>8, <2>9
<1>2. /\ op' = [op EXCEPT ![h] = Begun(cmd, run.version)]
      /\ UNCHANGED <<run, revision>>
  BY <1>1 DEF Begin, evidence
<1> QED
  BY <1>1, <1>2, GateBegins

LEMMA DecideGate ==
  ASSUME IInv, GateInv, NEW h \in Handlers, Decide(h)
  PROVE  GateInv'
PROOF
<1> DEFINE cmd == op[h].cmd
           s == Result(run, cmd, Ev)
           o == Decided(op[h])
<1>1. op[h] \in OpType /\ cmd \in CommandType /\ run \in RunType
  BY DEF IInv, OpInv, OpType, RunInv
<1>2. /\ run.current = Clarify => run.linked[ClarifyGate] = {}
      /\ Permitted(run, cmd, Ev)
  BY DEF GateInv, GateLinked, Decide
<1>3. /\ s.current = Clarify => s.linked[ClarifyGate] = {}
      /\ s.current = ClarifyGate =>
           /\ cmd.do = "complete_agent" /\ cmd.node = Clarify
           /\ s.linked[ClarifyGate] = {cmd.name}
  BY <1>1, <1>2, ResultLinksIt
<1>4. /\ op[h].phase = "begun"
      /\ Clarifying(op[h]) => op[h].read = run.version
  BY DEF Decide, Clarifying
<1>5. Clarifying(op[h]) => cmd.name = Len(revision) + 1
  BY <1>4 DEF GateInv, WritesNext
<1> HIDE DEF s
<1>6. o.phase = "decided" /\ o.read = run.version /\ o.next = s /\ o.cmd = cmd
  BY <1>1 DEF Decided, OpType, s
<1> HIDE DEF o
<1>7. run.version \in Nat
  BY <1>1 DEF RunType
<1>8. WritesNext(o)
  BY <1>5, <1>6, <1>7 DEF WritesNext, Clarifying
<1>9. LinksIt(o)
  BY <1>3, <1>6 DEF LinksIt, Clarifying
<1>10. op' = [op EXCEPT ![h] = o] /\ UNCHANGED <<run, revision>>
  BY DEF Decide, o, evidence
<1> QED
  BY <1>8, <1>9, <1>10, GateOpSet

LEMMA CommitGate ==
  ASSUME IInv, GateInv, NEW h \in Handlers, Commit(h)
  PROVE  GateInv'
PROOF
<1> DEFINE cmd == op[h].cmd
           s == op[h].next
           o == IF Applying(cmd)
                THEN [Idle EXCEPT !.phase = "settling", !.cmd = cmd] ELSE Idle
<1>1. run' = s /\ MovesOn(run, cmd, s) /\ revision' = RevisionAfter(cmd)
  BY CommitMovesOn DEF Commit, Committed
<1>2. op[h].phase = "decided" /\ op[h].read = run.version
  BY DEF Commit, Committed
<1>3. /\ s.current = Clarify => s.linked[ClarifyGate] = {}
      /\ s.current = ClarifyGate =>
           Clarifying(op[h]) /\ s.linked[ClarifyGate] = {cmd.name}
  BY <1>2 DEF GateInv, LinksIt
<1>4. o \in OpType /\ o.phase \notin {"begun", "decided"} /\ op' = [op EXCEPT ![h] = o]
  <2>1. Idle \in OpType /\ Idle.phase = "idle"
    BY IdleTyped
  <2>2. cmd \in CommandType
    BY DEF IInv, OpInv, OpType
  <2>3. [Idle EXCEPT !.phase = "settling", !.cmd = cmd] \in OpType
    BY <2>1, <2>2 DEF OpType
  <2>4. [Idle EXCEPT !.phase = "settling", !.cmd = cmd].phase = "settling"
    BY <2>1 DEF OpType
  <2> QED
    BY <2>1, <2>3, <2>4 DEF Commit, Committed
<1>5. CASE cmd.do \in Attaching /\ s = run
  <2>1. UNCHANGED <<run, revision>>
    BY <1>1, <1>5 DEF RevisionAfter, Attaching
  <2>2. WritesNext(o) /\ LinksIt(o)
    BY <1>4 DEF WritesNext, LinksIt
  <2> HIDE DEF o
  <2> QED
    BY <1>4, <2>1, <2>2, GateOpSet
<1>6. CASE Later(run, s)
  <2>1. ASSUME s.current = ClarifyGate
        PROVE  /\ Len(revision') > 0 /\ s.linked[ClarifyGate] = {Len(revision')}
               /\ revision'[Len(revision')] = "review_requested"
    <3> DEFINE old == [i \in DOMAIN revision |-> Superseded(revision[i])]
    <3>1. Clarifying(op[h]) /\ cmd.name = Len(revision) + 1
      BY <1>2, <1>3, <2>1 DEF GateInv, WritesNext
    <3>2. revision' = Append(old, "review_requested")
      BY <1>1, <3>1 DEF RevisionAfter, Clarifying
    <3>3. revision \in Seq(RevisionStatus)
      BY DEF IInv, EvidenceInv
    <3>4. DOMAIN revision = 1..Len(revision) /\ Len(revision) \in Nat
      BY <3>3, LenProperties
    <3>5. \A i \in 1..Len(revision) : Superseded(revision[i]) \in RevisionStatus
      BY <3>3, ElementOfSeq DEF Superseded, RevisionStatus
    <3>6. old \in Seq(RevisionStatus) /\ Len(old) = Len(revision)
      BY <3>4, <3>5, IsASeq
    <3> HIDE DEF old
    <3>7. Len(revision') = Len(revision) + 1
          /\ revision'[Len(revision) + 1] = "review_requested"
      BY <3>2, <3>4, <3>6, AppendProperties, "review_requested" \in RevisionStatus
         DEF RevisionStatus
    <3> QED
      BY <1>3, <2>1, <3>1, <3>4, <3>7
  <2>2. GateLinked'
    BY <1>1, <1>3, <2>1 DEF GateLinked
  <2> HIDE DEF o
  <2> QED
    BY <1>1, <1>4, <1>6, <2>2, GateMoves
<1> QED
  BY <1>1, <1>5, <1>6 DEF MovesOn

LEMMA ApproveRemotelyGate ==
  ASSUME IInv, GateInv, ApproveRemotely
  PROVE  GateInv'
PROOF
<1>1. Later(run, run') /\ op' = op
  BY ApproveRemotelyMovesOn
<1>2. PICK n \in Gates : \E name \in run.linked[n] :
        LET cmd == Command("approve_gate", n, name, "none")
        IN Allowed(run, cmd, Ev) /\ run' = Normalized(Applied(run, cmd, Ev))
  BY DEF ApproveRemotely
<1>3. PICK name \in run.linked[n] :
        LET cmd == Command("approve_gate", n, name, "none")
        IN Allowed(run, cmd, Ev) /\ run' = Normalized(Applied(run, cmd, Ev))
  BY <1>2
<1> DEFINE cmd == Command("approve_gate", n, name, "none")
<1>4. cmd.do = "approve_gate" /\ cmd.node = n /\ n \in {2, 4}
  BY Different DEF Command, Gates
<1>5. Applied(run, cmd, Ev) = Advanced(run, cmd, Ev)
  BY <1>4 DEF Applied, Attaching
<1>6. run \in RunType /\ Flat(run) /\ DOMAIN Ev.intents \subseteq Nat
  BY DEF IInv, RunInv, EvidenceInv, Ev
<1>7. cmd \in CommandType
  <2>1. n \in Node /\ name \in Nat
    BY <1>6, Nodes DEF Gates, RunType
  <2> QED
    BY <2>1, CommandTyped DEF Commands
<1> HIDE DEF cmd
<1>8. Allowed(run, cmd, Ev) /\ run' = Normalized(Applied(run, cmd, Ev))
  BY <1>3 DEF cmd
<1>9. Later(run, Applied(run, cmd, Ev))
  BY <1>4, <1>6, <1>7, <1>8, AppliedMovesOn DEF MovesOn, Attaching
<1>10. run' = Advanced(run, cmd, Ev)
  BY <1>5, <1>8, <1>9, FlatIsNormal DEF Later
<1>11. run'.current = n + 1
  BY <1>4, <1>6, <1>10 DEF Advanced, RunType
<1>12. GateLinked'
  BY <1>4, <1>11, Different DEF GateLinked
<1> QED
  BY <1>1, <1>12, GateMoves

LEMMA OthersGate ==
  ASSUME IInv, GateInv,
         \/ \E h \in Handlers :
              SaveTest(h) \/ GiveUp(h) \/ StartCoding(h) \/ SettleCoding(h)
         \/ \E h \in Handlers, c \in DOMAIN coding :
              FinishNative(h, c) \/ AcceptChanges(h, c)
         \/ \E c \in DOMAIN coding : OfferChanges(c) \/ EndCoding(c)
         \/ PrepareDelivery
         \/ \E i \in DOMAIN intents : ReplaceDelivery(i) \/ FinishDelivery(i)
         \/ Crash
         \/ UNCHANGED vars
  PROVE  GateInv'
PROOF
<1>1. WritesNext(Idle) /\ LinksIt(Idle)
  BY IdleTyped DEF WritesNext, LinksIt
<1>2. ASSUME NEW h \in Handlers,
             SaveTest(h) \/ GiveUp(h) \/ StartCoding(h) \/ SettleCoding(h)
      PROVE  GateInv'
  <2>1. op' = [op EXCEPT ![h] = Idle] /\ UNCHANGED <<run, revision>>
    BY <1>2 DEF SaveTest, GiveUp, StartCoding, SettleCoding
  <2> QED
    BY <1>1, <2>1, GateOpSet
<1>3. ASSUME NEW h \in Handlers, NEW c \in DOMAIN coding,
             FinishNative(h, c) \/ AcceptChanges(h, c)
      PROVE  GateInv'
  <2> DEFINE cmd == Command("complete_build", Build, c, "none")
  <2>1. /\ op' = [op EXCEPT ![h] = Begun(cmd, run.version)]
        /\ UNCHANGED <<run, revision>>
    BY <1>3 DEF FinishNative, AcceptChanges, CompleteBuild
  <2>2. cmd.do # "complete_agent"
    BY DEF Command
  <2> HIDE DEF cmd
  <2> QED
    BY <2>1, <2>2, GateBegins
<1>4. CASE \/ \E c \in DOMAIN coding : OfferChanges(c) \/ EndCoding(c)
           \/ PrepareDelivery
           \/ \E i \in DOMAIN intents : ReplaceDelivery(i) \/ FinishDelivery(i)
           \/ UNCHANGED vars
  <2>1. UNCHANGED <<run, revision, op>>
    BY <1>4 DEF OfferChanges, EndCoding, PrepareDelivery, ReplaceDelivery,
                FinishDelivery, vars
  <2> QED
    BY <2>1, GateStays
<1>5. CASE Crash
  <2>1. UNCHANGED <<run, revision>> /\ \A h \in Handlers : op'[h] = Idle
    BY <1>5 DEF Crash
  <2>2. Idle.phase = "idle"
    BY IdleTyped
  <2>3. GateLinked'
    BY <2>1 DEF GateInv, GateLinked
  <2>4. \A h \in Handlers : (WritesNext(op[h]) /\ LinksIt(op[h]))'
    BY <2>1, <2>2 DEF WritesNext, LinksIt
  <2> QED
    BY <2>3, <2>4 DEF GateInv
<1> QED
  BY <1>2, <1>3, <1>4, <1>5

LEMMA StepGate ==
  ASSUME IInv, GateInv, [Next]_vars
  PROVE  GateInv'
PROOF
<1>1. ASSUME NEW h \in Handlers,
             \/ GenerateStage(h) \/ ReviseDesign(h) \/ ReviewGate(h)
             \/ RunTests(h) \/ CreatePackage(h) \/ AdvanceDelivered(h)
             \/ CreateBundle(h) \/ ApproveAcceptance(h) \/ PrepareCoding(h)
      PROVE  GateInv'
  BY <1>1, SettingOutGate
<1>2. ASSUME NEW h \in Handlers, Decide(h)
      PROVE  GateInv'
  BY <1>2, DecideGate
<1>3. ASSUME NEW h \in Handlers, Commit(h)
      PROVE  GateInv'
  BY <1>3, CommitGate
<1>4. CASE ApproveRemotely
  BY <1>4, ApproveRemotelyGate
<1>5. CASE \/ \E h \in Handlers :
                SaveTest(h) \/ GiveUp(h) \/ StartCoding(h) \/ SettleCoding(h)
           \/ \E h \in Handlers, c \in DOMAIN coding :
                FinishNative(h, c) \/ AcceptChanges(h, c)
           \/ \E c \in DOMAIN coding : OfferChanges(c) \/ EndCoding(c)
           \/ PrepareDelivery
           \/ \E i \in DOMAIN intents : ReplaceDelivery(i) \/ FinishDelivery(i)
           \/ Crash
           \/ UNCHANGED vars
  BY <1>5, OthersGate
<1> QED
  BY <1>1, <1>2, <1>3, <1>4, <1>5 DEF Next

LEMMA GateInit ==
  ASSUME Init
  PROVE  GateInv
PROOF
<1>1. run.current = Clarify /\ run.linked[ClarifyGate] = {}
  BY Nodes DEF Init, NewRun
<1>2. GateLinked
  BY <1>1, Different DEF GateLinked
<1>3. \A h \in Handlers : op[h] = Idle /\ Idle.phase = "idle"
  BY IdleTyped DEF Init
<1> QED
  BY <1>2, <1>3 DEF GateInv, WritesNext, LinksIt

(* Whenever the requirement gate waits, its user has one clarification to  *)
(* decide on: the latest, and open.                                        *)
THEOREM GateAlwaysReviewable == Spec => []GateIsReviewable
PROOF
<1>1. Init => IInv /\ GateInv
  BY InitInv, GateInit
<1>2. IInv /\ GateInv /\ [Next]_vars => (IInv /\ GateInv)'
  BY StepInv, StepGate
<1>3. IInv /\ GateInv => GateIsReviewable
  <2>1. ASSUME GateInv, Here(ClarifyGate)
        PROVE  /\ ReadyForReview(run, Ev)
               /\ revision[Len(revision)] = "review_requested"
    BY <2>1 DEF GateInv, GateLinked, Here, ReadyForReview, Ev
  <2> QED
    BY <2>1 DEF GateIsReviewable
<1> QED
  BY <1>1, <1>2, <1>3, PTL DEF Spec

-----------------------------------------------------------------------------
(* What a permitted command makes of a run, field by field.                *)

LinksOnly(r, s, changed) == \A n \in Node \ changed : s.linked[n] = r.linked[n]

SendsBack(r, cmd, s) ==
  /\ cmd.do = "request_changes" /\ r.current = ClarifyGate
  /\ s.current = Clarify /\ s.status # "completed"
  /\ s.linked[ClarifyGate] = {} /\ LinksOnly(r, s, {ClarifyGate})
  /\ s.at[ClarifyGate] = "pending" /\ s.at[DesignGate] = "pending"

Redesigns(r, cmd, s) ==
  /\ cmd.do = "revise_design" /\ r.current = DesignGate
  /\ s.current = DesignGate /\ s.status = r.status
  /\ s.linked[DesignGate] = {cmd.name}
  /\ LinksOnly(r, s, {Design, DesignGate}) /\ s.at = r.at

Attaches(r, cmd, ev, s) ==
  /\ cmd.do \in Attaching /\ cmd.node \in {Pr, Accept} /\ r.current = cmd.node
  /\ r.status # "completed"
  /\ (cmd.do = "attach_pr_package") <=> (cmd.node = Pr)
  /\ s.current = r.current /\ s.status = r.status
  /\ s.linked[cmd.node] = r.linked[cmd.node] \union {cmd.name}
  /\ LinksOnly(r, s, {cmd.node}) /\ s.at = r.at
  /\ s.pullRequest = r.pullRequest

Completes(r, cmd, ev, s) ==
  /\ cmd.do = "approve_acceptance" /\ cmd.node = Accept /\ r.current = Accept
  /\ DeliveryEvidence(r, ev, cmd) /\ HasAttachedBundle(r)
  /\ s.current = Accept /\ s.status = "completed" /\ s.linked = r.linked
  /\ s.pullRequest = r.pullRequest
  /\ \A g \in Gates : s.at[g] = r.at[g]

Fails(r, cmd, s) ==
  /\ cmd.do = "record_test_result" /\ cmd.result = "failed"
  /\ cmd.node = Test /\ r.current = Test
  /\ s.current = Test /\ s.status # "completed"
  /\ LinksOnly(r, s, {Test}) /\ \A g \in Gates : s.at[g] = r.at[g]

Advances(r, cmd, ev, s) ==
  /\ cmd.do \notin {"request_changes", "revise_design", "approve_acceptance"}
  /\ cmd.do \notin Attaching
  /\ cmd.do = "record_test_result" => cmd.result # "failed"
  /\ Supported(r, cmd, ev)
  /\ r.current = cmd.node /\ cmd.node # Accept
  /\ s.current = cmd.node + 1 /\ s.status # "completed"
  /\ \A m \in Node :
       s.linked[m] = r.linked[m] \union
         (IF \/ m = cmd.node /\ cmd.do \in {"complete_agent",
                                            "record_test_result", "complete_pr"}
             \/ m = cmd.node + 1 /\ cmd.do = "complete_agent"
          THEN {cmd.name} ELSE {})
  /\ s.pullRequest = IF cmd.do = "complete_pr"
                     THEN CHOOSE i \in Deliveries(r, ev, cmd) : TRUE
                     ELSE r.pullRequest
  /\ s.at[cmd.node] = "success" /\ s.at[cmd.node + 1] = "running"
  /\ \A n \in Node \ {cmd.node, cmd.node + 1} : s.at[n] = r.at[n]

LEMMA ResultFields ==
  ASSUME NEW r \in RunType, NEW cmd \in CommandType, NEW ev,
         Permitted(r, cmd, ev), NEW s, s = Result(r, cmd, ev)
  PROVE  \/ SendsBack(r, cmd, s) \/ Redesigns(r, cmd, s)
         \/ Attaches(r, cmd, ev, s) \/ Completes(r, cmd, ev, s)
         \/ Fails(r, cmd, s) \/ Advances(r, cmd, ev, s)
PROOF
<1>1. CASE cmd.do = "request_changes"
  <2>1. s = SentBack(r) /\ r.current = ClarifyGate
    BY <1>1 DEF Result, Permitted
  <2> QED
    BY <1>1, <2>1, Nodes, Different DEF SentBack, SendsBack, LinksOnly, RunType
<1>2. CASE cmd.do = "revise_design"
  <2>1. s = Redesigned(r, cmd.name) /\ r.current = DesignGate
    BY <1>2 DEF Result, Permitted
  <2> QED
    BY <1>2, <2>1, Nodes, Different DEF Redesigned, Redesigns, LinksOnly, RunType
<1>3. CASE cmd.do \notin {"request_changes", "revise_design"}
  <2>1. /\ s = Applied(r, cmd, ev) /\ r.current = cmd.node /\ cmd.node \in Node
        /\ r.status # "completed" /\ Supported(r, cmd, ev)
    BY <1>3 DEF Permitted, Result, Allowed, CommandType
  <2>2. CASE cmd.do \in Attaching
    <3>1. (s = r /\ cmd.name \in r.linked[cmd.node]) \/ s = WithArtifact(r, cmd)
      BY <2>1, <2>2 DEF Applied, Attaching
    <3>2. cmd.node \in {Pr, Accept} /\ ((cmd.do = "attach_pr_package") <=> (cmd.node = Pr))
      BY <2>1, <2>2, Different DEF Supported, Attaching
    <3>3. CASE s = r /\ cmd.name \in r.linked[cmd.node]
      BY <2>1, <2>2, <3>2, <3>3 DEF Attaches, LinksOnly
    <3>4. CASE s = WithArtifact(r, cmd)
      BY <2>1, <2>2, <3>2, <3>4 DEF WithArtifact, Attaches, LinksOnly, RunType
    <3> QED
      BY <3>1, <3>3, <3>4
  <2>3. CASE cmd.do = "approve_acceptance"
    <3>1. /\ s = Accepted(r) /\ cmd.node = Accept
          /\ DeliveryEvidence(r, ev, cmd) /\ HasAttachedBundle(r)
      BY <2>1, <2>3 DEF Applied, Attaching, Supported
    <3>2. Accept \notin Gates
      BY Different DEF Gates
    <3> QED
      BY <2>1, <2>3, <3>1, <3>2 DEF Accepted, Completes, RunType
  <2>4. CASE cmd.do = "record_test_result" /\ cmd.result = "failed"
    <3>1. s = Failed(r, cmd) /\ cmd.node = Test
      BY <2>1, <2>4 DEF Applied, Attaching, Supported
    <3>2. Test \notin Gates
      BY Different DEF Gates
    <3> QED
      BY <2>1, <2>4, <3>1, <3>2 DEF Failed, WithArtifact, Fails, LinksOnly, RunType
  <2>5. CASE /\ cmd.do \notin Attaching /\ cmd.do # "approve_acceptance"
             /\ ~(cmd.do = "record_test_result" /\ cmd.result = "failed")
    <3>1. s = Advanced(r, cmd, ev)
      BY <2>1, <2>5 DEF Applied
    <3>2. cmd.node # Accept
      BY <2>1, <2>5 DEF Supported, Attaching, Agents, Gates, Clarify, ClarifyGate,
                        Design, DesignGate, Build, Test, Pr, Accept
    <3>3. cmd.node + 1 \in Node /\ cmd.node \in Node /\ cmd.node # cmd.node + 1
      BY <2>1, <3>2, Nodes DEF Accept
    <3>4. RunStatusAt(cmd.node + 1) # "completed"
      BY <3>3, Nodes
    <3> DEFINE keeps == cmd.do \in {"complete_agent", "record_test_result", "complete_pr"}
               hands == cmd.do = "complete_agent"
               more(m) == IF (m = cmd.node /\ keeps) \/ (m = cmd.node + 1 /\ hands)
                          THEN {cmd.name} ELSE {}
               at == [r.at EXCEPT ![cmd.node] = "success", ![cmd.node + 1] = "running"]
    <3>5. /\ s.current = cmd.node + 1 /\ s.status = RunStatusAt(cmd.node + 1)
          /\ s.linked = [m \in Node |-> r.linked[m] \union more(m)]
          /\ s.pullRequest = IF cmd.do = "complete_pr"
                             THEN CHOOSE i \in Deliveries(r, ev, cmd) : TRUE
                             ELSE r.pullRequest
          /\ s.at = at
      BY <3>1 DEF Advanced, StatusWhenLeft, RunType
    <3>6. /\ at[cmd.node] = "success" /\ at[cmd.node + 1] = "running"
          /\ \A n \in Node \ {cmd.node, cmd.node + 1} : at[n] = r.at[n]
      BY <3>3 DEF RunType
    <3> HIDE DEF at
    <3> QED
      BY <1>3, <2>1, <2>5, <3>2, <3>4, <3>5, <3>6 DEF Advances
  <2> QED
    BY <2>2, <2>3, <2>4, <2>5
<1> QED
  BY <1>1, <1>2, <1>3

-----------------------------------------------------------------------------
(* The evidence a run leaves behind.                                       *)

Approved ==
  run.current > ClarifyGate =>
    revision # <<>> /\ revision[Len(revision)] = "approved"

(* The design gate gets its one design with the design step.               *)
DesignLinked ==
  /\ run.current < DesignGate => run.linked[DesignGate] = {}
  /\ run.current >= DesignGate =>
       \E name \in Nat : run.linked[DesignGate] = {name}

Tested == run.current > Test => LatestTestPassed(run, Ev)

(* Packages are named for versions of the past.                            *)
Packaged ==
  /\ \A p \in run.linked[Pr] : p < run.version
  /\ \A i \in DOMAIN intents : intents[i].package + 1 = intents[i].version

(* The run goes on with the delivery of its latest package.                *)
Delivered ==
  run.current = Accept =>
    LET i == run.pullRequest
    IN /\ i \in DOMAIN intents /\ intents[i].status = "completed"
       /\ intents[i].package \in run.linked[Pr]
       /\ \A p \in run.linked[Pr] : p <= intents[i].package

Concluded ==
  run.status = "completed" =>
    /\ Completed(Ev) # {} /\ run.linked[Accept] # {}
    /\ \A p \in run.linked[Pr] : intents[run.pullRequest].package <= p

RunEvidence ==
  Approved /\ DesignLinked /\ Tested /\ Packaged /\ Delivered /\ Concluded

(* What a decision relied on is still there when it is committed.          *)
Evolved(ev) ==
  /\ Completed(ev) \subseteq Completed(Ev)
  /\ \A i \in DOMAIN ev.intents :
       ev.intents[i].status = "completed" =>
         i \in DOMAIN intents /\ intents[i] = ev.intents[i]

(* A command's change of the stored run, decided on evidence ev.           *)
Lands(cmd, ev) ==
  /\ Permitted(run, cmd, ev) /\ run' = Result(run, cmd, ev) /\ Evolved(ev)
  /\ MovesOn(run, cmd, run')
  /\ revision' = RevisionAfter(cmd)
  /\ UNCHANGED <<coding, intents>>
  /\ cmd.do = "approve_gate" => cmd.name \in run.linked[cmd.node]
  /\ cmd.do = "attach_pr_package" => cmd.name <= run.version
  /\ IF cmd.do = "record_test_result"
     THEN /\ cmd.name = Len(tests) + 1 /\ cmd.result \in {"passed", "failed"}
          /\ tests' = Append(tests, cmd.result)
     ELSE tests' = tests

LEMMA LandsFields ==
  ASSUME IInv, NEW cmd \in CommandType, NEW ev, Lands(cmd, ev)
  PROVE  /\ \/ SendsBack(run, cmd, run') \/ Redesigns(run, cmd, run')
            \/ Attaches(run, cmd, ev, run') \/ Completes(run, cmd, ev, run')
            \/ Fails(run, cmd, run') \/ Advances(run, cmd, ev, run')
         /\ run \in RunType /\ run' \in RunType
         /\ run'.version = run.version + 1 \/ run' = run
PROOF
<1>1. run \in RunType
  BY DEF IInv, RunInv
<1> QED
  BY <1>1, ResultFields DEF Lands, MovesOn, Later

LEMMA ApprovedLands ==
  ASSUME IInv, GateInv, Approved, NEW cmd \in CommandType, NEW ev, Lands(cmd, ev)
  PROVE  Approved'
PROOF
<1>1. CASE /\ ~(cmd.do = "complete_agent" /\ cmd.node = Clarify)
           /\ cmd.do # "request_changes"
           /\ ~(cmd.do = "approve_gate" /\ cmd.node = ClarifyGate)
  <2>1. revision' = revision
    BY <1>1 DEF Lands, RevisionAfter
  <2>2. run'.current > ClarifyGate => run.current > ClarifyGate
    <3>1. CASE Advances(run, cmd, ev, run')
      <4>1. cmd.node # Clarify /\ cmd.node # ClarifyGate
        BY <1>1, <3>1, Different DEF Advances, Supported, Agents, Gates
      <4> QED
        BY <3>1, <4>1, Different, Nodes DEF Advances, CommandType
    <3>2. CASE ~Advances(run, cmd, ev, run')
      BY <1>1, <3>2, LandsFields, Different
      DEF SendsBack, Redesigns, Attaches, Completes, Fails
    <3> QED
      BY <3>1, <3>2
  <2> QED
    BY <2>1, <2>2 DEF Approved
<1>2. CASE (cmd.do = "complete_agent" /\ cmd.node = Clarify)
           \/ cmd.do = "request_changes"
  <2>1. run'.current \in {Clarify, ClarifyGate}
    <3>1. CASE SendsBack(run, cmd, run')
      BY <3>1 DEF SendsBack
    <3>2. CASE Advances(run, cmd, ev, run')
      BY <1>2, <3>2, Different DEF Advances
    <3> QED
      BY <1>2, <3>1, <3>2, LandsFields
      DEF Redesigns, Attaches, Completes, Fails, Attaching
  <2> QED
    BY <2>1, Different DEF Approved
<1>3. CASE cmd.do = "approve_gate" /\ cmd.node = ClarifyGate
  <2>1. run.current = ClarifyGate
    BY <1>3, LandsFields
    DEF SendsBack, Redesigns, Attaches, Completes, Fails, Advances, Attaching
  <2>2. Len(revision) > 0 /\ cmd.name = Len(revision)
    BY <1>3, <2>1 DEF GateInv, GateLinked, Lands
  <2>3. revision' = [revision EXCEPT ![Len(revision)] = "approved"]
    BY <1>3, <2>2 DEF Lands, RevisionAfter
  <2>4. revision \in Seq(RevisionStatus) /\ Len(revision) \in Nat
    BY LenProperties DEF IInv, EvidenceInv
  <2>5. Len(revision) \in 1..Len(revision) /\ "approved" \in RevisionStatus
    BY <2>2, <2>4 DEF RevisionStatus
  <2>6. /\ revision' \in Seq(RevisionStatus)
        /\ Len(revision') = Len(revision)
        /\ revision'[Len(revision)] = "approved"
    BY <2>3, <2>4, <2>5, ExceptSeq
  <2>7. revision' # <<>>
    BY <2>2, <2>6, EmptySeq
  <2> QED
    BY <2>6, <2>7 DEF Approved
<1> QED
  BY <1>1, <1>2, <1>3

LEMMA DesignLands ==
  ASSUME IInv, DesignLinked, NEW cmd \in CommandType, NEW ev, Lands(cmd, ev)
  PROVE  DesignLinked'
PROOF
<1>1. CASE SendsBack(run, cmd, run')
  BY <1>1, Different, Nodes DEF SendsBack, LinksOnly, DesignLinked
<1>2. CASE Redesigns(run, cmd, run')
  BY <1>2, Different DEF Redesigns, DesignLinked, CommandType
<1>3. CASE \/ Attaches(run, cmd, ev, run') \/ Completes(run, cmd, ev, run')
           \/ Fails(run, cmd, run')
  BY <1>3, Different, Nodes
  DEF Attaches, Completes, Fails, LinksOnly, DesignLinked
<1>4. CASE Advances(run, cmd, ev, run')
  <2>1. CASE cmd.node = Design
    <3>1. cmd.do = "complete_agent"
      BY <1>4, <2>1, Different DEF Advances, Supported, Agents, Gates
    <3>2. run.linked[DesignGate] = {} /\ run'.current = DesignGate
      BY <1>4, <2>1, Different DEF Advances, DesignLinked
    <3>3. run'.linked[DesignGate] = {cmd.name}
      BY <1>4, <2>1, <3>1, <3>2, Different, Nodes DEF Advances
    <3> QED
      BY <3>2, <3>3, Different DEF DesignLinked, CommandType
  <2>2. CASE cmd.node # Design
    <3>1. run'.linked[DesignGate] = run.linked[DesignGate]
      <4>1. ~(cmd.node = DesignGate /\ cmd.do \in {"complete_agent",
                                "record_test_result", "complete_pr"})
        BY <1>4, Different DEF Advances, Supported, Agents
      <4>2. DesignGate # cmd.node + 1
        BY <2>2, Different, Nodes DEF CommandType
      <4>3. DesignGate \in Node
        BY Nodes
      <4>4. cmd.do \in {"complete_agent", "record_test_result", "complete_pr"}
              => DesignGate # cmd.node
        BY <4>1
      <4>5. run'.linked[DesignGate] = run.linked[DesignGate] \union {}
        BY <1>4, <4>2, <4>3, <4>4 DEF Advances
      <4> QED
        BY <4>5
    <3>2. (run'.current < DesignGate) <=> (run.current < DesignGate)
      BY <1>4, <2>2, Different, Nodes DEF Advances, CommandType
    <3>3. (run'.current >= DesignGate) <=> (run.current >= DesignGate)
      BY <1>4, <2>2, Different, Nodes DEF Advances, CommandType
    <3> QED
      BY <3>1, <3>2, <3>3 DEF DesignLinked
  <2> QED
    BY <2>1, <2>2
<1> QED
  BY <1>1, <1>2, <1>3, <1>4, LandsFields

LEMMA TestedLands ==
  ASSUME IInv, Tested, NEW cmd \in CommandType, NEW ev, Lands(cmd, ev)
  PROVE  Tested'
PROOF
<1>1. SUFFICES ASSUME run'.current > Test
               PROVE  LatestTestPassed(run', Ev')
  BY DEF Tested
<1>2. run \in RunType /\ run' \in RunType
  BY LandsFields
<1>3. Ev.tests = tests /\ Ev'.tests = tests'
  BY DEF Ev
<1>4. CASE cmd.do = "record_test_result"
  <2>1. Advances(run, cmd, ev, run')
    <3>1. /\ ~SendsBack(run, cmd, run') /\ ~Redesigns(run, cmd, run')
          /\ ~Completes(run, cmd, ev, run')
      BY <1>4 DEF SendsBack, Redesigns, Completes
    <3>2. ~Attaches(run, cmd, ev, run')
      BY <1>4 DEF Attaches, Attaching
    <3>3. ~Fails(run, cmd, run')
      BY <1>1, Different DEF Fails
    <3> QED
      BY <3>1, <3>2, <3>3, LandsFields
  <2>2. cmd.node = Test /\ cmd.result # "failed"
    BY <1>4, <2>1 DEF Advances, Supported
  <2>3. tests' = Append(tests, "passed") /\ cmd.name = Len(tests) + 1
    BY <1>4, <2>2 DEF Lands
  <2>4. tests \in Seq({"passed", "failed"})
    BY DEF IInv, EvidenceInv
  <2>5. /\ Len(tests') = Len(tests) + 1 /\ tests'[Len(tests) + 1] = "passed"
        /\ tests' # <<>>
    BY <2>3, <2>4, AppendProperties, EmptySeq, LenProperties
  <2>6. cmd.name \in run'.linked[Test]
    BY <1>4, <2>1, <2>2, Nodes DEF Advances
  <2> QED
    BY <1>3, <2>3, <2>5, <2>6 DEF LatestTestPassed
<1>5. CASE cmd.do # "record_test_result"
  <2>1. run.current > Test /\ run.linked[Test] \subseteq run'.linked[Test]
    <3>1. CASE Advances(run, cmd, ev, run')
      <4>1. cmd.node # Test
        BY <1>5, <3>1, Different DEF Advances, Supported, Agents, Gates
      <4>2. run.linked[Test] \subseteq run'.linked[Test]
        BY <3>1, Nodes DEF Advances
      <4> QED
        BY <1>1, <3>1, <4>1, <4>2, Different, Nodes DEF Advances, CommandType
    <3>2. CASE Attaches(run, cmd, ev, run')
      BY <1>1, <3>2, Different, Nodes DEF Attaches, LinksOnly
    <3>3. CASE Completes(run, cmd, ev, run')
      BY <1>1, <3>3, Different DEF Completes
    <3> QED
      BY <1>1, <3>1, <3>2, <3>3, LandsFields, Different
      DEF SendsBack, Redesigns, Fails
  <2>2. tests' = tests
    BY <1>5 DEF Lands
  <2> QED
    BY <1>3, <2>1, <2>2 DEF Tested, LatestTestPassed
<1> QED
  BY <1>4, <1>5

LEMMA PackagedLands ==
  ASSUME IInv, Packaged, NEW cmd \in CommandType, NEW ev, Lands(cmd, ev)
  PROVE  Packaged'
PROOF
<1>1. /\ run.version \in Nat
      /\ run.linked[Pr] \subseteq Nat
      /\ run'.version = run.version + 1 \/ run' = run
  BY LandsFields, Nodes DEF RunType
<1>2. \/ run'.linked[Pr] \subseteq run.linked[Pr]
      \/ /\ run'.linked[Pr] = run.linked[Pr] \union {cmd.name}
         /\ cmd.name <= run.version
  <2>1. CASE Attaches(run, cmd, ev, run')
    <3>1. CASE cmd.node = Pr
      BY <2>1, <3>1 DEF Attaches, Lands
    <3>2. CASE cmd.node # Pr
      BY <2>1, <3>2, Nodes DEF Attaches, LinksOnly
    <3> QED
      BY <3>1, <3>2
  <2>2. CASE Advances(run, cmd, ev, run')
    <3>1. CASE cmd.node = Pr
      <4>1. cmd.do = "complete_pr" /\ cmd.name \in run.linked[Pr]
        BY <2>2, <3>1, Different DEF Advances, Supported, Agents, Gates, Attaching
      <4>2. run'.linked[Pr] = run.linked[Pr] \union {cmd.name}
        BY <2>2, <3>1, <4>1, Nodes DEF Advances
      <4> QED
        BY <4>1, <4>2
    <3>2. CASE cmd.node # Pr
      <4>1. ~(Pr = cmd.node + 1 /\ cmd.do = "complete_agent")
        BY <2>2, Different DEF Advances, Supported, Agents
      <4>2. Pr \in Node
        BY Nodes
      <4>3. run'.linked[Pr] = run.linked[Pr] \union {}
        BY <2>2, <3>2, <4>1, <4>2 DEF Advances
      <4> QED
        BY <4>3
    <3> QED
      BY <3>1, <3>2
  <2>3. CASE SendsBack(run, cmd, run')
    BY <2>3, Different, Nodes DEF SendsBack, LinksOnly
  <2>4. CASE Redesigns(run, cmd, run')
    BY <2>4, Different, Nodes DEF Redesigns, LinksOnly
  <2>5. CASE Completes(run, cmd, ev, run')
    BY <2>5 DEF Completes
  <2>6. CASE Fails(run, cmd, run')
    BY <2>6, Different, Nodes DEF Fails, LinksOnly
  <2> QED
    BY <2>1, <2>2, <2>3, <2>4, <2>5, <2>6, LandsFields
<1>3. \A p \in run'.linked[Pr] : p < run'.version
  <2>1. CASE run' = run
    BY <2>1 DEF Packaged
  <2>2. CASE run'.version = run.version + 1
    <3>1. cmd.name \in Nat
      BY DEF CommandType
    <3>2. \A p \in run.linked[Pr] : p \in Nat /\ p < run.version
      BY <1>1 DEF Packaged
    <3> QED
      BY <1>1, <1>2, <2>2, <3>1, <3>2
  <2> QED
    BY <1>1, <2>1, <2>2
<1>4. intents' = intents
  BY DEF Lands
<1> QED
  BY <1>3, <1>4 DEF Packaged

LEMMA DeliveredLands ==
  ASSUME IInv, Packaged, Delivered, NEW cmd \in CommandType, NEW ev, Lands(cmd, ev)
  PROVE  Delivered'
PROOF
<1>1. SUFFICES ASSUME run'.current = Accept
               PROVE  LET i == run'.pullRequest
                      IN /\ i \in DOMAIN intents' /\ intents'[i].status = "completed"
                         /\ intents'[i].package \in run'.linked[Pr]
                         /\ \A p \in run'.linked[Pr] : p <= intents'[i].package
  BY DEF Delivered
<1>2. intents' = intents
  BY DEF Lands
<1>3. CASE Advances(run, cmd, ev, run')
  <2>1. cmd.node = Pr
    BY <1>1, <1>3, Different, Nodes DEF Advances, CommandType
  <2>2. /\ cmd.do = "complete_pr" /\ cmd.name \in run.linked[Pr]
        /\ DeliveryEvidence(run, ev, cmd)
    BY <1>3, <2>1, Different DEF Advances, Supported, Agents, Gates, Attaching
  <2>3. Deliveries(run, ev, cmd) # {}
    <3>1. Cardinality(Deliveries(run, ev, cmd)) = 1
      BY <2>2 DEF DeliveryEvidence
    <3> QED
      BY <3>1, FS_EmptySet
  <2>4. run'.pullRequest \in Deliveries(run, ev, cmd)
    BY <1>3, <2>2, <2>3 DEF Advances
  <2> DEFINE i == run'.pullRequest
  <2>5. /\ i \in DOMAIN ev.intents /\ ev.intents[i].status = "completed"
        /\ ev.intents[i].package = cmd.name /\ ev.intents[i].version = run.version
    BY <2>2, <2>4 DEF Deliveries
  <2>6. i \in DOMAIN intents /\ intents[i] = ev.intents[i]
    BY <2>5 DEF Lands, Evolved
  <2>7. run'.linked[Pr] = run.linked[Pr]
    <3>1. run'.linked[Pr] = run.linked[Pr] \union {cmd.name}
      BY <1>3, <2>1, <2>2, Nodes DEF Advances
    <3> QED
      BY <2>2, <3>1
  <2>8. cmd.name + 1 = run.version
    BY <2>5, <2>6 DEF Packaged
  <2>9. run.linked[Pr] \subseteq Nat /\ cmd.name \in Nat
    BY LandsFields, Nodes DEF RunType, CommandType
  <2>10. \A p \in run.linked[Pr] : p \in Nat /\ p < run.version
    BY <2>9 DEF Packaged
  <2>11. \A p \in run.linked[Pr] : p <= cmd.name
    BY <2>8, <2>9, <2>10
  <2> QED
    BY <1>2, <2>2, <2>5, <2>6, <2>7, <2>11
<1>4. CASE Attaches(run, cmd, ev, run') \/ Completes(run, cmd, ev, run')
  <2>1. /\ run.current = Accept /\ run'.pullRequest = run.pullRequest
        /\ run'.linked[Pr] = run.linked[Pr]
    BY <1>1, <1>4, Different, Nodes DEF Attaches, Completes, LinksOnly
  <2> QED
    BY <1>2, <2>1 DEF Delivered
<1> QED
  BY <1>1, <1>3, <1>4, LandsFields, Different DEF SendsBack, Redesigns, Fails

LEMMA ConcludedLands ==
  ASSUME IInv, NEW cmd \in CommandType, NEW ev, Lands(cmd, ev)
  PROVE  Concluded'
PROOF
<1>1. SUFFICES ASSUME run'.status = "completed"
               PROVE  /\ Completed(Ev') # {} /\ run'.linked[Accept] # {}
                      /\ \A p \in run'.linked[Pr] :
                           intents'[run'.pullRequest].package <= p
  BY DEF Concluded, Completed
<1>2. UNCHANGED <<coding, intents>> /\ Evolved(ev)
  BY DEF Lands
<1>3. Completes(run, cmd, ev, run')
  <2>1. run.status = "completed" => run.current = Accept
    BY DEF IInv, RunInv, Flat
  <2>2. /\ ~SendsBack(run, cmd, run') /\ ~Fails(run, cmd, run')
        /\ ~Advances(run, cmd, ev, run')
    BY <1>1 DEF SendsBack, Fails, Advances
  <2>3. ~Redesigns(run, cmd, run')
    BY <1>1, <2>1, Different DEF Redesigns
  <2>4. ~Attaches(run, cmd, ev, run')
    BY <1>1 DEF Attaches
  <2> QED
    BY <2>2, <2>3, <2>4, LandsFields
<1>4. /\ cmd.do = "approve_acceptance" /\ DeliveryEvidence(run, ev, cmd)
      /\ HasAttachedBundle(run) /\ run'.linked = run.linked
      /\ run'.pullRequest = run.pullRequest
  BY <1>3 DEF Completes
<1>5. Completed(Ev') = Completed(Ev)
  BY <1>2 DEF Completed, Ev
<1>6. Completed(Ev') # {}
  BY <1>2, <1>4, <1>5 DEF DeliveryEvidence, Evolved
<1>7. run'.linked[Accept] # {}
  BY <1>4 DEF HasAttachedBundle
<1>8. Deliveries(run, ev, cmd) # {}
  <2>1. Cardinality(Deliveries(run, ev, cmd)) = 1
    BY <1>4 DEF DeliveryEvidence
  <2> QED
    BY <2>1, FS_EmptySet
<1>9. PICK i : i \in Deliveries(run, ev, cmd)
  BY <1>8
<1>10. /\ i \in DOMAIN ev.intents /\ ev.intents[i].status = "completed"
       /\ run.pullRequest = i
       /\ \A p \in run.linked[Pr] : ev.intents[i].package <= p
  BY <1>4, <1>9 DEF Deliveries
<1>11. intents[i] = ev.intents[i]
  BY <1>2, <1>10 DEF Evolved
<1> QED
  BY <1>2, <1>4, <1>6, <1>7, <1>10, <1>11

LEMMA EvidenceLands ==
  ASSUME IInv, GateInv, RunEvidence, NEW cmd \in CommandType, NEW ev, Lands(cmd, ev)
  PROVE  RunEvidence'
PROOF
<1>1. Approved' /\ DesignLinked' /\ Tested'
  BY ApprovedLands, DesignLands, TestedLands DEF RunEvidence
<1>2. Packaged' /\ Delivered' /\ Concluded'
  BY PackagedLands, DeliveredLands, ConcludedLands DEF RunEvidence
<1> QED
  BY <1>1, <1>2 DEF RunEvidence

-----------------------------------------------------------------------------
(* A completed coding run and a completed delivery stay what they are, and *)
(* every delivery is of the package of its version.                        *)

IntentsMatch == \A i \in DOMAIN intents : intents[i].package + 1 = intents[i].version

Kept ==
  /\ Completed(Ev) \subseteq Completed(Ev')
  /\ \A i \in DOMAIN intents :
       intents[i].status = "completed" =>
         i \in DOMAIN intents' /\ intents'[i] = intents[i]

LEMMA CodingKept ==
  ASSUME NEW c, NEW status, coding' = [coding EXCEPT ![c].status = status],
         c \in DOMAIN coding => coding[c].status # "completed"
  PROVE  Completed(Ev) \subseteq Completed(Ev')
PROOF
<1>1. DOMAIN coding' = DOMAIN coding
  OBVIOUS
<1>2. \A d \in DOMAIN coding : d # c => coding'[d] = coding[d]
  OBVIOUS
<1>3. Ev.coding = coding /\ Ev'.coding = coding'
  BY DEF Ev
<1> QED
  BY <1>1, <1>2, <1>3 DEF Completed

LEMMA IntentsEdited ==
  ASSUME IInv, IntentsMatch, NEW i, NEW status, NEW edited,
         i \in DOMAIN intents => intents[i].status # "completed",
         edited = [intents EXCEPT ![i].status = status]
  PROVE  /\ DOMAIN edited = DOMAIN intents
         /\ \A j \in DOMAIN intents :
              intents[j].status = "completed" => edited[j] = intents[j]
         /\ \A j \in DOMAIN intents : edited[j].package + 1 = edited[j].version
PROOF
<1>1. DOMAIN edited = DOMAIN intents
  OBVIOUS
<1>2. \A j \in DOMAIN intents : j # i => edited[j] = intents[j]
  OBVIOUS
<1>3. intents \in Seq(IntentType)
  BY DEF IInv, EvidenceInv
<1>4. \A j \in DOMAIN intents : intents[j] \in IntentType
  BY <1>3, ElementOfSeq, LenProperties
<1>5. ASSUME i \in DOMAIN intents
      PROVE  edited[i].package + 1 = edited[i].version
  <2>1. edited[i] = [intents[i] EXCEPT !.status = status]
    BY <1>5
  <2>2. intents[i] \in IntentType
    BY <1>4, <1>5
  <2>3. edited[i].package = intents[i].package /\ edited[i].version = intents[i].version
    BY <2>1, <2>2 DEF IntentType
  <2> QED
    BY <1>5, <2>3 DEF IntentsMatch
<1>6. \A j \in DOMAIN intents : edited[j].package + 1 = edited[j].version
  BY <1>2, <1>5 DEF IntentsMatch
<1>7. \A j \in DOMAIN intents : intents[j].status = "completed" => edited[j] = intents[j]
  BY <1>2
<1> QED
  BY <1>1, <1>6, <1>7

LEMMA IntentsKept ==
  ASSUME IInv, IntentsMatch,
         PrepareDelivery \/ \E i \in DOMAIN intents : ReplaceDelivery(i) \/ FinishDelivery(i)
  PROVE  Kept /\ IntentsMatch'
PROOF
<1>1. Completed(Ev') = Completed(Ev)
  BY DEF PrepareDelivery, ReplaceDelivery, FinishDelivery, Ev, Completed
<1>2. NewIntent.package + 1 = NewIntent.version
  BY DEF NewIntent, IInv, RunInv, RunType
<1>3. CASE PrepareDelivery
  <2>1. intents = <<>> /\ intents' = <<NewIntent>>
    BY <1>3 DEF PrepareDelivery
  <2>2. DOMAIN intents = {} /\ DOMAIN intents' = {1} /\ intents'[1] = NewIntent
    BY <2>1
  <2> QED
    BY <1>1, <1>2, <2>2 DEF Kept, IntentsMatch
<1>4. CASE \E i \in DOMAIN intents : ReplaceDelivery(i)
  <2>1. PICK i \in DOMAIN intents : ReplaceDelivery(i)
    BY <1>4
  <2>0. PICK edited : edited = [intents EXCEPT ![i].status = "ended"]
    OBVIOUS
  <2>2. intents[i].status # "completed" /\ intents' = Append(edited, NewIntent)
    BY <2>0, <2>1 DEF ReplaceDelivery
  <2>3. edited \in Seq(IntentType)
    BY <2>0, IntentTyped
  <2>4. /\ DOMAIN edited = DOMAIN intents
        /\ \A j \in DOMAIN intents :
             intents[j].status = "completed" => edited[j] = intents[j]
        /\ \A j \in DOMAIN intents : edited[j].package + 1 = edited[j].version
    <3>1. i \in DOMAIN intents => intents[i].status # "completed"
      BY <2>2
    <3>2. PICK status : status = "ended"
      OBVIOUS
    <3>3. edited = [intents EXCEPT ![i].status = status]
      BY <2>0, <3>2
    <3> QED
      BY <3>1, <3>3, IntentsEdited DEF IntentsMatch
  <2>5. /\ DOMAIN edited = 1..Len(edited) /\ Len(edited) \in Nat
        /\ DOMAIN intents' = 1..(Len(edited) + 1)
        /\ \A j \in 1..Len(edited) : intents'[j] = edited[j]
        /\ intents'[Len(edited) + 1] = NewIntent
    <3>1. NewIntent \in IntentType
      <4>1. NewIntent.package \in Nat
        <5>1. run.linked[Pr] \subseteq Nat
          BY Nodes DEF IInv, RunInv, RunType
        <5> QED
          BY <2>1, <5>1 DEF ReplaceDelivery, Deliverable
      <4> QED
        BY <4>1 DEF NewIntent, IntentType, IInv, RunInv, RunType
    <3>2. intents' \in Seq(IntentType) /\ Len(intents') = Len(edited) + 1
      BY <2>2, <2>3, <3>1, AppendProperties
    <3> QED
      BY <2>2, <2>3, <3>1, <3>2, AppendProperties, LenProperties
  <2> QED
    BY <1>1, <1>2, <2>4, <2>5 DEF Kept, IntentsMatch
<1>5. CASE \E i \in DOMAIN intents : FinishDelivery(i)
  <2>1. PICK i \in DOMAIN intents, status \in {"completed", "ended"} :
          i \in Pending /\ intents' = [intents EXCEPT ![i].status = status]
    BY <1>5 DEF FinishDelivery
  <2>2. intents[i].status # "completed"
    BY <2>1 DEF Pending
  <2> QED
    BY <1>1, <2>1, <2>2, IntentsEdited DEF Kept, IntentsMatch
<1> QED
  BY <1>3, <1>4, <1>5

LEMMA StepKept ==
  ASSUME IInv, IntentsMatch, [Next]_vars
  PROVE  Kept /\ IntentsMatch'
PROOF
<1>1. CASE PrepareDelivery \/ \E i \in DOMAIN intents : ReplaceDelivery(i) \/ FinishDelivery(i)
  BY <1>1, IntentsKept
<1>2. ASSUME UNCHANGED intents, Completed(Ev) \subseteq Completed(Ev')
      PROVE  Kept /\ IntentsMatch'
  BY <1>2 DEF Kept, IntentsMatch
<1>3. CASE UNCHANGED <<coding, intents>>
  BY <1>2, <1>3 DEF Completed, Ev
<1>4. ASSUME NEW h \in Handlers, StartCoding(h)
      PROVE  Kept /\ IntentsMatch'
  <2>1. coding \in Seq(CodingType)
    BY DEF IInv, EvidenceInv
  <2>2. PICK e \in Engines :
          coding' = Append(coding,
                      [engine |-> e,
                       status |-> IF op[h].read = run.version THEN "active" ELSE "ended"])
    BY <1>4 DEF StartCoding
  <2>3. [engine |-> e, status |-> IF op[h].read = run.version THEN "active" ELSE "ended"]
          \in CodingType
    BY DEF CodingType, Active
  <2>4. /\ DOMAIN coding = 1..Len(coding) /\ Len(coding) \in Nat
        /\ DOMAIN coding' = 1..(Len(coding) + 1)
        /\ \A c \in 1..Len(coding) : coding'[c] = coding[c]
    <3>1. coding' \in Seq(CodingType) /\ Len(coding') = Len(coding) + 1
      BY <2>1, <2>2, <2>3, AppendProperties
    <3> QED
      BY <2>1, <2>2, <2>3, <3>1, AppendProperties, LenProperties
  <2>5. Ev.coding = coding /\ Ev'.coding = coding'
    BY DEF Ev
  <2>6. Completed(Ev) \subseteq Completed(Ev')
    BY <2>4, <2>5 DEF Completed
  <2>7. UNCHANGED intents
    BY <1>4 DEF StartCoding
  <2> QED
    BY <1>2, <2>6, <2>7
<1>5. ASSUME NEW c, NEW status, coding' = [coding EXCEPT ![c].status = status],
             c \in DOMAIN coding => coding[c].status # "completed", UNCHANGED intents
      PROVE  Kept /\ IntentsMatch'
  BY <1>2, <1>5, CodingKept
<1>6. ASSUME NEW h \in Handlers, GiveUp(h) \/ SettleCoding(h)
      PROVE  Kept /\ IntentsMatch'
  BY <1>3, <1>5, <1>6 DEF GiveUp, SettleCoding, Applying
<1>7. ASSUME NEW h \in Handlers, NEW c \in DOMAIN coding,
             FinishNative(h, c) \/ AcceptChanges(h, c)
      PROVE  Kept /\ IntentsMatch'
  BY <1>5, <1>7 DEF FinishNative, AcceptChanges
<1>8. ASSUME NEW c \in DOMAIN coding, OfferChanges(c) \/ EndCoding(c)
      PROVE  Kept /\ IntentsMatch'
  BY <1>5, <1>8 DEF OfferChanges, EndCoding, Active
<1>9. CASE Crash
  <2>1. /\ DOMAIN coding' = DOMAIN coding
        /\ \A c \in DOMAIN coding :
             coding[c].status = "completed" => coding'[c] = coding[c]
    BY <1>9 DEF Crash
  <2>2. Ev.coding = coding /\ Ev'.coding = coding'
    BY DEF Ev
  <2>3. Completed(Ev) \subseteq Completed(Ev')
    BY <2>1, <2>2 DEF Completed
  <2>4. UNCHANGED intents
    BY <1>9 DEF Crash
  <2> QED
    BY <1>2, <2>3, <2>4
<1>10. CASE \/ \E h \in Handlers :
                \/ GenerateStage(h) \/ ReviseDesign(h) \/ ReviewGate(h)
                \/ RunTests(h) \/ SaveTest(h) \/ CreatePackage(h) \/ AdvanceDelivered(h)
                \/ CreateBundle(h) \/ ApproveAcceptance(h) \/ PrepareCoding(h)
                \/ Decide(h) \/ Commit(h)
            \/ ApproveRemotely
            \/ UNCHANGED vars
  <2>1. UNCHANGED <<coding, intents>>
    BY <1>10 DEF GenerateStage, ReviseDesign, ReviewGate, RunTests, SaveTest,
       CreatePackage, AdvanceDelivered, CreateBundle, ApproveAcceptance,
       PrepareCoding, Decide, Commit, Committed, ApproveRemotely, vars, Begin, evidence
  <2> QED
    BY <1>3, <2>1
<1> QED
  BY <1>1, <1>4, <1>6, <1>7, <1>8, <1>9, <1>10 DEF Next

(* The run and what it was decided on are left alone.                      *)
LEMMA EvidenceStands ==
  ASSUME IInv, RunEvidence, Kept, IntentsMatch', UNCHANGED <<run, revision>>,
         UNCHANGED tests \/ run.current = Test
  PROVE  RunEvidence'
PROOF
<1>1. Approved' /\ DesignLinked'
  BY DEF RunEvidence, Approved, DesignLinked
<1>2. Tested'
  <2>1. CASE run.current = Test
    BY <2>1, Different DEF Tested
  <2>2. CASE UNCHANGED tests
    BY <2>2 DEF RunEvidence, Tested, LatestTestPassed, Ev
  <2> QED
    BY <2>1, <2>2
<1>3. Packaged'
  BY DEF RunEvidence, Packaged, IntentsMatch
<1>4. Delivered'
  BY DEF RunEvidence, Delivered, Kept
<1>5. Concluded'
  <2>1. CASE run.status # "completed"
    BY <2>1 DEF Concluded
  <2>2. CASE run.status = "completed"
    <3>1. run.current = Accept
      BY <2>2 DEF IInv, RunInv, Flat
    <3>2. intents'[run.pullRequest] = intents[run.pullRequest]
      BY <3>1 DEF RunEvidence, Delivered, Kept
    <3>3. Completed(Ev') # {}
      BY <2>2 DEF RunEvidence, Concluded, Kept
    <3> QED
      BY <2>2, <3>2, <3>3 DEF RunEvidence, Concluded
  <2> QED
    BY <2>1, <2>2
<1> QED
  BY <1>1, <1>2, <1>3, <1>4, <1>5 DEF RunEvidence

-----------------------------------------------------------------------------
(* What a handler is at: an approval names what its gate is linked to, the *)
(* one test result on its way is the next one, a package is named for a    *)
(* version of the past, and a decision was taken on evidence that is still *)
(* there, each for as long as the run is the one that was read.            *)

Recording(o) == o.cmd.do = "record_test_result"

NamesLinked(o) ==
  o.phase \in {"begun", "decided"} /\ o.cmd.do = "approve_gate" /\ o.read = run.version =>
    o.cmd.name \in run.linked[o.cmd.node]

RecordsNext(o) ==
  IF Recording(o)
  THEN /\ run.current = Test /\ o.cmd.name = Len(tests) + 1
       /\ o.cmd.result \in {"passed", "failed", "saved"}
  ELSE o.cmd.result = "none"

PackagesPast(o) == o.cmd.do = "attach_pr_package" => o.cmd.name <= o.read

DecidedOn(o) ==
  o.phase = "decided" =>
    /\ o.cmd.result # "saved"
    /\ o.read = run.version =>
         \E ev : /\ Permitted(run, o.cmd, ev) /\ o.next = Result(run, o.cmd, ev)
                 /\ Evolved(ev)

Acts(o) == NamesLinked(o) /\ RecordsNext(o) /\ PackagesPast(o) /\ DecidedOn(o)

OneTester == \A h, k \in Handlers : Recording(op[h]) /\ Recording(op[k]) => h = k

OpEvidence == OneTester /\ \A h \in Handlers : Acts(op[h])

LEMMA EvolvedFurther ==
  ASSUME Kept, NEW ev, Evolved(ev)
  PROVE  /\ Completed(ev) \subseteq Completed(Ev')
         /\ \A i \in DOMAIN ev.intents :
              ev.intents[i].status = "completed" =>
                i \in DOMAIN intents' /\ intents'[i] = ev.intents[i]
PROOF
  BY DEF Kept, Evolved

LEMMA EvolvesOn ==
  ASSUME Kept
  PROVE  \A ev : Evolved(ev) => Evolved(ev)'
PROOF
<1>1. SUFFICES ASSUME NEW ev, Evolved(ev) PROVE Evolved(ev)'
  OBVIOUS
<1> QED
  BY <1>1, EvolvedFurther DEF Evolved, Completed, Ev

(* Another handler moves, or the environment does.                         *)
LEMMA OthersAct ==
  ASSUME IInv, GateInv, NEW k \in Handlers, Acts(op[k]), op'[k] = op[k], Kept,
         run' = run \/ Later(run, run'),
         Recording(op[k]) => run'.current = run.current /\ UNCHANGED tests
  PROVE  Acts(op[k])'
PROOF
<1>1. /\ op[k].phase \in {"begun", "decided"} => op[k].read <= run.version
      /\ op[k].read \in Nat /\ run.version \in Nat
  BY DEF GateInv, WritesNext, IInv, OpInv, OpType, RunInv, RunType
<1>2. RecordsNext(op[k])' /\ PackagesPast(op[k])'
  BY DEF Acts, RecordsNext, PackagesPast, Recording
<1>3. CASE run' = run
  <2>1. NamesLinked(op[k])'
    BY <1>3 DEF Acts, NamesLinked
  <2>2. DecidedOn(op[k])'
    BY <1>3, EvolvesOn DEF Acts, DecidedOn
  <2> QED
    BY <1>2, <2>1, <2>2 DEF Acts
<1>4. CASE Later(run, run')
  <2>1. op[k].phase \in {"begun", "decided"} => op[k].read # run'.version
    BY <1>1, <1>4 DEF Later
  <2>2. NamesLinked(op[k])'
    BY <2>1 DEF NamesLinked
  <2>3. DecidedOn(op[k])'
    BY <2>1 DEF Acts, DecidedOn
  <2> QED
    BY <1>2, <2>2, <2>3 DEF Acts
<1> QED
  BY <1>3, <1>4

LEMMA HandlerActs ==
  ASSUME IInv, GateInv, OpEvidence, Kept, run' = run \/ Later(run, run'),
         NEW h \in Handlers, NEW o, op' = [op EXCEPT ![h] = o], Acts(o)',
         Recording(o) => \A k \in Handlers \ {h} : ~Recording(op[k]),
         \A k \in Handlers \ {h} :
           Recording(op[k]) => run'.current = run.current /\ UNCHANGED tests
  PROVE  OpEvidence'
PROOF
<1>1. op'[h] = o /\ \A k \in Handlers \ {h} : op'[k] = op[k]
  BY DEF IInv, OpInv
<1>2. ASSUME NEW k \in Handlers
      PROVE  Acts(op[k])'
  <2>1. CASE k = h
    BY <1>1, <2>1 DEF Acts, NamesLinked, RecordsNext, PackagesPast, DecidedOn, Recording
  <2>2. CASE k # h
    <3>1. op'[k] = op[k] /\ Acts(op[k])
      BY <1>1, <2>2 DEF OpEvidence
    <3> QED
      BY <2>2, <3>1, OthersAct
  <2> QED
    BY <2>1, <2>2
<1>3. OneTester'
  BY <1>1 DEF OpEvidence, OneTester, Recording
<1> QED
  BY <1>2, <1>3 DEF OpEvidence

(* A handler that is done, or has yet to complete a build.                 *)
LEMMA RestActs ==
  ASSUME NEW o, o.phase \notin {"begun", "decided"}, o.cmd.result = "none",
         o.cmd.do \in {"none", "complete_build"}
  PROVE  Acts(o)' /\ ~Recording(o)
PROOF
  BY DEF Acts, NamesLinked, RecordsNext, PackagesPast, DecidedOn, Recording

LEMMA IdleActs ==
  /\ Idle.phase = "idle" /\ Idle.cmd.result = "none" /\ Idle.cmd.do = "none"
PROOF
  BY DEF Idle, Command

LEMMA BeginsActs ==
  ASSUME IInv, GateInv, OpEvidence, Kept, NEW h \in Handlers, NEW cmd,
         op' = [op EXCEPT ![h] = Begun(cmd, run.version)], UNCHANGED <<run, tests>>,
         cmd.do = "approve_gate" => cmd.name \in run.linked[cmd.node],
         cmd.do = "attach_pr_package" => cmd.name <= run.version,
         IF cmd.do = "record_test_result"
         THEN /\ run.current = Test /\ cmd.name = Len(tests) + 1
              /\ cmd.result \in {"passed", "failed", "saved"}
              /\ \A k \in Handlers : ~Recording(op[k])
         ELSE cmd.result = "none"
  PROVE  OpEvidence'
PROOF
<1>1. PICK o : o = Begun(cmd, run.version)
  OBVIOUS
<1>2. o.phase = "begun" /\ o.cmd = cmd /\ o.read = run.version
  BY <1>1 DEF Begun
<1>3. NamesLinked(o)' /\ PackagesPast(o)' /\ DecidedOn(o)' /\ RecordsNext(o)'
  BY <1>2 DEF NamesLinked, PackagesPast, DecidedOn, RecordsNext, Recording
<1>4. Recording(o) => \A k \in Handlers \ {h} : ~Recording(op[k])
  BY <1>2 DEF Recording
<1>5. Acts(o)'
  BY <1>3 DEF Acts
<1> QED
  BY <1>1, <1>4, <1>5, HandlerActs

LEMMA SettingOutActs ==
  ASSUME IInv, GateInv, OpEvidence, Kept, NEW h \in Handlers,
         \/ GenerateStage(h) \/ ReviseDesign(h) \/ ReviewGate(h)
         \/ RunTests(h) \/ CreatePackage(h) \/ AdvanceDelivered(h)
         \/ CreateBundle(h) \/ ApproveAcceptance(h) \/ PrepareCoding(h)
  PROVE  OpEvidence'
PROOF
<1>1. ASSUME NEW cmd, Begin(h, cmd), cmd.result = "none",
             cmd.do \notin {"approve_gate", "attach_pr_package", "record_test_result"}
      PROVE  OpEvidence'
  BY <1>1, BeginsActs DEF Begin, evidence
<1>2. CASE GenerateStage(h)
  BY <1>1, <1>2 DEF GenerateStage, Command
<1>3. CASE ReviseDesign(h)
  BY <1>1, <1>3 DEF ReviseDesign, Command
<1>4. CASE ReviewGate(h)
  <2>1. PICK n \in Gates, do \in {"approve_gate", "request_changes"},
             name \in run.linked[run.current] :
               Here(n) /\ Begin(h, Command(do, n, name, "none"))
    BY <1>4 DEF ReviewGate
  <2>2. PICK cmd : cmd = Command(do, n, name, "none")
    OBVIOUS
  <2>3. /\ cmd.do = do /\ cmd.node = n /\ cmd.name = name /\ cmd.result = "none"
        /\ n = run.current
    BY <2>1, <2>2 DEF Command, Here
  <2>4. op' = [op EXCEPT ![h] = Begun(cmd, run.version)] /\ UNCHANGED <<run, tests>>
    BY <2>1, <2>2 DEF Begin, evidence
  <2> QED
    BY <2>3, <2>4, BeginsActs
<1>5. CASE RunTests(h)
  <2>1. PICK result \in {"passed", "failed", "saved"} :
               Begin(h, Command("record_test_result", Test, Len(tests) + 1, result))
    BY <1>5 DEF RunTests
  <2>2. PICK cmd : cmd = Command("record_test_result", Test, Len(tests) + 1, result)
    OBVIOUS
  <2>3. /\ cmd.do = "record_test_result" /\ cmd.name = Len(tests) + 1
        /\ cmd.result = result
    BY <2>2 DEF Command
  <2>4. op' = [op EXCEPT ![h] = Begun(cmd, run.version)] /\ UNCHANGED <<run, tests>>
    BY <2>1, <2>2 DEF Begin, evidence
  <2>5. run.current = Test /\ \A k \in Handlers : ~Recording(op[k])
    BY <1>5 DEF RunTests, Doing, Recording
  <2> QED
    BY <2>3, <2>4, <2>5, BeginsActs
<1>6. CASE CreatePackage(h)
  <2>1. PICK cmd : cmd = Command("attach_pr_package", Pr, run.version, "none")
    OBVIOUS
  <2>2. cmd.do = "attach_pr_package" /\ cmd.name = run.version /\ cmd.result = "none"
    BY <2>1 DEF Command
  <2>3. op' = [op EXCEPT ![h] = Begun(cmd, run.version)] /\ UNCHANGED <<run, tests>>
    BY <1>6, <2>1 DEF CreatePackage, Begin, evidence
  <2>4. run.version <= run.version
    BY DEF IInv, RunInv, RunType
  <2> QED
    BY <2>2, <2>3, <2>4, BeginsActs
<1>7. CASE AdvanceDelivered(h)
  BY <1>1, <1>7 DEF AdvanceDelivered, Command
<1>8. CASE CreateBundle(h)
  BY <1>1, <1>8 DEF CreateBundle, Command
<1>9. CASE ApproveAcceptance(h)
  BY <1>1, <1>9 DEF ApproveAcceptance, Command
<1>10. CASE PrepareCoding(h)
  BY <1>1, <1>10 DEF PrepareCoding, Command
<1> QED
  BY <1>2, <1>3, <1>4, <1>5, <1>6, <1>7, <1>8, <1>9, <1>10

LEMMA CompleteBuildActs ==
  ASSUME IInv, GateInv, OpEvidence, Kept, NEW h \in Handlers, NEW c \in DOMAIN coding,
         FinishNative(h, c) \/ AcceptChanges(h, c)
  PROVE  OpEvidence'
PROOF
<1>1. PICK cmd : cmd = Command("complete_build", Build, c, "none")
  OBVIOUS
<1>2. cmd.do = "complete_build" /\ cmd.result = "none"
  BY <1>1 DEF Command
<1>3. op' = [op EXCEPT ![h] = Begun(cmd, run.version)] /\ UNCHANGED <<run, tests>>
  BY <1>1 DEF FinishNative, AcceptChanges, CompleteBuild
<1> QED
  BY <1>2, <1>3, BeginsActs

LEMMA DecideActs ==
  ASSUME IInv, GateInv, OpEvidence, Kept, NEW h \in Handlers, Decide(h)
  PROVE  OpEvidence'
PROOF
<1>1. PICK o : o = Decided(op[h])
  OBVIOUS
<1>2. PICK cmd : cmd = op[h].cmd
  OBVIOUS
<1>3. PICK ev : ev = Ev
  OBVIOUS
<1>4. op[h] \in OpType
  BY DEF IInv, OpInv
<1>5. /\ o.phase = "decided" /\ o.cmd = cmd /\ o.read = run.version
      /\ o.next = Result(run, cmd, ev)
  BY <1>1, <1>2, <1>3, <1>4 DEF Decided, OpType
<1>6. /\ op[h].phase = "begun" /\ cmd.result # "saved" /\ Permitted(run, cmd, ev)
      /\ cmd.do # "complete_build" => op[h].read = run.version
      /\ op' = [op EXCEPT ![h] = o] /\ UNCHANGED <<run, tests>>
  BY <1>1, <1>2, <1>3 DEF Decide, evidence
<1>7. Acts(op[h])
  BY DEF OpEvidence
<1>8. NamesLinked(o)' /\ PackagesPast(o)' /\ RecordsNext(o)'
  BY <1>2, <1>5, <1>6, <1>7 DEF Acts, NamesLinked, PackagesPast, RecordsNext, Recording
<1>9. DecidedOn(o)'
  <2>1. Evolved(ev)
    BY <1>3 DEF Evolved, Ev
  <2>2. Evolved(ev)'
    BY <2>1, EvolvesOn
  <2> QED
    BY <1>5, <1>6, <2>2 DEF DecidedOn
<1>10. Acts(o)'
  BY <1>8, <1>9 DEF Acts
<1>11. Recording(o) => \A k \in Handlers \ {h} : ~Recording(op[k])
  BY <1>2, <1>5 DEF OpEvidence, OneTester, Recording
<1> QED
  BY <1>6, <1>10, <1>11, HandlerActs

LEMMA CommitLands ==
  ASSUME IInv, GateInv, OpEvidence, NEW h \in Handlers, Commit(h)
  PROVE  /\ op[h].cmd \in CommandType
         /\ \E ev : Lands(op[h].cmd, ev)
PROOF
<1>1. PICK cmd : cmd = op[h].cmd
  OBVIOUS
<1>2. cmd \in CommandType
  BY <1>1 DEF IInv, OpInv, OpType
<1>3. /\ op[h].phase = "decided" /\ op[h].read = run.version
      /\ revision' = RevisionAfter(cmd) /\ UNCHANGED <<coding, intents>>
      /\ tests' = IF cmd.result \in {"passed", "failed"}
                  THEN Append(tests, cmd.result) ELSE tests
  BY <1>1 DEF Commit, Committed
<1>4. run' = op[h].next /\ MovesOn(run, cmd, run')
  BY <1>1, CommitMovesOn
<1>5. Acts(op[h])
  BY DEF OpEvidence
<1>6. /\ cmd.result # "saved"
      /\ \E ev : /\ Permitted(run, cmd, ev) /\ run' = Result(run, cmd, ev)
                 /\ Evolved(ev)
  BY <1>1, <1>3, <1>4, <1>5 DEF Acts, DecidedOn
<1>7. PICK ev : /\ Permitted(run, cmd, ev) /\ run' = Result(run, cmd, ev)
                /\ Evolved(ev)
  BY <1>6
<1>8. /\ cmd.do = "approve_gate" => cmd.name \in run.linked[cmd.node]
      /\ cmd.do = "attach_pr_package" => cmd.name <= run.version
  BY <1>1, <1>3, <1>5 DEF Acts, NamesLinked, PackagesPast
<1>9. IF cmd.do = "record_test_result"
      THEN /\ cmd.name = Len(tests) + 1 /\ cmd.result \in {"passed", "failed"}
           /\ tests' = Append(tests, cmd.result)
      ELSE tests' = tests
  BY <1>1, <1>3, <1>5, <1>6 DEF Acts, RecordsNext, Recording
<1>10. Lands(cmd, ev)
  BY <1>3, <1>4, <1>7, <1>8, <1>9 DEF Lands
<1> QED
  BY <1>1, <1>2, <1>10

(* Nothing but a test result moves a run on from its tests.                *)
LEMMA TestsStay ==
  ASSUME IInv, NEW cmd \in CommandType, NEW ev, Lands(cmd, ev),
         run.current = Test, cmd.do # "record_test_result"
  PROVE  run'.current = run.current /\ UNCHANGED tests
PROOF
<1>1. tests' = tests
  BY DEF Lands
<1>2. ~SendsBack(run, cmd, run') /\ ~Redesigns(run, cmd, run')
      /\ ~Completes(run, cmd, ev, run') /\ ~Fails(run, cmd, run')
  BY Different DEF SendsBack, Redesigns, Completes, Fails
<1>3. ~Advances(run, cmd, ev, run')
  <2>1. SUFFICES ASSUME Advances(run, cmd, ev, run') PROVE FALSE
    OBVIOUS
  <2>2. cmd.node = Test /\ Supported(run, cmd, ev)
    BY <2>1 DEF Advances
  <2> QED
    BY <2>2, Different DEF Supported, Agents, Gates
<1>4. Attaches(run, cmd, ev, run')
  BY <1>2, <1>3, LandsFields
<1> QED
  BY <1>1, <1>4 DEF Attaches

LEMMA CommitActs ==
  ASSUME IInv, GateInv, OpEvidence, Kept, NEW h \in Handlers, Commit(h)
  PROVE  OpEvidence'
PROOF
<1>1. PICK cmd : cmd = op[h].cmd
  OBVIOUS
<1>2. PICK ev : Lands(cmd, ev)
  BY <1>1, CommitLands
<1>3. cmd \in CommandType
  BY <1>1, CommitLands
<1>4. PICK o : o = IF Applying(cmd)
                   THEN [Idle EXCEPT !.phase = "settling", !.cmd = cmd] ELSE Idle
  OBVIOUS
<1>5. op' = [op EXCEPT ![h] = o]
  BY <1>1, <1>4 DEF Commit, Committed
<1>6. Acts(o)' /\ ~Recording(o)
  <2>1. o.phase \notin {"begun", "decided"} /\ o.cmd.result = "none"
        /\ o.cmd.do \in {"none", "complete_build"}
    <3>1. CASE Applying(cmd)
      <4>1. Acts(op[h]) /\ cmd.do = "complete_build"
        BY <3>1 DEF OpEvidence, Applying
      <4>2. cmd.result = "none"
        BY <1>1, <4>1 DEF Acts, RecordsNext, Recording
      <4>3. o.phase = "settling" /\ o.cmd = cmd
        BY <1>4, <3>1 DEF Idle
      <4> QED
        BY <4>1, <4>2, <4>3
    <3>2. CASE ~Applying(cmd)
      BY <1>4, <3>2, IdleActs
    <3> QED
      BY <3>1, <3>2
  <2> QED
    BY <2>1, RestActs
<1>7. run' = run \/ Later(run, run')
  BY <1>2 DEF Lands, MovesOn
<1>8. ASSUME NEW k \in Handlers \ {h}, Recording(op[k])
      PROVE  run'.current = run.current /\ UNCHANGED tests
  <2>1. run.current = Test
    BY <1>8 DEF OpEvidence, Acts, RecordsNext
  <2>2. cmd.do # "record_test_result"
    BY <1>1, <1>8 DEF OpEvidence, OneTester, Recording
  <2> QED
    BY <1>2, <1>3, <2>1, <2>2, TestsStay
<1> QED
  BY <1>5, <1>6, <1>7, <1>8, HandlerActs

LEMMA RemoteLands ==
  ASSUME IInv, ApproveRemotely
  PROVE  \E cmd, ev :
           /\ cmd \in CommandType /\ Lands(cmd, ev) /\ cmd.do = "approve_gate"
PROOF
<1>1. PICK n \in Gates : \E name \in run.linked[n] :
        LET cmd == Command("approve_gate", n, name, "none")
        IN /\ Allowed(run, cmd, Ev)
           /\ run' = Normalized(Applied(run, cmd, Ev))
           /\ revision' = RevisionAfter(cmd)
  BY DEF ApproveRemotely
<1>2. PICK name \in run.linked[n] :
        LET cmd == Command("approve_gate", n, name, "none")
        IN /\ Allowed(run, cmd, Ev)
           /\ run' = Normalized(Applied(run, cmd, Ev))
           /\ revision' = RevisionAfter(cmd)
  BY <1>1
<1>3. PICK cmd : cmd = Command("approve_gate", n, name, "none")
  OBVIOUS
<1>4. PICK ev : ev = Ev
  OBVIOUS
<1>5. /\ Allowed(run, cmd, ev) /\ run' = Normalized(Applied(run, cmd, ev))
      /\ revision' = RevisionAfter(cmd)
  BY <1>2, <1>3, <1>4
<1>6. /\ cmd.do = "approve_gate" /\ cmd.node = n /\ cmd.name = name
      /\ cmd.result = "none"
  BY <1>3 DEF Command
<1>7. run \in RunType /\ Flat(run) /\ DOMAIN ev.intents \subseteq Nat
  BY <1>4 DEF IInv, RunInv, EvidenceInv, Ev
<1>8. cmd \in CommandType
  <2>1. n \in Node /\ name \in Nat
    BY <1>7, Nodes DEF Gates, RunType
  <2> QED
    BY <1>3, <2>1, CommandTyped DEF Commands
<1>9. Permitted(run, cmd, ev) /\ Applied(run, cmd, ev) = Result(run, cmd, ev)
  BY <1>5, <1>6 DEF Permitted, Result
<1>10. Later(run, Applied(run, cmd, ev))
  BY <1>5, <1>6, <1>7, <1>8, AppliedMovesOn DEF MovesOn, Attaching
<1>11. run' = Result(run, cmd, ev) /\ MovesOn(run, cmd, run')
  BY <1>5, <1>9, <1>10, FlatIsNormal DEF Later, MovesOn
<1>12. Evolved(ev)
  BY <1>4 DEF Evolved, Ev
<1>13. UNCHANGED <<coding, tests, intents>>
  BY ApproveRemotelyMovesOn
<1>14. Lands(cmd, ev)
  BY <1>2, <1>5, <1>6, <1>9, <1>11, <1>12, <1>13 DEF Lands
<1> QED
  BY <1>6, <1>8, <1>14

LEMMA RemoteActs ==
  ASSUME IInv, GateInv, OpEvidence, Kept, ApproveRemotely
  PROVE  OpEvidence'
PROOF
<1>1. PICK cmd, ev : cmd \in CommandType /\ Lands(cmd, ev) /\ cmd.do = "approve_gate"
  BY RemoteLands
<1>2. op' = op /\ Later(run, run')
  BY ApproveRemotelyMovesOn
<1>3. ASSUME NEW k \in Handlers
      PROVE  Acts(op[k])'
  <2>1. Acts(op[k]) /\ op'[k] = op[k]
    BY <1>2 DEF OpEvidence
  <2>2. ASSUME Recording(op[k])
        PROVE  run'.current = run.current /\ UNCHANGED tests
    <3>1. run.current = Test
      BY <2>1, <2>2 DEF Acts, RecordsNext
    <3> QED
      BY <1>1, <3>1, TestsStay
  <2> QED
    BY <1>2, <2>1, <2>2, OthersAct
<1>4. OneTester'
  BY <1>2 DEF OpEvidence, OneTester, Recording
<1> QED
  BY <1>3, <1>4 DEF OpEvidence

LEMMA HandlerEndsActs ==
  ASSUME IInv, GateInv, OpEvidence, Kept, NEW h \in Handlers,
         SaveTest(h) \/ GiveUp(h) \/ StartCoding(h) \/ SettleCoding(h)
  PROVE  OpEvidence' /\ (UNCHANGED tests \/ run.current = Test)
PROOF
<1>1. op' = [op EXCEPT ![h] = Idle] /\ UNCHANGED run
  BY DEF SaveTest, GiveUp, StartCoding, SettleCoding
<1>2. PICK o : o = Idle
  OBVIOUS
<1>3. Acts(o)' /\ ~Recording(o)
  BY <1>2, IdleActs, RestActs
<1>4. UNCHANGED tests \/ Recording(op[h])
  <2>1. CASE SaveTest(h)
    <3>1. Acts(op[h]) /\ op[h].cmd.result = "saved"
      BY <2>1 DEF OpEvidence, SaveTest
    <3> QED
      BY <3>1 DEF Acts, RecordsNext
  <2>2. CASE ~SaveTest(h)
    BY <2>2 DEF GiveUp, StartCoding, SettleCoding
  <2> QED
    BY <2>1, <2>2
<1>5. \A k \in Handlers \ {h} :
        Recording(op[k]) => run'.current = run.current /\ UNCHANGED tests
  BY <1>1, <1>4 DEF OpEvidence, OneTester
<1>6. OpEvidence'
  BY <1>1, <1>2, <1>3, <1>5, HandlerActs
<1>7. Recording(op[h]) => run.current = Test
  BY DEF OpEvidence, Acts, RecordsNext
<1> QED
  BY <1>4, <1>6, <1>7

LEMMA StillActs ==
  ASSUME IInv, GateInv, OpEvidence, Kept,
         \/ UNCHANGED <<run, tests, op>>
         \/ Crash
  PROVE  OpEvidence'
PROOF
<1>1. CASE UNCHANGED <<run, tests, op>>
  <2>1. \A k \in Handlers : Acts(op[k]) /\ op'[k] = op[k]
    BY <1>1 DEF OpEvidence
  <2>2. \A k \in Handlers : Acts(op[k])'
    BY <1>1, <2>1, OthersAct
  <2>3. OneTester'
    BY <1>1 DEF OpEvidence, OneTester, Recording
  <2> QED
    BY <2>2, <2>3 DEF OpEvidence
<1>2. CASE Crash
  <2>1. PICK o : o = Idle
    OBVIOUS
  <2>2. Acts(o)' /\ ~Recording(o)
    BY <2>1, IdleActs, RestActs
  <2>3. \A k \in Handlers : op'[k] = o
    BY <1>2, <2>1 DEF Crash
  <2>4. \A k \in Handlers : Acts(op[k])'
    BY <2>2, <2>3 DEF Acts, NamesLinked, RecordsNext, PackagesPast, DecidedOn, Recording
  <2>5. OneTester'
    BY <2>2, <2>3 DEF OneTester, Recording
  <2> QED
    BY <2>4, <2>5 DEF OpEvidence
<1> QED
  BY <1>1, <1>2

LEMMA StepEvidence ==
  ASSUME IInv, GateInv, RunEvidence, OpEvidence, [Next]_vars
  PROVE  RunEvidence' /\ OpEvidence'
PROOF
<1>1. Kept /\ IntentsMatch'
  BY StepKept DEF RunEvidence, Packaged, IntentsMatch
<1>2. ASSUME NEW h \in Handlers,
             \/ GenerateStage(h) \/ ReviseDesign(h) \/ ReviewGate(h)
             \/ RunTests(h) \/ CreatePackage(h) \/ AdvanceDelivered(h)
             \/ CreateBundle(h) \/ ApproveAcceptance(h) \/ PrepareCoding(h)
      PROVE  RunEvidence' /\ OpEvidence'
  <2>1. UNCHANGED <<run, revision, tests>>
    BY <1>2 DEF GenerateStage, ReviseDesign, ReviewGate, RunTests, CreatePackage,
       AdvanceDelivered, CreateBundle, ApproveAcceptance, PrepareCoding, Begin, evidence
  <2> QED
    BY <1>1, <1>2, <2>1, SettingOutActs, EvidenceStands
<1>3. ASSUME NEW h \in Handlers, Decide(h)
      PROVE  RunEvidence' /\ OpEvidence'
  <2>1. UNCHANGED <<run, revision, tests>>
    BY <1>3 DEF Decide, evidence
  <2> QED
    BY <1>1, <1>3, <2>1, DecideActs, EvidenceStands
<1>4. ASSUME NEW h \in Handlers, Commit(h)
      PROVE  RunEvidence' /\ OpEvidence'
  <2>1. PICK cmd, ev : cmd \in CommandType /\ Lands(cmd, ev)
    BY <1>4, CommitLands
  <2> QED
    BY <1>1, <1>4, <2>1, CommitActs, EvidenceLands
<1>5. CASE ApproveRemotely
  <2>1. PICK cmd, ev : cmd \in CommandType /\ Lands(cmd, ev)
    BY <1>5, RemoteLands
  <2> QED
    BY <1>1, <1>5, <2>1, RemoteActs, EvidenceLands
<1>6. ASSUME NEW h \in Handlers,
             SaveTest(h) \/ GiveUp(h) \/ StartCoding(h) \/ SettleCoding(h)
      PROVE  RunEvidence' /\ OpEvidence'
  <2>1. UNCHANGED <<run, revision>>
    BY <1>6 DEF SaveTest, GiveUp, StartCoding, SettleCoding
  <2> QED
    BY <1>1, <1>6, <2>1, HandlerEndsActs, EvidenceStands
<1>7. ASSUME NEW h \in Handlers, NEW c \in DOMAIN coding,
             FinishNative(h, c) \/ AcceptChanges(h, c)
      PROVE  RunEvidence' /\ OpEvidence'
  <2>1. UNCHANGED <<run, revision, tests>>
    BY <1>7 DEF FinishNative, AcceptChanges
  <2> QED
    BY <1>1, <1>7, <2>1, CompleteBuildActs, EvidenceStands
<1>8. CASE \/ \E c \in DOMAIN coding : OfferChanges(c) \/ EndCoding(c)
           \/ PrepareDelivery
           \/ \E i \in DOMAIN intents : ReplaceDelivery(i) \/ FinishDelivery(i)
           \/ UNCHANGED vars
  <2>1. UNCHANGED <<run, revision, tests, op>>
    BY <1>8 DEF OfferChanges, EndCoding, PrepareDelivery, ReplaceDelivery,
                FinishDelivery, vars
  <2> QED
    BY <1>1, <2>1, StillActs, EvidenceStands
<1>9. CASE Crash
  <2>1. UNCHANGED <<run, revision, tests>>
    BY <1>9 DEF Crash
  <2> QED
    BY <1>1, <1>9, <2>1, StillActs, EvidenceStands
<1> QED
  BY <1>2, <1>3, <1>4, <1>5, <1>6, <1>7, <1>8, <1>9 DEF Next

LEMMA InitEvidence ==
  ASSUME Init
  PROVE  RunEvidence /\ OpEvidence
PROOF
<1>1. /\ run.current = Clarify /\ run.status = "clarifying"
      /\ \A n \in Node : run.linked[n] = {}
      /\ intents = <<>>
  BY DEF Init, NewRun
<1>2. run.current = 1 /\ run.linked[Pr] = {} /\ run.linked[DesignGate] = {}
      /\ DOMAIN intents = {}
  BY <1>1, Different, Nodes
<1>3. RunEvidence
  BY <1>1, <1>2, Different
  DEF RunEvidence, Approved, DesignLinked, Tested, Packaged, Delivered, Concluded
<1>4. \A h \in Handlers : op[h] = Idle
  BY DEF Init
<1>5. \A h \in Handlers : Acts(op[h]) /\ ~Recording(op[h])
  BY <1>4, IdleActs
  DEF Acts, NamesLinked, RecordsNext, PackagesPast, DecidedOn, Recording
<1> QED
  BY <1>3, <1>5 DEF OpEvidence, OneTester

(* The inductive invariant, with all it takes to know what a run rests on. *)
THEOREM EvidenceInvariantHolds ==
  Spec => [](IInv /\ GateInv /\ RunEvidence /\ OpEvidence)
PROOF
<1>1. Init => IInv /\ GateInv /\ RunEvidence /\ OpEvidence
  BY InitInv, GateInit, InitEvidence
<1>2. IInv /\ GateInv /\ RunEvidence /\ OpEvidence /\ [Next]_vars
        => (IInv /\ GateInv /\ RunEvidence /\ OpEvidence)'
  BY StepInv, StepGate, StepEvidence
<1> QED
  BY <1>1, <1>2, PTL DEF Spec

(* A completed run rests on its evidence: nothing an approval, a test or a *)
(* delivery stood for was lost or replaced between its check and the       *)
(* completion, whichever handlers were at work in between.                 *)
THEOREM RunAcceptedOnEvidence == Spec => []AcceptedOnEvidence
PROOF
<1>1. ASSUME IInv, RunEvidence
      PROVE  AcceptedOnEvidence
  <2>1. SUFFICES ASSUME run.status = "completed"
                 PROVE  /\ revision[Len(revision)] = "approved"
                        /\ Completed(Ev) # {}
                        /\ LatestTestPassed(run, Ev)
                        /\ intents[run.pullRequest].status = "completed"
                        /\ run.linked[Pr] = {intents[run.pullRequest].package}
                        /\ run.linked[Accept] # {}
    BY DEF AcceptedOnEvidence
  <2>2. run.current = Accept
    BY <1>1, <2>1 DEF IInv, RunInv, Flat
  <2>3. revision[Len(revision)] = "approved" /\ LatestTestPassed(run, Ev)
    BY <1>1, <2>2, Different DEF RunEvidence, Approved, Tested
  <2>4. Completed(Ev) # {} /\ run.linked[Accept] # {}
    BY <1>1, <2>1 DEF RunEvidence, Concluded
  <2>5. PICK package : package = intents[run.pullRequest].package
    OBVIOUS
  <2>6. /\ intents[run.pullRequest].status = "completed"
        /\ package \in run.linked[Pr]
        /\ \A p \in run.linked[Pr] : p <= package /\ package <= p
    BY <1>1, <2>1, <2>2, <2>5 DEF RunEvidence, Delivered, Concluded
  <2>7. run.linked[Pr] \subseteq Nat
    BY <1>1, Nodes DEF IInv, RunInv, RunType
  <2>8. run.linked[Pr] = {package}
    <3>1. \A p \in run.linked[Pr] : p = package
      BY <2>6, <2>7
    <3> QED
      BY <2>6, <3>1
  <2> QED
    BY <2>3, <2>4, <2>5, <2>6, <2>8
<1>2. IInv /\ RunEvidence => AcceptedOnEvidence
  BY <1>1
<1> QED
  BY <1>2, EvidenceInvariantHolds, PTL

-----------------------------------------------------------------------------
(* How a gate is passed.                                                   *)

PassedFor(g, name) ==
  /\ name \in run'.linked[g] /\ run'.linked[g] = {name}
  /\ g = ClarifyGate => revision'[name] = "approved"

LEMMA PassesGate ==
  ASSUME IInv, GateInv, RunEvidence, NEW cmd \in CommandType, NEW ev, Lands(cmd, ev),
         NEW g \in Gates, run.at[g] # "success", run'.at[g] = "success"
  PROVE  PassedFor(g, cmd.name)
PROOF
<1>1. Advances(run, cmd, ev, run')
  <2>1. ~SendsBack(run, cmd, run')
    BY DEF SendsBack, Gates
  <2>2. /\ ~Redesigns(run, cmd, run') /\ ~Attaches(run, cmd, ev, run')
        /\ ~Completes(run, cmd, ev, run') /\ ~Fails(run, cmd, run')
    BY DEF Redesigns, Attaches, Completes, Fails
  <2> QED
    BY <2>1, <2>2, LandsFields
<1>2. g \in Node
  BY Nodes DEF Gates
<1>3. cmd.node = g /\ run.current = g
  <2>1. g # cmd.node + 1
    BY <1>1 DEF Advances
  <2>2. g = cmd.node
    BY <1>1, <1>2, <2>1 DEF Advances
  <2> QED
    BY <1>1, <2>2 DEF Advances
<1>4. cmd.do = "approve_gate"
  <2>1. Supported(run, cmd, ev) /\ cmd.node \in {2, 4}
    BY <1>1, <1>3, Different DEF Advances, Gates
  <2> QED
    BY <2>1, Different DEF Supported, Agents
<1>5. cmd.name \in run.linked[g]
  BY <1>3, <1>4 DEF Lands
<1>6. run'.linked[g] = run.linked[g]
  <2>1. g # cmd.node + 1
    BY <1>1 DEF Advances
  <2>2. run'.linked[g] = run.linked[g] \union {}
    BY <1>1, <1>2, <1>4, <2>1 DEF Advances
  <2> QED
    BY <2>2
<1>7. CASE g = ClarifyGate
  <2>1. /\ Len(revision) > 0 /\ run.linked[g] = {Len(revision)}
        /\ cmd.name = Len(revision)
    BY <1>3, <1>5, <1>7 DEF GateInv, GateLinked
  <2>2. revision' = [revision EXCEPT ![cmd.name] = "approved"]
    BY <1>3, <1>4, <1>7 DEF Lands, RevisionAfter
  <2>3. DOMAIN revision = 1..Len(revision) /\ Len(revision) \in Nat
    BY LenProperties DEF IInv, EvidenceInv
  <2>4. revision'[cmd.name] = "approved"
    BY <2>1, <2>2, <2>3
  <2> QED
    BY <1>5, <1>6, <2>1, <2>4 DEF PassedFor
<1>8. CASE g = DesignGate
  <2>1. PICK name \in Nat : run.linked[g] = {name}
    <3>1. run.current >= DesignGate
      BY <1>3, <1>8, Different
    <3> QED
      BY <1>8, <3>1 DEF RunEvidence, DesignLinked
  <2> QED
    BY <1>5, <1>6, <1>8, <2>1, Different DEF PassedFor
<1> QED
  BY <1>7, <1>8 DEF Gates

(* A gate is passed for the one artifact that was linked to it when the    *)
(* approval was committed, and the approval named that artifact: whatever  *)
(* was revised or replaced while the user looked at it.                    *)
THEOREM GatesApproveWhatWasSeen == Spec => ApprovesWhatWasSeen
PROOF
<1> DEFINE Seen(g) ==
      \E name \in run'.linked[g] :
        /\ run'.linked[g] = {name}
        /\ g = ClarifyGate => revision'[name] = "approved"
        /\ \A h \in Handlers : op'[h] # op[h] => op[h].cmd.name = name
<1>1. ASSUME IInv, GateInv, RunEvidence, OpEvidence, [Next]_vars,
             NEW g \in Gates, run.at[g] # "success", run'.at[g] = "success"
      PROVE  Seen(g)
  <2>1. \/ \E h \in Handlers : Commit(h)
        \/ ApproveRemotely
        \/ run' = run
    BY <1>1 DEF Next, vars, GenerateStage, ReviseDesign, ReviewGate, RunTests,
       SaveTest, CreatePackage, AdvanceDelivered, CreateBundle,
       ApproveAcceptance, Decide, GiveUp, PrepareCoding, StartCoding,
       SettleCoding, FinishNative, AcceptChanges, OfferChanges, EndCoding,
       PrepareDelivery, ReplaceDelivery, FinishDelivery, Crash, Begin
  <2>2. ASSUME NEW h \in Handlers, Commit(h)
        PROVE  Seen(g)
    <3>1. PICK cmd : cmd = op[h].cmd
      OBVIOUS
    <3>2. cmd \in CommandType /\ \E ev : Lands(cmd, ev)
      BY <1>1, <2>2, <3>1, CommitLands
    <3>3. PassedFor(g, cmd.name)
      BY <1>1, <3>2, PassesGate
    <3>4. \A k \in Handlers : op'[k] # op[k] => k = h
      BY <1>1, <2>2 DEF Commit, Committed, IInv, OpInv
    <3> QED
      BY <3>1, <3>3, <3>4 DEF PassedFor
  <2>3. CASE ApproveRemotely
    <3>1. PICK cmd, ev : cmd \in CommandType /\ Lands(cmd, ev)
      BY <1>1, <2>3, RemoteLands
    <3>2. PassedFor(g, cmd.name)
      BY <1>1, <3>1, PassesGate
    <3>3. op' = op
      BY <2>3 DEF ApproveRemotely
    <3> QED
      BY <3>2, <3>3 DEF PassedFor
  <2>4. CASE run' = run
    BY <1>1, <2>4
  <2> QED
    BY <2>1, <2>2, <2>3, <2>4
<1> HIDE DEF Seen
<1>2. IInv /\ GateInv /\ RunEvidence /\ OpEvidence /\ [Next]_vars
        => [\A g \in Gates :
              run.at[g] # "success" /\ run'.at[g] = "success" => Seen(g)]_vars
  BY <1>1
<1> USE DEF Seen
<1> QED
  BY <1>2, EvidenceInvariantHolds, PTL DEF Spec, ApprovesWhatWasSeen

=============================================================================
