--------------------------- MODULE WorkflowEngine ---------------------------
(***************************************************************************)
(* The transition engine of a workflow run: which command is allowed in    *)
(* which state and on which evidence, and the run that comes out of it.    *)
(* A run walks one chain of nodes: an agent step and its gate, twice, then *)
(* build, test, pull request and acceptance.                               *)
(***************************************************************************)
EXTENDS Naturals, Sequences, FiniteSets

Clarify == 1
ClarifyGate == 2
Design == 3
DesignGate == 4
Build == 5
Test == 6
Pr == 7
Accept == 8

Node == Clarify..Accept
Agents == {Clarify, Design}
Gates == {ClarifyGate, DesignGate}
NodeStatus == {"pending", "running", "success", "failed"}

(* What a run's status is while a node is its current one.                 *)
RunStatusAt(n) ==
  CASE n = Clarify -> "clarifying"
    [] n = Design -> "designing"
    [] n = Build -> "building"
    [] n = Test -> "testing"
    [] OTHER -> "paused_at_gate"

RunStatus == {RunStatusAt(n) : n \in Node} \union {"failed", "completed"}

NewRun ==
  [version |-> 1, current |-> Clarify, status |-> "clarifying",
   at |-> [n \in Node |-> IF n = Clarify THEN "running" ELSE "pending"],
   linked |-> [n \in Node |-> {}],   \* artifacts by number, per node
   pullRequest |-> 0]                \* the delivery it came from, 0 for none

(* The engine's own check of a run before every command.                   *)
Structured(run) ==
  LET c == run.current
  IN /\ run.status = IF run.at[c] = "failed" THEN "failed" ELSE RunStatusAt(c)
     /\ \A n \in Node : n # c => run.at[n] # "running"
     /\ \A n \in Node : n < c => run.at[n] = "success"
     /\ \A n \in Node : n > c + 1 => run.at[n] = "pending"

Running(run) == {n \in Node : run.at[n] = "running"}

ActiveNode(run) ==
  IF run.current \in Running(run) THEN run.current
  ELSE CHOOSE n \in Running(run) : \A m \in Running(run) : n <= m

(* What LocalStore makes of a run whenever it reads or writes one: the     *)
(* node that is running is the current one, and nothing after it has begun.*)
Normalized(run) ==
  IF Running(run) = {} THEN run
  ELSE [run EXCEPT
          !.current = ActiveNode(run),
          !.status = RunStatusAt(ActiveNode(run)),
          !.at = [n \in Node |-> IF n > ActiveNode(run) THEN "pending" ELSE @[n]]]

-----------------------------------------------------------------------------
(* Evidence: [revision, coding, tests, intents], each a sequence; the last *)
(* element is the latest.  A command is [do, node, name, result], where    *)
(* name is the number of the artifact or coding run it is about.           *)

NextIsPending(run) == run.at[run.current + 1] = "pending"

(* One clarification is linked to the gate; it is the latest, and open.    *)
ReadyForReview(run, ev) ==
  LET latest == Len(ev.revision)
  IN /\ run.linked[ClarifyGate] = {latest}
     /\ ev.revision[latest] \in {"review_requested", "approved"}

Completed(ev) == {c \in DOMAIN ev.coding : ev.coding[c].status = "completed"}

(* A build rests on a coding run that is completed, or on OpenCode changes *)
(* the user has accepted.                                                  *)
MayComplete(coding) ==
  \/ coding.status = "completed"
  \/ coding.engine = "opencode-http" /\ coding.status = "applying"

LatestTestPassed(run, ev) ==
  /\ ev.tests # <<>>
  /\ ev.tests[Len(ev.tests)] = "passed"
  /\ Len(ev.tests) \in run.linked[Test]

(* The deliveries that count: of the package at hand, under the version of *)
(* the run at hand; later, of the first package, with the run's own draft. *)
Deliveries(run, ev, cmd) ==
  {i \in DOMAIN ev.intents :
     /\ ev.intents[i].status = "completed"
     /\ IF cmd.do = "complete_pr"
        THEN /\ ev.intents[i].package = cmd.name
             /\ ev.intents[i].version = run.version
        ELSE /\ \A p \in run.linked[Pr] : ev.intents[i].package <= p
             /\ ev.intents[i].package \in run.linked[Pr]
             /\ run.pullRequest = i}

DeliveryEvidence(run, ev, cmd) ==
  /\ Completed(ev) # {}
  /\ LatestTestPassed(run, ev)
  /\ cmd.do \notin {"complete_pr", "attach_pr_package"} => run.linked[Pr] # {}
  /\ cmd.do # "attach_pr_package" => Cardinality(Deliveries(run, ev, cmd)) = 1

(* Mutant: acceptance does not ask for its evidence bundle.                *)
BundleNotAsked(run) == TRUE

HasAttachedBundle(run) == run.linked[Accept] # {}

(* Whether the evidence supports the command at the current node.          *)
Supported(run, cmd, ev) ==
  LET n == cmd.node
      now == run.at[n]
  IN \/ /\ cmd.do = "complete_agent" /\ n \in Agents /\ now = "running"
        /\ NextIsPending(run)
     \/ /\ cmd.do = "approve_gate" /\ n \in Gates /\ now = "running"
        /\ run.linked[n] # {}
        /\ n = ClarifyGate => ReadyForReview(run, ev)
        /\ NextIsPending(run)
     \/ /\ cmd.do = "complete_build" /\ n = Build /\ now \in {"running", "failed"}
        /\ MayComplete(ev.coding[cmd.name])
        /\ NextIsPending(run)
     \/ /\ cmd.do = "record_test_result" /\ n = Test /\ now \in {"running", "failed"}
        /\ cmd.result = "passed" => NextIsPending(run)
     \/ /\ cmd.do = "attach_pr_package" /\ n = Pr /\ now = "running"
        /\ DeliveryEvidence(run, ev, cmd)
     \/ /\ cmd.do = "complete_pr" /\ n = Pr /\ now = "running"
        /\ DeliveryEvidence(run, ev, cmd)
        /\ cmd.name \in run.linked[Pr]
        /\ NextIsPending(run)
     \/ /\ cmd.do = "attach_acceptance_bundle" /\ n = Accept /\ now = "running"
        /\ DeliveryEvidence(run, ev, cmd)
     \/ /\ cmd.do = "approve_acceptance" /\ n = Accept /\ now = "running"
        /\ DeliveryEvidence(run, ev, cmd)
        /\ HasAttachedBundle(run)

Allowed(run, cmd, ev) ==
  /\ run.status # "completed"
  /\ run.current = cmd.node
  /\ Structured(run)
  /\ Supported(run, cmd, ev)

-----------------------------------------------------------------------------
(* The run after an allowed command.                                       *)

Attaching == {"attach_pr_package", "attach_acceptance_bundle"}

WithArtifact(run, cmd) ==
  [run EXCEPT !.version = @ + 1,
              !.linked[cmd.node] = @ \union {cmd.name}]

Failed(run, cmd) ==
  [WithArtifact(run, cmd) EXCEPT !.status = "failed", !.at[cmd.node] = "failed"]

Accepted(run) ==
  [run EXCEPT !.version = @ + 1, !.status = "completed", !.at[Accept] = "success"]

(* Mutant: a node that had failed before is left as it is.                 *)
StatusKept(run, n) == IF run.at[n] = "failed" THEN "failed" ELSE "success"

StatusWhenLeft(run, n) == "success"

Advanced(run, cmd, ev) ==
  LET n == cmd.node
      keeps == cmd.do \in {"complete_agent", "record_test_result", "complete_pr"}
      hands == cmd.do = "complete_agent"
      more(m) == IF (m = n /\ keeps) \/ (m = n + 1 /\ hands)
                 THEN {cmd.name} ELSE {}
  IN [run EXCEPT
        !.version = @ + 1,
        !.current = n + 1,
        !.status = RunStatusAt(n + 1),
        !.at = [@ EXCEPT ![n] = StatusWhenLeft(run, n), ![n + 1] = "running"],
        !.linked = [m \in Node |-> @[m] \union more(m)],
        !.pullRequest = IF cmd.do = "complete_pr"
                        THEN CHOOSE i \in Deliveries(run, ev, cmd) : TRUE ELSE @]

(* A package or bundle that is attached already is attached once.          *)
Applied(run, cmd, ev) ==
  CASE cmd.do \in Attaching ->
         IF cmd.name \in run.linked[cmd.node] THEN run ELSE WithArtifact(run, cmd)
    [] cmd.do = "approve_acceptance" -> Accepted(run)
    [] cmd.do = "record_test_result" /\ cmd.result = "failed" -> Failed(run, cmd)
    [] OTHER -> Advanced(run, cmd, ev)

(* Mutant: the gate stays linked to the clarification it sent back.        *)
SentBackStillLinked(run) ==
  [run EXCEPT
     !.version = @ + 1,
     !.current = Clarify,
     !.status = "clarifying",
     !.at = [n \in Node |-> IF n = Clarify THEN "running" ELSE "pending"]]

(* Two changes go past the engine: the requirement gate sends the run back *)
(* to its agent, and the design gate gets another design to decide on.     *)
SentBack(run) ==
  [run EXCEPT
     !.version = @ + 1,
     !.current = Clarify,
     !.status = "clarifying",
     !.at = [n \in Node |-> IF n = Clarify THEN "running" ELSE "pending"],
     !.linked[ClarifyGate] = {}]

Redesigned(run, name) ==
  [run EXCEPT
     !.version = @ + 1,
     !.linked[Design] = @ \union {name},
     !.linked[DesignGate] = {name}]
=============================================================================
