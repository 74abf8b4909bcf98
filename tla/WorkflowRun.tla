----------------------------- MODULE WorkflowRun -----------------------------
(***************************************************************************)
(* One workflow run on the desktop: the handlers of the main process that  *)
(* move it, the coding runtime that completes its build, and the GitHub    *)
(* deliveries its pull request step waits for.  A handler reads the run,   *)
(* awaits (a model, a test command, the user's policy), hands a command to *)
(* the workflow runtime, which reads again and lets the engine decide, and *)
(* commits if the stored run is still the one that was read.               *)
(***************************************************************************)
EXTENDS WorkflowEngine

CONSTANTS
  Handlers,      \* what the main process can be busy with at once
  Engines,       \* the coding engines in use
  MaxRevisions, MaxDesigns, MaxCoding, MaxTests, MaxPackages, MaxIntents,
  MaxCrashes     \* bounds of the model

ASSUME EnginesAreKnown == Engines \subseteq {"native", "opencode-http"}

VARIABLES
  run,       \* the stored run
  revision,  \* the status of each clarification, in order
  coding,    \* the coding runs of the build, in order
  tests,     \* the test results of the test node, in order
  intents,   \* the GitHub delivery intents, in order
  op,        \* what each handler is at
  crashes

vars == <<run, revision, coding, tests, intents, op, crashes>>
evidence == <<revision, coding, tests, intents>>

Ev == [revision |-> revision, coding |-> coding, tests |-> tests,
       intents |-> intents]

Command(do, n, name, result) ==
  [do |-> do, node |-> n, name |-> name, result |-> result]

Idle == [phase |-> "idle", cmd |-> Command("none", Clarify, 0, "none"),
         read |-> 0, next |-> NewRun]

Init ==
  /\ run = NewRun
  /\ revision = <<>> /\ coding = <<>> /\ tests = <<>> /\ intents = <<>>
  /\ op = [h \in Handlers |-> Idle]
  /\ crashes = 0

-----------------------------------------------------------------------------
(* A handler sets out on a command, for the run as it is now.              *)

Begun(cmd, version) ==
  [phase |-> "begun", cmd |-> cmd, read |-> version, next |-> NewRun]

Begin(h, cmd) ==
  /\ op[h] = Idle
  /\ op' = [op EXCEPT ![h] = Begun(cmd, run.version)]
  /\ UNCHANGED <<run, evidence, crashes>>

Here(n) == run.current = n /\ run.at[n] = "running"
Doing(commands) == \E h \in Handlers : op[h].cmd.do \in commands

(* The model writes a clarification or a design; one at a time per run.    *)
GenerateStage(h) ==
  \E n \in Agents :
    /\ Here(n)
    /\ ~Doing({"complete_agent", "revise_design"})
    /\ n = Clarify => Len(revision) < MaxRevisions
    /\ Begin(h, Command("complete_agent", n,
                        IF n = Clarify THEN Len(revision) + 1 ELSE 1, "none"))

ReviseDesign(h) ==
  /\ Here(DesignGate)
  /\ ~Doing({"complete_agent", "revise_design"})
  /\ Cardinality(run.linked[Design]) < MaxDesigns
  /\ Begin(h, Command("revise_design", DesignGate, run.version, "none"))

(* The user asks for another clarification, or approves what the gate is   *)
(* linked to: the call names the artifact the user has seen.               *)
ReviewGate(h) ==
  \E n \in Gates, do \in {"approve_gate", "request_changes"}, name \in run.linked[run.current] :
    /\ Here(n)
    /\ do = "request_changes" => n = ClarifyGate
    /\ n = ClarifyGate => ReadyForReview(run, Ev)
    /\ Begin(h, Command(do, n, name, "none"))

(* The test command runs in the workspace of the latest coding run, which  *)
(* must be completed, under that workspace's lease.  A passing result may  *)
(* be saved only, without moving the run.                                  *)
RunTests(h) ==
  \E result \in {"passed", "failed", "saved"} :
    /\ run.current = Test /\ run.at[Test] \in {"running", "failed"}
    /\ coding # <<>> /\ coding[Len(coding)].status = "completed"
    /\ ~Doing({"record_test_result"})
    /\ Len(tests) < MaxTests
    /\ Begin(h, Command("record_test_result", Test, Len(tests) + 1, result))

(* The package is named for the version of the run it describes.           *)
CreatePackage(h) ==
  /\ Here(Pr)
  /\ Cardinality(Completed(Ev)) = 1
  /\ Cardinality(run.linked[Pr]) < MaxPackages
  /\ Begin(h, Command("attach_pr_package", Pr, run.version, "none"))

CreateBundle(h) ==
  /\ Here(Accept)
  /\ Begin(h, Command("attach_acceptance_bundle", Accept, 1, "none"))

ApproveAcceptance(h) ==
  /\ Here(Accept)
  /\ Begin(h, Command("approve_acceptance", Accept, 0, "none"))

(* The delivery processor advances the run when the intent that completed  *)
(* was made for this version of it.                                        *)
AdvanceDelivered(h) ==
  \E i \in DOMAIN intents :
    /\ intents[i].status = "completed"
    /\ intents[i].version = run.version
    /\ Here(Pr)
    /\ intents[i].package \in run.linked[Pr]
    /\ Begin(h, Command("complete_pr", Pr, intents[i].package, "none"))

-----------------------------------------------------------------------------
(* The workflow runtime, and the two changes made without the engine.      *)

Permitted(r, cmd, ev) ==
  CASE cmd.do = "request_changes" ->
         r.current = ClarifyGate /\ r.at[ClarifyGate] = "running" /\ ReadyForReview(r, ev)
    [] cmd.do = "revise_design" ->
         r.current = DesignGate /\ r.at[DesignGate] = "running"
    [] OTHER -> Allowed(r, cmd, ev)

Result(r, cmd, ev) ==
  CASE cmd.do = "request_changes" -> SentBack(r)
    [] cmd.do = "revise_design" -> Redesigned(r, cmd.name)
    [] OTHER -> Applied(r, cmd, ev)

Decided(o) ==
  [o EXCEPT !.phase = "decided", !.read = run.version,
            !.next = Result(run, o.cmd, Ev)]

(* Mutant: the workflow runtime takes the run as it finds it.              *)
DecideOnAnyRun(h) ==
  /\ op[h].phase = "begun"
  /\ op[h].cmd.do # "start_coding" /\ op[h].cmd.result # "saved"
  /\ Permitted(run, op[h].cmd, Ev)
  /\ op' = [op EXCEPT ![h] = Decided(@)]
  /\ UNCHANGED <<run, evidence, crashes>>

(* All but the completion of a build insist on the run they set out from.  *)
Decide(h) ==
  /\ op[h].phase = "begun"
  /\ op[h].cmd.do # "start_coding" /\ op[h].cmd.result # "saved"
  /\ op[h].cmd.do # "complete_build" => op[h].read = run.version
  /\ Permitted(run, op[h].cmd, Ev)
  /\ op' = [op EXCEPT ![h] = Decided(@)]
  /\ UNCHANGED <<run, evidence, crashes>>

Superseded(s) == IF s = "approved" THEN s ELSE "superseded"

RevisionAfter(cmd) ==
  CASE cmd.do = "complete_agent" /\ cmd.node = Clarify ->
         Append([i \in DOMAIN revision |-> Superseded(revision[i])], "review_requested")
    [] cmd.do = "request_changes" ->
         [revision EXCEPT ![cmd.name] = "revision_requested"]
    [] cmd.do = "approve_gate" /\ cmd.node = ClarifyGate ->
         [revision EXCEPT ![cmd.name] = "approved"]
    [] OTHER -> revision

Applying(cmd) == cmd.do = "complete_build" /\ coding[cmd.name].status = "applying"

Committed(h) ==
  LET cmd == op[h].cmd
  IN /\ op[h].phase = "decided"
     /\ run' = Normalized(op[h].next)
     /\ revision' = RevisionAfter(cmd)
     /\ tests' = IF cmd.result \in {"passed", "failed"}
                 THEN Append(tests, cmd.result) ELSE tests
     /\ op' = [op EXCEPT ![h] =
                 IF Applying(cmd)
                 THEN [Idle EXCEPT !.phase = "settling", !.cmd = cmd] ELSE Idle]
     /\ UNCHANGED <<coding, intents, crashes>>

(* Mutant: the transaction does not compare the stored run.                *)
CommitUncompared(h) == Committed(h)

(* The run, the artifacts and the test result change in one transaction,   *)
(* if the stored run is the one the decision was taken on.                 *)
Commit(h) == run.version = op[h].read /\ Committed(h)

SaveTest(h) ==
  /\ op[h].phase = "begun"
  /\ op[h].cmd.result = "saved"
  /\ tests' = Append(tests, "passed")
  /\ op' = [op EXCEPT ![h] = Idle]
  /\ UNCHANGED <<run, revision, coding, intents, crashes>>

(* A refusal, a lost race, or a failure of the handler.  OpenCode changes  *)
(* whose build was not completed end their coding run.                     *)
GiveUp(h) ==
  /\ op[h].phase \in {"begun", "decided"}
  /\ op' = [op EXCEPT ![h] = Idle]
  /\ coding' = IF Applying(op[h].cmd)
               THEN [coding EXCEPT ![op[h].cmd.name].status = "ended"] ELSE coding
  /\ UNCHANGED <<run, revision, tests, intents, crashes>>

(* A command of the Team is applied in one transaction, for the artifact   *)
(* its requester has seen.                                                 *)
ApproveRemotely ==
  \E n \in Gates : \E name \in run.linked[n] :
    LET cmd == Command("approve_gate", n, name, "none")
    IN /\ run.linked[n] = {name}
       /\ Allowed(run, cmd, Ev)
       /\ run' = Normalized(Applied(run, cmd, Ev))
       /\ revision' = RevisionAfter(cmd)
       /\ UNCHANGED <<coding, tests, intents, op, crashes>>

-----------------------------------------------------------------------------
(* Coding runs: "active" while the engine works, "waiting" for the user to *)
(* accept OpenCode's changes, "applying" while the build is completed.     *)

Active == {"active", "waiting", "applying"}

NoneActive == \A c \in DOMAIN coding : coding[c].status \notin Active
AtBuild == run.current = Build /\ run.at[Build] \in {"running", "failed"}

PrepareCoding(h) ==
  /\ AtBuild
  /\ NoneActive
  /\ Len(coding) < MaxCoding
  /\ Begin(h, Command("start_coding", Build, 0, "none"))

(* The reservation asks for no other active run; that the workflow has not *)
(* moved is seen after it.                                                 *)
StartCoding(h) ==
  /\ op[h].phase = "begun" /\ op[h].cmd.do = "start_coding"
  /\ NoneActive
  /\ Len(coding) < MaxCoding
  /\ \E e \in Engines :
       coding' = Append(coding,
                   [engine |-> e,
                    status |-> IF op[h].read = run.version THEN "active" ELSE "ended"])
  /\ op' = [op EXCEPT ![h] = Idle]
  /\ UNCHANGED <<run, revision, tests, intents, crashes>>

CompleteBuild(h, c) ==
  /\ op[h] = Idle
  /\ op' = [op EXCEPT ![h] = Begun(Command("complete_build", Build, c, "none"), run.version)]

(* The native engine's run is completed before the build is.               *)
FinishNative(h, c) ==
  /\ coding[c] = [engine |-> "native", status |-> "active"]
  /\ coding' = [coding EXCEPT ![c].status = "completed"]
  /\ CompleteBuild(h, c)
  /\ UNCHANGED <<run, revision, tests, intents, crashes>>

OfferChanges(c) ==
  /\ coding[c] = [engine |-> "opencode-http", status |-> "active"]
  /\ coding' = [coding EXCEPT ![c].status = "waiting"]
  /\ UNCHANGED <<run, revision, tests, intents, op, crashes>>

(* OpenCode's run is completed after the build is.                         *)
AcceptChanges(h, c) ==
  /\ coding[c].status = "waiting"
  /\ AtBuild
  /\ coding' = [coding EXCEPT ![c].status = "applying"]
  /\ CompleteBuild(h, c)
  /\ UNCHANGED <<run, revision, tests, intents, crashes>>

SettleCoding(h) ==
  LET c == op[h].cmd.name
  IN /\ op[h].phase = "settling"
     /\ op' = [op EXCEPT ![h] = Idle]
     /\ coding' = IF coding[c].status = "applying"
                  THEN [coding EXCEPT ![c].status = "completed"] ELSE coding
     /\ UNCHANGED <<run, revision, tests, intents, crashes>>

(* It fails, its changes are rejected, or the user cancels it.             *)
EndCoding(c) ==
  /\ coding[c].status \in Active
  /\ coding' = [coding EXCEPT ![c].status = "ended"]
  /\ UNCHANGED <<run, revision, tests, intents, op, crashes>>

-----------------------------------------------------------------------------
(* Deliveries: one may be pending, made for the package and version at     *)
(* hand; the Team's GitHub App completes or ends it (GitHubDelivery).      *)

Pending == {i \in DOMAIN intents : intents[i].status = "pending"}

NewIntent ==
  [package |-> run.version - 1, version |-> run.version, status |-> "pending"]

Deliverable ==
  /\ Here(Pr)
  /\ NewIntent.package \in run.linked[Pr]
  /\ Completed(Ev) # {}
  /\ Len(intents) < MaxIntents

PrepareDelivery ==
  /\ Deliverable
  /\ intents = <<>>
  /\ intents' = <<NewIntent>>
  /\ UNCHANGED <<run, revision, coding, tests, op, crashes>>

(* A pending one is revised, which ends it; one that ended is retried.     *)
ReplaceDelivery(i) ==
  /\ Deliverable
  /\ intents[i].status \in {"pending", "ended"}
  /\ Pending \subseteq {i}
  /\ intents' = Append([intents EXCEPT ![i].status = "ended"], NewIntent)
  /\ UNCHANGED <<run, revision, coding, tests, op, crashes>>

FinishDelivery(i) ==
  /\ i \in Pending
  /\ \E status \in {"completed", "ended"} :
       intents' = [intents EXCEPT ![i].status = status]
  /\ UNCHANGED <<run, revision, coding, tests, op, crashes>>

-----------------------------------------------------------------------------
(* The desktop dies: every handler is forgotten.  On the next start coding *)
(* runs that were under way are failed; changes still wait to be accepted. *)
Crash ==
  /\ crashes < MaxCrashes
  /\ crashes' = crashes + 1
  /\ op' = [h \in Handlers |-> Idle]
  /\ coding' = [c \in DOMAIN coding |->
                  IF coding[c].status \in {"active", "applying"}
                  THEN [coding[c] EXCEPT !.status = "ended"] ELSE coding[c]]
  /\ UNCHANGED <<run, revision, tests, intents>>

Next ==
  \/ \E h \in Handlers :
       \/ GenerateStage(h) \/ ReviseDesign(h) \/ ReviewGate(h)
       \/ RunTests(h) \/ SaveTest(h)
       \/ CreatePackage(h) \/ AdvanceDelivered(h)
       \/ CreateBundle(h) \/ ApproveAcceptance(h)
       \/ Decide(h) \/ Commit(h) \/ GiveUp(h)
       \/ PrepareCoding(h) \/ StartCoding(h) \/ SettleCoding(h)
       \/ \E c \in DOMAIN coding : FinishNative(h, c) \/ AcceptChanges(h, c)
  \/ \E c \in DOMAIN coding : OfferChanges(c) \/ EndCoding(c)
  \/ ApproveRemotely
  \/ PrepareDelivery
  \/ \E i \in DOMAIN intents : ReplaceDelivery(i) \/ FinishDelivery(i)
  \/ Crash

Spec == Init /\ [][Next]_vars

-----------------------------------------------------------------------------

RevisionStatus ==
  {"review_requested", "revision_requested", "approved", "superseded"}
Commands ==
  {"none", "complete_agent", "approve_gate", "request_changes", "revise_design",
   "start_coding", "complete_build", "record_test_result", "attach_pr_package",
   "complete_pr", "attach_acceptance_bundle", "approve_acceptance"}
RunType ==
  [version : Nat, current : Node, status : RunStatus, at : [Node -> NodeStatus],
   linked : [Node -> SUBSET Nat], pullRequest : Nat]
CommandType ==
  [do : Commands, node : Node, name : Nat,
   result : {"none", "passed", "failed", "saved"}]
CodingType == [engine : Engines, status : Active \union {"completed", "ended"}]
IntentType ==
  [package : Nat, version : Nat, status : {"pending", "completed", "ended"}]

(* The type invariant.                                                     *)
TypeOK ==
  /\ run \in RunType
  /\ revision \in Seq(RevisionStatus)
  /\ coding \in Seq(CodingType)
  /\ tests \in Seq({"passed", "failed"})
  /\ intents \in Seq(IntentType)
  /\ op \in [Handlers -> [phase : {"idle", "begun", "decided", "settling"},
                          cmd : CommandType, read : Nat, next : RunType]]
  /\ crashes \in Nat

(* Nothing was skipped and nothing was run ahead.                          *)
Sound(r) ==
  IF r.status = "completed"
  THEN r.current = Accept /\ \A n \in Node : r.at[n] = "success"
  ELSE Structured(r) /\ Normalized(r) = r

(* No sequence of commands, in any interleaving, brings the run into a     *)
(* shape the engine refuses to go on from or LocalStore would rewrite: one *)
(* current node, all before it passed, all after it untouched; completed   *)
(* only with every node passed.                                            *)
RunStaysSound == Sound(run)

(* Whenever the requirement gate waits for its user there is one           *)
(* clarification to decide on, the latest, and it is open.                 *)
GateIsReviewable ==
  Here(ClarifyGate) => /\ ReadyForReview(run, Ev)
                       /\ revision[Len(revision)] = "review_requested"

(* A completed run rests on an approved clarification, on a completed      *)
(* coding run, on a latest test that passed and is reported, and on one    *)
(* delivery, of its only package and completed.                            *)
AcceptedOnEvidence ==
  run.status = "completed" =>
    /\ revision[Len(revision)] = "approved"
    /\ Completed(Ev) # {}
    /\ LatestTestPassed(run, Ev)
    /\ intents[run.pullRequest].status = "completed"
    /\ run.linked[Pr] = {intents[run.pullRequest].package}
    /\ run.linked[Accept] # {}

(* A gate is passed for the one artifact that is linked to it then, the    *)
(* one the approval named; the clarification approved is marked so.        *)
ApprovesWhatWasSeen ==
  [][\A g \in Gates :
       run.at[g] # "success" /\ run'.at[g] = "success" =>
         \E name \in run'.linked[g] :
           /\ run'.linked[g] = {name}
           /\ g = ClarifyGate => revision'[name] = "approved"
           /\ \A h \in Handlers : op'[h] # op[h] => op[h].cmd.name = name]_vars

(* Two different runs never carry the same version: each change raises it  *)
(* by one, whoever else was at it.  The Team tells uploads apart by it.    *)
VersionTellsRunsApart ==
  [][run' # run => run'.version = run.version + 1]_vars
=============================================================================
