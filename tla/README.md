# AI DevFlow Studio in TLA+

Specifications, model-checking configurations and machine-checked proofs for the
parts of AI DevFlow Studio whose correctness depends on concurrency, failure and
order: who may move a workflow run, what survives a crash or a lost answer, and
what the Team and the desktop may each believe of the other.

Contents: 1 the system, 2 the components, 3 the modules and their
correspondence with the code, 4 what the runs check, 5 disagreements found,
6 fairness, 7 proofs, 8 what is left out, 9 the plan, 10 running it.

## 1. The system

AI DevFlow Studio takes a task through a fixed chain of stages (clarify, design,
build, test, pull request, acceptance), with human gates between them. Three
programs share the work:

- the **desktop** (`apps/desktop`, Electron) owns the runs. Its main process keeps
  everything in LocalStore, a sql.js SQLite database held in memory and written to
  disk as a whole, and runs a few polling loops (gate commands, remote sync outbox,
  GitHub deliveries);
- the **Team API** (`apps/api`) keeps organizations, projects, summaries of runs,
  work requests, gate commands, budgets and deliveries in Postgres; an in-memory
  seed repository stands in for it in tests;
- the **Web console** (`apps/web`) shows the Team's view and lets approvers act.

The desktop talks to the Team over HTTP only, under the pairing credential of one
local project; nothing is pushed to it. The Team never moves a run: what a Web
user decides becomes a command, which the paired desktop fetches, checks against
its own state, carries out or refuses, and acknowledges (ADR 0012). In the other
direction every saved run and piece of evidence goes through a durable outbox.
Within the desktop, components interact by calls on LocalStore: mutating
("durable") methods are serialized in one promise queue, reading ("direct") methods
run at once and may see the uncommitted rows of the running mutation.

## 2. The components

What each keeps, does, finds hard, and must get right. "Modelled" names the
modules of section 3; the others are in the plan or left out for the reason given.

| Component | State and operations | Hard behaviour | Properties that make it correct |
| --- | --- | --- | --- |
| **Gate Command protocol** (modelled) | Team: commands with snapshot and expiry, receipts (leases), acknowledgements; create, list inbox, lease, acknowledge, lazy expiry and revocation. Desktop: executions and pending acknowledgements; the poll `processAvailable` | several approvers, runs moving underneath, time-outs, late answers, skewed clocks, crashes between commit and acknowledgement | one active command per snapshot; decided once, on the current snapshot, under a lease; the Team records what the desktop did; everything settles |
| **LocalStore persistence** (modelled) | in-memory database, file, queue of mutations, dirty mark, revision; `runDurableMutation`, `persist`, `restore` | composite mutations, failing methods and disk writes, death at any point, readers beside the queue | all or nothing; answers are true; one failure does not jam the queue |
| **Remote sync outbox** (modelled) | one operation per entity: status, generation, attempts, scope, lease; enqueue/coalesce, claim, bind, settle, retry, recover; pairing | saves during uploads, re-pairing between two reads, late requests, interrupted attempts | completed means synced; scope never changes; everything settles; the last save gets through |
| **Workflow transition engine** (modelled) | the run: nodes, artifacts, version; its evidence: clarifications, coding runs, tests, deliveries; `applyWorkflowCommand` and its eight commands, the handlers that issue them, `commitWorkflowMutation` | handlers that await between reading and committing; remote approvals; long sequences of approve, send back, fail, revise; builds completed in two stores' steps | one current node; versions tell runs apart; a gate is passed for what was seen; nothing accepted without evidence |
| **Work requests** (modelled) | Team: request, version, claim, release tombstones, answers under idempotency keys; create, claim, materialize, release. Desktop: run and binding in one transaction | several desktops; lost answers; crash between local run and report; late uploads; re-pairing | one desktop holds a request; a claim repeated is the same claim; no run without its claim; materialized means there is a run |
| **GitHub delivery** (modelled) | Team: binding, requests, grants of credentials, publications, pull requests of a series of attempts; reserve, finalize, confirm, report, adopt. API: calls that alternate between Team and GitHub. Desktop: intent; advance, push, stop, resume, retry | external effects with lost answers; calls that outlive their caller; revocation and expiry of credentials in between | at most one credential alive; a desktop told that the binding is inactive leaves none behind; an intent ends only as the Team's request does |
| **Model-call budget** (modelled) | Team: attempts, corrections, approvals, continuation cards; reserve, prepare, confirm, settle, reconcile. Desktop: settlements to be sent; dispatch, settle, retry | concurrent reservations at the limit; lost answers and crashes around a call that costs money; leads correcting meanwhile | never over what is allowed; no cost forgotten; no correction hides a cost unseen |
| **Agent runtime and coordination** (planned) | sessions, tasks, resource leases, checkpoints | takeover, recovery, two specialists on one resource | one holder per resource; a checkpoint is resumed once |
| **Coding runtime and executors** (life of a coding run modelled) | reserved run, permissions, change control, workspaces | cancellation during approval; crash during apply | one active run per workspace; no change without permission |
| **Agent memory and Hindsight** (planned, late) | candidates, revisions, projection jobs | claim, settle, recover of jobs; clear during write | cleared memory is never served |
| Workbench conversations | one conversation at a time around a model call | cancellation | later candidate |
| Knowledge and agent review | indexing, retrieval, text analysis | none: functions of documents | not modelled |
| Team API: auth, pairing, organizations | sessions, tokens, memberships, summaries | membership changes beside everything else | only what the protocols above need |
| Database migrations; UIs; worker, scripts, deployment | sequential scripts; views; tooling | none | not modelled |

The hazards of the code, each at its line with the properties that would catch it,
are listed in `PROJECT.json`.

## 3. Modules and code

```
 GateTeam -> GateDesktop -> GateCommand -> MCGateCommand
                              |  implements GateDecision
                              +-> GateCommandProofs
 DurableStore -> MCDurableStore
      |  implements AtomicStore
      +-> DurableStoreProofs
 OutboxStore -> RemoteSyncOutbox -> MCRemoteSyncOutbox
                     +-> OutboxProofs
 WorkRequestTeam -> WorkRequest -> MCWorkRequest
                     +-> WorkRequestProofs
 CostLedger -> ModelCallBudget -> MCModelCallBudget
                     +-> ModelCallBudgetProofs
 DeliveryTeam -> GitHubDelivery -> MCGitHubDelivery
                     +-> GitHubDeliveryProofs -> GitHubDeliveryEnds
 WorkflowEngine -> WorkflowRun -> MCWorkflowRun
                     +-> WorkflowRunProofs
```

(`->` is extended by.) `PROJECT.json` maps every definition to its lines.

### Gate commands

**GateTeam** is the Postgres repository (`postgres-gate-command-repository.ts`), one
action per operation: `CreateGateCommand` and its refusals, `ListGateCommands` (the
inbox), `CreateGateCommandReceipt`, `AcknowledgeGateCommand`, and the summaries and
memberships they read. Each is one transaction under the advisory and row locks the
code takes, hence one step. Expiry and revocation are lazy, as in the code: they
happen to the commands an operation looks at, within that operation. `cmd` stands
for `gate_commands`, `receipts` for `gate_command_receipts` (one attempt after the
other), `teamAck` for `gate_command_acknowledgements`.

**GateDesktop** is `gate-command-processor.ts` with the LocalStore transactions it
calls. `phase` and `pc` say where the one poll loop is, `job` holds its local
variables across awaits: what was read before an await is used after it, as in the
code. `Evaluate` is the processor's decision; `CommitDecision` the transaction
`commitGateCommandExecution`, which compares everything again (`Resolve`);
`ReplayExecution` its path for a command already decided. `exec` stands for
`gate_command_executions`, `localAck` for the state of their acknowledgement. The
desktop's clock is the Team's plus `skew`.

**GateCommand** composes them by HTTP: an exchange either happens (`PollInbox`,
`RequestReceipt`, `SendAck`), is denied (`DenyAck`) or given up (`GiveUp`, `Crash`),
and a request given up goes into `late`, from where it may be handled at any time or
never. `LocalStep` is everything else that happens to the run on the desktop.

**GateDecision** is the abstract promise: per command a register that is decided at
most once, for the current version if it is applied, and published as decided, or as
lapsed or withdrawn.

Abstractions: the run is a version and whether it is at the gate (every mutation of a
run raises its version, so equal versions mean equal runs); the policy hash, blockers,
evidence and authorization are one `material`, clear or blocked at the commit;
reading the receipt and recording its observation are one step.

### LocalStore

**DurableStore** is `serializeLocalStoreMutations`, `runDurableMutation`, `persist`,
`restore` and `persistDatabaseSnapshot`. A call writes `Parts[c]` rows, one per inner
method, each of which asks for persistence and so marks the memory `dirty`; at the end
of the outermost mutation the memory goes to a temporary file, which is renamed. `Fail` is
an exception anywhere up to the rename. `Crash` takes the process away at any point;
the next one starts from the file. `Sample` is a reader that remembers the revision.

**AtomicStore** is the abstract promise: a call takes effect completely at one moment
and is answered truthfully afterwards; a crash loses answers, never effects. That is what the
other models take a LocalStore transaction for; DurableStore implements it.

### Remote sync outbox

**OutboxStore** holds the table `remote_sync_outbox` and the transactions on it:
`Save` (an entity and its operation in one transaction; `Enqueued` is
`writeRemoteSyncOperation`, which coalesces with the existing operation under a new
generation or ends it for a scope mismatch), `DeleteRun`, `RetryRemoteSyncOperation`,
claim, recovery, pairing. `Held` is the guard on id, generation and status that binding and
settling share.

**RemoteSyncOutbox** is the processor (`remote-sync-outbox-processor.ts`,
`-client.ts`, `project-bound-remote-sync.ts`) with the Team's answers. `pc` and `job` are
the processor's place and local variables: claimed, binding, connecting (pairing read a second
time, entity read), sending its own summary, the missing run, or its own summary again,
settling. `GiveUp` is the 30 s time-out and every retryable answer. `UploadForBudget` is
the upload `evaluateRuntimeBudget` makes without any operation. `PairDesktop` and
`Requeue` are the two halves of the pairing handler: the processor runs in between.

Abstractions: one run; its evidence (test, review, coding) and its runtimes (agent runtime,
coordination), which act under one version of the run; the content of an entity is its
version; back-off and lease are a flag `waiting` that time takes away; any operation
that is due may be claimed (the code takes the oldest); the Team's row is Team project and version.
The queue before LocalStore's transactions is kept where it matters: between reading the
pairing and settling, other durable calls and direct reads may come.

### Work requests

**WorkRequestTeam** is `postgres-work-request-repository.ts` for one request, one action per
operation, each one transaction: `ClaimWorkRequest` (which also lets an overdue request expire),
`MaterializeWorkRequest`, `ReleaseWorkRequest`; and of `postgres-team-repository.ts`
`UploadRunSummary`, `DeleteRun` and what revokes tokens and access. Answers to claims
and confirmations are stored under a key made of user, run and version and given again to whoever asks again
(`Keyed`), refusals included.

**WorkRequest** is a desktop's materialization (`work-request-materializer.ts`,
`work-request-service.ts`): list, claim, create the run with its binding in one LocalStore
transaction, confirm, note the confirmation. `job` holds the token frozen at the start and the
version expected. `Interrupt` is a time-out or a crash at any point; what had been sent goes into `late`.
The outbox uploads the run at any time with the pairing of the moment (`Upload`).

Abstractions: requests share nothing (run ids and keys are digests over the request), so there is one;
a run id is a digest over local project and request, so a desktop stands for the one run it may create;
clocks are the flag `overdue`.

### Model-call budget

**CostLedger** is the Team's side of one project's model calls, one action per transaction under the
advisory lock: `ReserveModelCall`, `PrepareContinuation`, `ConfirmContinuation`, `SettleModelCall`,
`ReconcileModelCost`. Costs are derived from attempts and appended events as in
`buildModelCostRecords` (`CostOf`, `BudgetCost`, `AffectsBudget`); `Version` is the exact
snapshot a lead's correction or a card names.

**ModelCallBudget** is `governedModelCall` with the desktop's `modelCallGovernance`,
`model-cost-recovery.ts` and `model-budget-continuation.ts`: reserve, offer a card if refused, note the start,
dispatch, note the result, settle, forget; results noted and not settled are sent again. `record` stands for
the rows of `model_call_settlements`, `charge` for what the provider really charges, which no
program knows.

Abstractions: one project whose policy is enabled and stays; one operation; small amounts; the provider
charges a verified bound in full and exceeds an estimate by one; a failed call that shows its
usage is booked like an answer, a cancelled one like a failed one; every call names the approval there
is; a change of pairing looks like a settlement that fails; the ten minutes after which a running call may be
corrected may have passed or not.

### GitHub delivery

**DeliveryTeam** is `postgres-github-delivery-repository.ts` for one series of attempts. Every operation is
one transaction that compares the versions its caller read; where it may be refused, one operator says when it is
granted (`MayReserve`, `MayFinalizeGrant`, `MayConfirmClearance`, `MayReport`, ...) and one what it does
(`Reserve`, `FinalizeGrant`, ...). `Cleared` is the Team's certainty that nobody can push with
the credential of a grant any more, which is what a new reservation waits for.

**GitHubDelivery** is `github-delivery-service.ts` and `github-app-client.ts`, a call of the desktop in steps:
`Reserving`, `Minting`, `Minted`, `Revoking`, `Settling`, `Confirming` for a credential, `Reporting`,
`Verifying`, `Recording` for a publication, `Opening`, `Creating` or `Finding`, `Finishing` for the pull request.
`call` holds a handler's place and local variables; a handler goes on when the desktop no longer waits for it
(`waits`). `intent`, `Advance`, `Push`, `Stop`, `Retry` are the desktop's `github-delivery-processor.ts`.
`token`, `branch` and `draft` are GitHub; `told` is a history variable.

Abstractions: revisions of the content are one commit; checks of authority, content and expiry that refuse and
change nothing are left out; intermediate local statuses that the desktop leaves at once are folded into the next;
a credential that could not be given back, or was lost on the way, is just alive until it expires.

### Workflow run

**WorkflowEngine** is `workflow-transition.ts` as pure operators on a run and its evidence: `Allowed` is
`evaluateWorkflowCommand` (`Structured` its check of the run, `Supported` its check of the evidence per command,
`DeliveryEvidence` and `Deliveries` what it asks of coding runs, tests and deliveries), `Applied` is
`applyWorkflowCommand`. `Normalized` is `normalizeWorkflowRunProgress`, which LocalStore applies to every run it reads
or writes. `SentBack` and `Redesigned` are the two changes that go past the engine (`requestClarificationChanges`,
`applyDesignRevision`). The nodes are the numbers 1 to 8 along the chain `createWorkflowRunFromRequest` makes.

**WorkflowRun** is what moves a run on a desktop. A handler of the main process sets out on a command (`GenerateStage`,
`ReviseDesign`, `ReviewGate`, `RunTests`, `CreatePackage`, `CreateBundle`, `ApproveAcceptance`, and the delivery
processor's `AdvanceDelivered`) for the run it has read, awaits, and calls the workflow runtime: `Decide` reads the
run again and applies the engine, `Commit` is `commitWorkflowMutation`, which compares the stored run with the one the
decision was taken on. `op` holds, per handler, its place, command and what it read. `ApproveRemotely` is a Gate
Command's decision, applied in one transaction (how that comes about is GateCommand's matter). `StartCoding` to `EndCoding` are
the coding runtime as far as a build depends on it: the native engine completes its run before the build, OpenCode
after it (`AcceptChanges`, `SettleCoding`). `PrepareDelivery`, `ReplaceDelivery` and `FinishDelivery` are the intents of
`github-delivery-runtime.ts`; what happens between them is GitHubDelivery's.

Abstractions: an artifact is its number within its node, a package the version of the run it was named for, a delivery's
pull request its number; what the evidence says beyond its status (diffs, texts, digests of the right node and project) is
right; policy, role, review and budget of an approval allow it (they are the `material` of the gate commands); the
runtime's comparison by `updatedAt` and the store's by the whole run are comparisons by version (two changes within
one millisecond count as distinguished; that the version distinguishes them is a property); the deletion of a
run is left out.

## 4. What the runs check

| Run | Bounds | Distinct states | Properties |
| --- | --- | --- | --- |
| `gate_snapshot` | 2 commands, 4 instants, 2 changes of the run, 1 fault | 1.42 M | `OneActivePerTuple`, `ImplementsDecision` |
| `gate_decided` | 1 command, clocks apart by up to one, revocation, changing material, denied bearer, 2 faults | 0.95 M | `TeamRecordsTruth`, `DecidedUnderLease`, `AcknowledgedMeansRecorded`, `DrainedBeforeInbox`, `AppliesOnlyWhenCurrent`, `DecidedOnce`, `TerminalIsFinal` |
| `gate_settled` | 1 command, 5 instants, leases shorter than the command, 2 faults, equal clocks | 0.13 M | `LeasesDoNotOverlap`, `RefusedOnlyIfRevoked`, `DecisionsGetSettled`, `CommandsResolve` |
| `store_durable` | calls of 2, 1 and 0 rows, 2 crashes | 3,534 | `AllOrNothing`, `AnswersAreTrue`, `AheadOnlyByRunning`, `RevisionTellsChange`, `ImplementsAtomicStore`, `CallsEnd` |
| `outbox_scopes` | run and one evidence, 2 Team projects and another local project, 2 saves each, 1 fault | 2.25 M | `SendsWithinScope`, `CompletedMeansSynced`, `ScopeNeverChanges` |
| `outbox_settles` | run and one runtime, 2 saves each, one pairing, 2 attempts, 1 fault, 1 retry by hand, 1 budget check | 0.25 M | `OperationsSettle`, `SavedIsSynced` |
| `work_request` | 2 desktops, one paired twice by one user, another user, 4 changes of the request, 1 change of access, 1 late request | 1.64 M | `RunNeedsClaim`, `OnlyClaimedRunIsShown`, `MaterializedIsReal`, `OneAnswerPerKey` |
| `model_call_budget` | 3 calls (2 with a bound), a budget for one, an approval and a card for one more each, 2 cards | 0.92 M | `NeverOverspent` |
| `model_call_settled` | 2 calls, 2 months, 2 faults, 1 late request, 1 correction each | 1.95 M | `EveryCallIsBooked`, `ForgottenMeansSettled`, `LeadsOverruleKnowingly` |
| `github_delivery` | 2 attempts with 2 credentials each (the code grants 3), 2 calls side by side, 4 faults | 1.05 M | `OneLiveToken`, `AnsweredMeansCleared`, `EndsAreTrue` |
| `workflow_run` | 2 handlers, both engines, 3 clarifications, 2 designs, 2 coding runs, 2 tests, 2 packages, 3 intents, 1 crash | 1.29 M | `RunStaysSound`, `GateIsReviewable`, `AcceptedOnEvidence`, `ApprovesWhatWasSeen`, `VersionTellsRunsApart` |

Type invariants are proved (section 7) rather than repeated in the runs.

**Gate commands.** At most one command is active per snapshot, so an approval and a
rejection of the same snapshot are never both on their way. An approval moves the run only
if run and material are, at the commit, what the approver saw; nothing is decided
twice; the decision was taken while holding the lease it names; the Team publishes
exactly what the desktop did, and a finished command changes only from expired to a decision
taken in time. With equal clocks and a bearer that is not denied, faults alone never lose
a decision: the Team refuses one for good only if it withdrew the command from a
requester who lost the role. Every command and every decision comes to an end.

**LocalStore.** Whatever fails and whenever the process dies, the file holds a
mutation completely or not at all; resolved calls stay; rejected ones leave nothing; direct
readers are never ahead of the file by more than the one running call.

**Outbox.** An operation shown as completed is the truth, although older uploads
arrive late and entities are saved during uploads; whatever the pairing does between the
processor's two looks at it, an upload for an operation goes where the operation is bound.

**Work requests.** A desktop creates a run only under a claim the Team granted it; losers create nothing, and the
Team never shows a run but the present claimant's, however late an upload comes. When the Team calls a request
materialized, the run is in the claimant's LocalStore, and a desktop that noted the confirmation
keeps the request. Nobody is told two different things about one attempt.

**Model calls.** In no month do the calls cost more than the budget, the approval and the confirmed cards of that
month together, as far as prices hold and leads have not put in another cost. Whatever is lost, a call
that was sent stays in the ledger with its charge or more, or as unknown; the desktop forgets a
result only when the Team has it; and a correction made without knowing the settlement
becomes a conflict instead of hiding it.

**GitHub delivery.** However calls overlap, fail and outlive the desktop that made them, GitHub never knows two
credentials of one delivery; a desktop told that the binding is inactive ends its intent, and no credential that was
not handed out is left for anybody; the desktop calls a delivery completed, failed or revoked only when the Team does
(completed: with the draft open), and attempts left behind stay ended.

**Workflow run.** Whatever handlers, remote approvals, coding runs and deliveries do in whichever order, and although
each decides on what it read before an await, the stored run always has one current node, everything before it passed and
everything after it untouched, so neither the engine's own check nor LocalStore's rewriting ever bites; no two runs
carry the same version; a waiting requirement gate is linked to exactly the latest clarification, still open; a gate is
passed for the artifact its approver named, even if another was put in its place meanwhile; and a completed run has its
approved clarification, completed coding run, latest passed and reported test, and the one completed delivery of its only
package.

*Bounds.* Two commands suffice for competition (snapshots compare pairwise), one for
everything about one command's life; two saves make one save during an upload and one
upload overtaken by another; two faults (Gate Command, LocalStore) give a fault during the
recovery from a fault; two Team projects a re-pairing; two desktops and
a second token a competition and a re-pairing (`MaxVersion` 5 leaves room for claim, release, second claim and confirmation); three calls
one that fits, one that needs the approval and one that needs a card; two calls side by side let a call
that was given up meet the one made after it, two attempts an adoption, two credentials a renewal; two
handlers suffice because a commit is compared with one other change at a time, three clarifications give two rejections, two packages a stale one, three intents a
revision and a retry. A fault of a delivery is a failing
or timed-out request, a stop, a crash or somebody else's push, and four of them fit into one behaviour; deadlock is not checked there, nor for a workflow run, because a
series of attempts, and a run, may end. Calls and handlers are symmetric. The instants of the Gate Command runs let a command, and within it a
lease, run out before, between and after every step. In `outbox_scopes` the Team projects, and in
`gate_snapshot` the commands, are symmetric (no liveness is checked there). Evidence and runtimes
are not in one run: they meet only in the run's row, which both can do without.

*Mutants.* Each property of a passing run is paired in `PROJECT.json` with at least one
mutated definition, a plausible slip in the code (a dropped check, a guard read too early,
an unawaited write), under which TLC reports the property violated.

## 5. Disagreements found

One is a run of its own, expected to be violated by the model of the code.

1. `delivery_resumes`, `PublicationResumes` (`docs/plans/v1.5-github-delivery.md`, lines 111 and 113: work that must be
   recovered can be resumed): GitHub does not answer once while a publication is verified, and both publication
   and request wait in `recovery_required`. Whoever resumes asks for a credential first; the grant was
   consumed by the report and counts as neither cleared nor issued, so the Team refuses, and the intent falls back, every
   time. The repository could take the report again with the consumed grant (`Rearms`), but no caller gets there.

Met while modelling, without a run:

- The handler of "delete run" (`main.ts:3411`) deletes the Team's row first; LocalStore then refuses to delete a run that
  is bound to a work request. The Team has forgotten that the claim's run was accepted, and a lead may release the
  claim, which ADR 0012 (line 49) allows only before any projection was accepted.
- A second package attached at the pull request node (its name carries the run's version, which the first one raised) is
  the one that can be delivered, but acceptance looks for deliveries of the first attached package: the run can then not be accepted.
- OpenCode's coding run is completed after the build has advanced. A crash or a cancellation in between leaves a run at its
  test node without a completed coding run, which tests insist on, and no handler leads back to the build. A
  coding run reserved just after the build advanced, which ends at once, has the same effect on the tests, which take the latest.
- Two completed coding runs (the first one's completion of the build failed and the build was done again) make `createPrDraft`,
  which wants exactly one, refuse for ever.
- `commitGitHubDeliveryReplacement` looks for active intents only: an attempt that ended can be retried after a later one was completed
  and before the run advanced. If that one is completed too, there are two for the package, and `complete_pr` wants exactly one.
- Operations of the outbox that ended with `pairing_required` are said to be queued again on pairing. The processor reads
  "no pairing" directly, its settlement waits behind the saving of the new pairing, the handler's list (a
  direct read) still sees the operation as being sent, and it ends afterwards. The next save of the entity, a
  retry by hand or pairing once more repairs it.
- The Team answers a runtime summary whose run it lacks just as it answers evidence, but the client recognizes
  that answer on the three evidence paths only; the fallback upload written for runtimes is never reached.
- ADR 0012 has the Team reject the commands of a revoked requester before delivery; the code also
  revokes those being delivered, so a command the desktop applied may end as `requester_revoked`.
- ADR 0012 says an expired command is never applied; the commit compares the window with the time of the
  evaluation, so a process held up in between applies it later.
- A desktop whose claim was released and which claims the request again finds its old binding in
  the way and never materializes the new claim.
- Answers are kept per user: a desktop paired anew by the same user can be told it holds a claim that is its
  old token's; a refusal for lack of access is given again after access is restored.
- An approval counts a running call as infinite, so it admits one call at a time.

## 6. Fairness

- `GateCommand!FairSpec`: weak fairness of `PollStep` (the scheduler arms its next poll
  in a `finally`, whatever the last one did) and of `TimeStep` (clocks run). Nobody has to
  create a command, no summary and no late request has to arrive, and faults, being
  bounded, stop.
- `DurableStore!FairSpec`: weak fairness of `Work`, the promise chain and the file system; which
  way a call goes is open, so a failing disk is allowed to fail for ever.
- `RemoteSyncOutbox!FairSpec`: weak fairness of the processor (15 s poll), of time, and of the
  pairing handler's second half. `SavedIsSynced` assumes further that the pairing stays and
  that the run's operation does not run out of attempts.
- `GitHubDelivery!FairSpec`: weak fairness of every call's progress (the API's handlers run to their end), of
  the desktop, including that somebody resumes what waits for it, and of the expiry of credentials. It is
  used only to show that a resumed publication gets nowhere even so.

## 7. Proofs

Checked by TLAPS for every set of commands, calls, desktops, entities and Team projects, every bound
and every offset of the clocks, from the assumptions named in the modules: `TimesAssumption`,
`RevocableAssumption`, `NoneAssumption` (GateTeam), `SkewsAssumption`, `MaterialsAssumption`,
`MaxVersionAssumption` (GateDesktop), `FaultsAssumption` (GateCommand), `PartsAssumption`,
`CrashesAssumption` (DurableStore), `EntitiesAssumption`, `PairingAssumption`, `BoundsAssumption`
(OutboxStore), `LimitsAssumption` (RemoteSyncOutbox), `TeamAssumption` (WorkRequestTeam),
`DesktopAssumption` (WorkRequest), `LedgerAssumption`, `NoneAssumption` (CostLedger), `DeliveryAssumption`
(DeliveryTeam), `CallAssumption` (GitHubDelivery), `EnginesAreKnown` (WorkflowRun). They say no more than the types of the constants, that `None` is nothing else (SQL's null is neither a number, a
decision nor an outcome), and that runs, evidence and runtimes are different things. No constant is assumed finite: what is summed or counted is shown to be.

**GateCommandProofs** proves `TypeCorrect` and `RecordsTruth`. `TeamRecordsTruth` is not inductive:
that an acknowledgement carries the truth depends on where it comes from, possibly long ago. The
invariant `IInv` adds what ties the parts together: `LoopLinks` (what the loop has in hand
exists, in the store or in the Team's tables), `StoreLinks` (a decision names a receipt there is; an
acknowledgement on the wire, also one given up, is the stored decision), and
`TeamLinks` (what the Team stored is what was sent, and the status goes with it). One lemma per action.

The second half of the module builds on it:

- `OneActive`, `FinalEnds` follow from three facts about every step of a command (`Keeps`): what
  is final lasts, an activated command was free before, only creation activates;
- `Once` from the fact that only `CommitDecision` writes `exec`, and only where there is nothing;
- `CurrentWhenApplied` needs that what `processCommand` read before its awaits can still be compared
  at the commit (`Evaluated`, proved first);
- `DrainedFirst` needs that commands taken while serving the inbox have no pending
  acknowledgement, through the whole item (`Serving`);
- `RecordedIfAcknowledged` needs what the answer in hand says of the Team's tables (`Answered`),
  and that acknowledgements stay there.

The last part is about leases and decisions, each invariant resting on the ones before. What a step does to the
Team's tables is first brought down to five operations on one command and the sweep (`StepOnTeam`).

- `LeasesFollow`: a lease that is still open is given again, so a new one begins where the one before
  has ended. `LeasesOf` says why: only the acknowledgement that the Team has stored closes one early, and
  then the command is over.
- `DecidedInTime`: `DecisionInv` follows a decision from the loop's hands to `exec`. Its moment lies within
  the lease it was taken under (`Timely`), an expiry is decided only once the command is over, and what it says of
  run versions is true (`VersionInv`: whatever version the Team knows, the run has had).
- `OnlyWithdrawnRefused`: a decision that is `Timely` and well formed passes every test of
  `acknowledgeGateCommand`, unless the command was withdrawn or the desktop's clock runs ahead
  (`RefusedInv`); `EndInv` says that a command rejected without a decision was withdrawn.
- `ImplementsRegister`: the refinement of GateDecision. `exec` is the verdict, and what is published
  is the stored acknowledgement, or that the command was withdrawn or lapsed. Only
  `CommitDecision` decides, only `AcceptAck` publishes, to the register a sweep closes an open command
  or does nothing, and everything else stutters.

**DurableStoreProofs** proves every safety property of DurableStore and that it implements
AtomicStore. `IInv` strengthens `TypeOK` by: no call is queued twice; per phase, what memory,
snapshot, temporary file and file have in common (`PhaseLinks`: they differ in the running
call only, which is what makes putting the snapshot back right); what each answer says of the file
(`FileLinks`); what a sampled revision says of it (`SampleLinks`). In the refinement, `Rename`
is the step that takes effect; settling answers; a crash loses the answers outstanding; the rest
stutters.

**OutboxProofs** proves all safety properties of the outbox. `CompletedMeansSynced` needs two
strengthenings that reach into the past: of the operation the processor holds (`HeldJob`,
`HeldResult`: as long as id, generation and status match, the entity has not been saved since it was
read, hence what was sent is what is saved, and it went where the operation is bound), and of
every request on the wire, the ones given up included (`NothingNewer`: it carries a version that
was saved, so no late one can overwrite what the Team took for the present version).
`ScopeLasts` follows from what each write of an operation does to its scope.

**WorkRequestProofs** proves all invariants of work requests. Of the Team (`TeamInv`): the projected row
names the claimant; and every answer ever given stays true (`AnswersHold`), because claims
stand or become tombstones (`Lasting`). That is what a desktop relies on when its claim is
repeated after a lost answer. Of the desktops (`DesktopInv`): a local binding and a job in hand were granted
by such an answer (`BindingHolds`, `JobHolds`), and late requests carry what their senders
had been told (`Sound`).

**ModelCallBudgetProofs** proves what becomes of single calls: booked, forgotten only when settled,
overruled knowingly. The invariant says, per call, what the desktop's record and job know of the
Team's attempt (`ResultHolds`, `SettlementHolds`), what a correction knew (`CorrectionHolds`) and
what may be forgotten (`ForgottenHolds`).

Its second half proves `WithinBudget`, a statement about sums over calls. The invariant `BudgetHolds`
gives each source of money an account (`FundsHold`): in every month, calls admitted without card and approval hold no
more than the budget, calls without card no more than budget and approval, and the calls of a card no more
than the card allows. A call *holds* the price it was admitted for until it is settled, then its charge as
far as admission vouched for it (`Held`); so dispatch changes nothing, settlement only lowers it, and a corrected call is out of the
sums for good. Admission is where something has to be shown: what the Team books of a call covers what it holds,
wherever the Team knows the cost (`BookedCoversHeld`), and calls whose cost it does not know stop all admission but by
a card, which has its own account (`SpendCoversOwn`, `ApprovalCovers`, `CardCovers`). The sums themselves
need no induction over data: `SumOver` is the value of a function that is shown to exist (`SumsExist`) and to be unique
(`SumsAgree`), and the induction in these proofs is over a *set* of subsets (`SubsetInduction`, from the well-foundedness of strict inclusion).
`BudgetCostSum` and its like tie the library's `MapThenSumSet` to it.

**GitHubDeliveryProofs** proves `OneLiveToken` and `AnsweredMeansCleared`. `IInv` says: of any two grants
of the series one is cleared (`OneUncleared`), and a credential that is alive belongs to one that is not
(`LiveUncleared`), hence there is one at most. What makes it inductive is about calls, the ones nobody waits
for any more included: no two work on the same credential (`NobodyElse`), and each knows of its credential
and grant what its place says (`WorkHolds`). `ToldHolds` ties the answer "binding inactive" to grants:
from then on every grant that was not handed out is cleared and no other is reserved.

**GitHubDeliveryEnds** adds `Links` and proves `EndsAreTrue`. A request that has ended stays ended although calls
begun before are still under way: a reservation goes by the version it was given, which is older than
the end (`Reserves`). A completed request has its draft (`Finds`, `CompletedHasDraft`), and the desktop
waits only for calls of its own attempt (`WaitsForOwn`).

**WorkflowRunProofs** proves all five properties of a run. Its shape (`Flat`, which is `Sound` spelled out) is inductive
only together with what handlers hold in hand (`WellDecided`): a decision has that shape too and, as long as the stored run is the
one it was taken on, moves that run on by one version. A decision on an older run is never committed,
so nothing more need be said of it. Lemmas on the engine say that each of its results keeps the shape of a run, which
normalization then leaves alone. `GateIsReviewable` adds `GateInv`: a handler that generates a clarification has taken the number
after the last, for as long as the run is the one it set out from (`WritesNext`), and of the decisions only such a one leads to the gate, linking
that number (`LinksIt`).

`RunAcceptedOnEvidence` and `GatesApproveWhatWasSeen` need what a run keeps of its past while it moves on (`RunEvidence`): past its gate the
clarification stays approved, past the tests the latest one passed, the run goes on with the completed delivery of its latest package,
and the design gate has one design. What makes it inductive is again about handlers (`OpEvidence`): an approval names what its
gate is linked to (`NamesLinked`), there is one test on its way and it is the next (`OneTester`, `RecordsNext`), and a decision was taken on evidence
that is still there (`DecidedOn`), each for as long as the run is the one that was read. Evidence only grows while a run is worked on
(`Kept`, `Evolved`), so the decision may still be committed. Each command of the engine gets one lemma on what it links and what it sends back (`ResultFields`
and the lemmas built on it), and one on the evidence its result leaves behind (`Lands`).

Proved for all bounds, and therefore in no run: the type invariants `TypeOK` of GateCommand, DurableStore,
RemoteSyncOutbox, WorkRequest and WorkflowRun.

With that every safety property of the passing runs is proved: invariants, action properties and both refinements.

Only model-checked, within the bounds of section 4: all liveness (`DecisionsGetSettled`,
`CommandsResolve`, `CallsEnd`, `OperationsSettle`, `SavedIsSynced`), which is out of the prover's
reach, and the type invariant of ModelCallBudget, whose bound on amounts is the maximum over the set of calls, which need not
exist for infinitely many of them; the proofs use a weaker one (`Types`).

## 8. What is left out

- **Gate commands**: re-pairing or other scope changes while a command is on its way, several
  desktops on one project, the limit of 25 commands per poll, the seed repository.
- **LocalStore**: schema migrations and start-up maintenance, a start-up that fails, `close`,
  power loss (the code renames without an fsync).
- **Outbox**: memory summaries, several runs and local projects (claims of different projects
  only compete for the processor), a token's identity (pairing twice with the same project is
  one pairing here, so a runtime may be saved after it where the code wants its first token),
  usage rows and gate review subjects, unpairing (the code
  never deletes the credential on its own), the order of claims. The version of evidence at the Team is
  left out of `CompletedMeansSynced` because the code does not guarantee it: a summary that timed
  out and is handled late overwrites a newer one.
- **Work requests**: creation and cancellation, several requests, the seed repository, the digests themselves.
- **Model calls**: what the Team's own workers queue, partial usage observations, rows imported
  from older versions, breaches of a verified bound, idempotency keys of corrections, rollout
  switches, the coding runtime's cost summaries.
- **GitHub delivery**: several intents, repositories and bindings, a new binding after a revocation (it
  starts a series of its own), pull request requests that GitHub handles late, resuming an intent that is not in
  `recovery_required`, GitHub's own back-off, the workflow step after completion, the seed repository.
- **Workflow run**: what blocks approvals besides the artifacts (policy, role, review, budget), runs of older versions (clarifications
  without revisions, gates in status `blocked`, which no handler sets), deletion, several runs of one project, which share only
  the lock on active coding runs, and the coding runtime's permissions, questions and attempts.
- The components not modelled at all: section 2.

## 9. Plan

In order of importance; each with its configuration, mutants and, where marked, proofs.

1. **WorkflowRun**: an abstract chain of stages and the refinement; the blockers of approvals.
2. **GitHubDelivery**: an abstract specification of a delivery (a branch published, then a draft, or an end) and
   the refinement; a new binding, and with it a new series, after a revocation.
3. **GateCommand**: re-pairing while commands are on their way.
4. Agent coordination: resource leases and takeover; then the coding runtime's permissions and memory jobs.

## 10. Running it

In this directory: `tlc -config MCGateDecided.cfg MCGateCommand.tla` and likewise for each entry
of "runs" in `PROJECT.json`; `tlapm` with `GateCommandProofs.tla`,
`DurableStoreProofs.tla`, `OutboxProofs.tla`, `WorkRequestProofs.tla`, `ModelCallBudgetProofs.tla`,
`GitHubDeliveryProofs.tla`, `GitHubDeliveryEnds.tla` and `WorkflowRunProofs.tla` for the proofs.
