--------------------------- MODULE GitHubDelivery ---------------------------
(***************************************************************************)
(* One commit on its way to a draft pull request.  A desktop asks the API  *)
(* for a credential, pushes the commit with it, reports the push and asks  *)
(* for the pull request; the API works on each of these calls in several   *)
(* steps, transactions at the Team in turn with requests to GitHub, and    *)
(* goes on with a call when the desktop no longer waits for its answer.    *)
(* People approve, reject, stop, resume and retry; the binding may be      *)
(* revoked, requests to GitHub fail in every way, processes die, others    *)
(* push to the branch.                                                     *)
(***************************************************************************)
EXTENDS DeliveryTeam, FiniteSets

CONSTANTS
  Call,      \* calls the API can work on at the same time
  None,      \* no call
  MaxFaults  \* bound on failures, time-outs, stops and crashes

ASSUME CallAssumption == None \notin Call /\ MaxFaults \in Nat

VARIABLES
  token,   \* GitHub: [Attempt -> [1..MaxGrants -> state of the credential]]
  branch,  \* GitHub: what the head branch points to
  draft,   \* GitHub: the attempt whose pull request is open, or 0
  call,    \* API: [Call -> record]
  told,    \* history: has a desktop been told that the binding is inactive?
  intent,  \* desktop: the attempt it is at, and its status
  waits,   \* desktop: the call it waits for, or None
  held,    \* desktop: the credential it is about to push with
  faults

gitHubVars == <<token, branch, draft>>
desktopVars == <<intent, waits, held>>
vars == <<teamVars, gitHubVars, call, told, desktopVars, faults>>

FreeCall == [pc |-> "free", attempt |-> 1, n |-> 0, version |-> 0, row |-> 0,
             result |-> "none", clear |-> "none", answer |-> "none"]
NoToken == [n |-> 0, version |-> 0, row |-> 0]

Init ==
  /\ TeamInit
  /\ token = [a \in Attempt |-> [n \in 1..MaxGrants |-> "none"]]
  /\ branch = "absent"
  /\ draft = 0
  /\ call = [c \in Call |-> FreeCall]
  /\ told = FALSE
  /\ intent = [attempt |-> 1, status |-> "approval_required"]
  /\ waits = None
  /\ held = NoToken
  /\ faults = 0

Fault == faults < MaxFaults /\ faults' = faults + 1

Ended == {"completed", "failed", "revoked"}

Local(status) == intent' = [intent EXCEPT !.status = status]

-----------------------------------------------------------------------------
(* Calls.  "version" is the version of the request the call goes by, "row" *)
(* that of the grant, the publication or the pull request it works on.     *)

At(c) == call[c].pc
Go(c, next) == call' = [call EXCEPT ![c] = next]
Step(c, pc) == Go(c, [call[c] EXCEPT !.pc = pc])

Ask(c, pc, version) ==
  Go(c, [FreeCall EXCEPT !.pc = pc, !.attempt = intent.attempt,
                         !.version = version])

(* Mutant: a call that has failed ends the attempt on the desktop.         *)
HearErrorAsFailure(c) ==
  Local("failed") /\ Go(c, FreeCall) /\ waits' = None /\ UNCHANGED held

HearError(c) ==
  /\ Local("recovery_required")
  /\ Go(c, FreeCall)
  /\ waits' = None
  /\ UNCHANGED held

Hear(c, answer, version) ==
  CASE answer \in {"verified", "adopted"} ->
         /\ Local("creating_pr")
         /\ Ask(c, "opening", version)
         /\ UNCHANGED <<waits, held>>
    [] answer = "no_evidence" ->
         /\ Local("publishing_branch")
         /\ Ask(c, "reserving", version)
         /\ UNCHANGED <<waits, held>>
    [] answer = "token" ->
         /\ held' = [n |-> call[c].n, version |-> version,
                     row |-> call[c].row + 1]
         /\ waits' = None
         /\ Go(c, FreeCall)
         /\ UNCHANGED intent
    [] answer \in {"completed", "binding_inactive"} ->
         /\ Local(IF answer = "completed" THEN "completed" ELSE "revoked")
         /\ waits' = None
         /\ Go(c, FreeCall)
         /\ UNCHANGED held
    [] answer = "error" -> HearError(c)

(* The desktop acts on the answer if it still waits for it.                *)
Reply(c, answer) ==
  IF waits = c
  THEN Hear(c, answer, request'[call[c].attempt].version)
  ELSE Go(c, FreeCall) /\ UNCHANGED desktopVars

(* Of a refusal the desktop tells apart only that the binding is inactive. *)
Refusal == IF bound THEN "error" ELSE "binding_inactive"

-----------------------------------------------------------------------------
(* The credential.                                                         *)

Reserving(c) ==
  LET a == call[c].attempt IN
  /\ At(c) = "reserving"
  /\ IF MayReserve(a, call[c].version)
     THEN /\ Reserve(a)
          /\ Go(c, [call[c] EXCEPT !.pc = "minting", !.n = Len(grants'[a]),
                                   !.version = request'[a].version, !.row = 1])
          /\ UNCHANGED <<told, desktopVars>>
     ELSE /\ UNCHANGED teamVars
          /\ IF ReplaysIssued(a)
             THEN /\ Go(c, [call[c] EXCEPT !.pc = "observing",
                                           !.n = Len(grants[a]),
                                           !.version = request[a].version,
                                           !.row = Current(a).version])
                  /\ UNCHANGED <<told, desktopVars>>
             ELSE LET answer == IF PendingUnissued THEN "error" ELSE Refusal IN
                  /\ Reply(c, answer)
                  /\ told' = (told \/ answer = "binding_inactive")
  /\ UNCHANGED <<gitHubVars, faults>>

(* By GitHub's own clock the credential handed out before has expired: the *)
(* next attempt to reserve may get a new one.                              *)
Observing(c) ==
  LET a == call[c].attempt n == call[c].n IN
  /\ At(c) = "observing"
  /\ IF /\ token[a][n] # "live"
        /\ MayConfirmExpiry(a, n, call[c].version, call[c].row)
     THEN ConfirmExpiry(a, n)
     ELSE UNCHANGED teamVars
  /\ Reply(c, "error")
  /\ UNCHANGED <<gitHubVars, told, faults>>

Minting(c) ==
  /\ At(c) = "minting"
  /\ token' = [token EXCEPT ![call[c].attempt][call[c].n] = "live"]
  /\ Step(c, "minted")
  /\ UNCHANGED <<teamVars, branch, draft, told, desktopVars, faults>>

(* Nothing was asked of GitHub; what came back was no good and has been    *)
(* given back; it could not be given back; or nothing is known.            *)
MintingFails(c) ==
  /\ At(c) = "minting"
  /\ Fault
  /\ \E fate \in {<<"none", "failed", "absent">>,
                  <<"revoked", "failed", "revocation">>,
                  <<"revoked", "failed", "none">>,
                  <<"live", "failed", "none">>,
                  <<"none", "recovery_required", "none">>,
                  <<"live", "recovery_required", "none">>} :
       /\ token' = [token EXCEPT ![call[c].attempt][call[c].n] = fate[1]]
       /\ Go(c, [call[c] EXCEPT !.pc = "noting", !.result = fate[2],
                                !.clear = fate[3], !.answer = "error"])
  /\ UNCHANGED <<teamVars, branch, draft, told, desktopVars>>

(* The time to ask for the credential is over.                             *)
LeasePasses(c) ==
  /\ At(c) = "minting"
  /\ Fault
  /\ Go(c, [call[c] EXCEPT !.pc = "settling", !.clear = "absent",
                           !.answer = "error"])
  /\ UNCHANGED <<teamVars, gitHubVars, told, desktopVars>>

Granted(c) ==
  MayFinalizeGrant(call[c].attempt, call[c].n, call[c].version, call[c].row)

TryFinalizeGrant(c, status) ==
  IF Granted(c)
  THEN FinalizeGrant(call[c].attempt, call[c].n, status)
  ELSE UNCHANGED teamVars

Noting(c) ==
  /\ At(c) = "noting"
  /\ \/ TryFinalizeGrant(c, call[c].result) /\ UNCHANGED faults
     \/ Fault /\ UNCHANGED teamVars
  /\ IF call[c].clear = "none"
     THEN Reply(c, "error")
     ELSE Step(c, "settling") /\ UNCHANGED desktopVars
  /\ UNCHANGED <<gitHubVars, told>>

GiveBack(c, answer) ==
  /\ Go(c, [call[c] EXCEPT !.pc = "revoking", !.answer = answer])
  /\ UNCHANGED desktopVars

Minted(c) ==
  /\ At(c) = "minted"
  /\ IF Granted(c)
     THEN /\ FinalizeGrant(call[c].attempt, call[c].n, "issued")
          /\ Reply(c, "token")
     ELSE /\ UNCHANGED teamVars
          /\ GiveBack(c, Refusal)
  /\ UNCHANGED <<gitHubVars, told, faults>>

(* The answer of the Team's database is lost, or the credential came too   *)
(* late or with another scope.                                             *)
MintedInVain(c) ==
  /\ At(c) = "minted"
  /\ Fault
  /\ \/ TryFinalizeGrant(c, "issued") /\ GiveBack(c, "error")
     \/ UNCHANGED teamVars /\ GiveBack(c, "error")
     \/ TryFinalizeGrant(c, "failed") /\ GiveBack(c, Refusal)
  /\ UNCHANGED <<gitHubVars, told>>

Revoking(c) ==
  LET a == call[c].attempt n == call[c].n IN
  /\ At(c) = "revoking"
  /\ IF token[a][n] = "live"
     THEN /\ token' = [token EXCEPT ![a][n] = "revoked"]
          /\ Go(c, [call[c] EXCEPT !.pc = "settling", !.clear = "revocation"])
          /\ UNCHANGED desktopVars
     ELSE Reply(c, "error") /\ UNCHANGED token
  /\ UNCHANGED <<teamVars, branch, draft, told, faults>>

(* A credential is cleared only once it is certain that it is gone.        *)
Settling(c) ==
  /\ At(c) = "settling"
  /\ \/ TryFinalizeGrant(c, "failed") /\ UNCHANGED faults
     \/ Fault /\ UNCHANGED teamVars
  /\ Step(c, "confirming")
  /\ UNCHANGED <<gitHubVars, told, desktopVars>>

Confirming(c) ==
  LET a == call[c].attempt n == call[c].n IN
  /\ At(c) = "confirming"
  /\ IF MayConfirmClearance(a, n, call[c].version, call[c].row, call[c].clear)
     THEN /\ ConfirmClearance(a, n, call[c].clear)
          /\ Reply(c, call[c].answer)
          /\ told' = (told \/ call[c].answer = "binding_inactive")
     ELSE /\ UNCHANGED <<teamVars, told>>
          /\ Reply(c, "error")
  /\ UNCHANGED <<gitHubVars, faults>>

-----------------------------------------------------------------------------
(* The publication.                                                        *)

Reporting(c) ==
  LET a == call[c].attempt IN
  /\ At(c) = "reporting"
  /\ IF MayReport(a, call[c].n, call[c].version, call[c].row)
     THEN /\ Report(a, call[c].n)
          /\ Go(c, [call[c] EXCEPT !.pc = "verifying",
                                   !.version = request'[a].version,
                                   !.row = publication'[a].version])
          /\ UNCHANGED desktopVars
     ELSE UNCHANGED teamVars /\ Reply(c, Refusal)
  /\ UNCHANGED <<gitHubVars, told, faults>>

(* Does the branch stand where the desktop has pushed it?                  *)
Verifying(c) ==
  /\ At(c) = "verifying"
  /\ \/ /\ Go(c, [call[c] EXCEPT !.pc = "recording", !.result =
                    IF branch = "ours" THEN "verified" ELSE "conflict"])
        /\ UNCHANGED faults
     \/ /\ Fault
        /\ \E result \in {"failed", "recovery_required"} :
             Go(c, [call[c] EXCEPT !.pc = "recording", !.result = result])
  /\ UNCHANGED <<teamVars, gitHubVars, told, desktopVars>>

Recording(c) ==
  LET a == call[c].attempt IN
  /\ At(c) = "recording"
  /\ IF MayFinalizePublication(a, call[c].version, call[c].row)
     THEN /\ FinalizePublication(a, call[c].result)
          /\ Reply(c, IF call[c].result = "verified"
                      THEN "verified" ELSE "error")
     ELSE UNCHANGED teamVars /\ Reply(c, "error")
  /\ UNCHANGED <<gitHubVars, told, faults>>

Adopting(c) ==
  LET a == call[c].attempt IN
  /\ At(c) = "adopting"
  /\ IF MayAdopt(a, call[c].version) /\ Adoptable(a)
     THEN Adopt(a) /\ Reply(c, "adopted")
     ELSE /\ UNCHANGED teamVars
          /\ Reply(c, IF MayAdopt(a, call[c].version)
                      THEN "no_evidence" ELSE Refusal)
  /\ UNCHANGED <<gitHubVars, told, faults>>

-----------------------------------------------------------------------------
(* The draft pull request.                                                 *)

Opening(c) ==
  LET a == call[c].attempt
      Continue(pc) ==
        /\ Go(c, [call[c] EXCEPT !.pc = pc, !.version = request'[a].version,
                                 !.row = pullRequest'[a].version])
        /\ UNCHANGED desktopVars
  IN
  /\ At(c) = "opening"
  /\ IF MayReservePullRequest(a, call[c].version)
     THEN ReservePullRequest(a) /\ Continue("creating")
     ELSE /\ UNCHANGED teamVars
          /\ CASE ~ReplaysPullRequest(a) -> Reply(c, Refusal)
               [] ReplaysPullRequest(a) /\ pullRequest[a].status = "creating" ->
                    Continue("finding")
               [] ReplaysPullRequest(a) /\ pullRequest[a].status = "completed" ->
                    Reply(c, "completed")
  /\ UNCHANGED <<gitHubVars, told, faults>>

Resolve(c, result) ==
  Go(c, [call[c] EXCEPT !.pc = "finishing", !.result = result])

(* The one pull request of the branch must be this attempt's, and show the *)
(* commit.                                                                 *)
Looked(a) ==
  IF draft = a /\ branch = "ours" THEN "completed" ELSE "failed"

(* Somebody else has reserved the pull request, maybe has opened it.       *)
Finding(c) ==
  /\ At(c) = "finding"
  /\ Resolve(c, IF draft = 0 THEN "recovery_required"
                ELSE Looked(call[c].attempt))
  /\ UNCHANGED <<teamVars, gitHubVars, told, desktopVars, faults>>

Creating(c) ==
  LET a == call[c].attempt IN
  /\ At(c) = "creating"
  /\ draft' = IF draft = 0 THEN a ELSE draft
  /\ Resolve(c, IF draft' = a /\ branch = "ours" THEN "completed" ELSE "failed")
  /\ UNCHANGED <<teamVars, token, branch, told, desktopVars, faults>>

(* It is unknown whether the pull request has been opened.                 *)
ResolvingFails(c) ==
  /\ At(c) \in {"finding", "creating"}
  /\ Fault
  /\ draft' \in IF At(c) = "creating" /\ draft = 0
                THEN {0, call[c].attempt} ELSE {draft}
  /\ \E result \in {"failed", "recovery_required"} : Resolve(c, result)
  /\ UNCHANGED <<teamVars, token, branch, told, desktopVars>>

Finishing(c) ==
  LET a == call[c].attempt IN
  /\ At(c) = "finishing"
  /\ IF MayFinalizePullRequest(a, call[c].version, call[c].row, call[c].result)
     THEN /\ FinalizePullRequest(a, call[c].result)
          /\ Reply(c, IF call[c].result = "completed"
                      THEN "completed" ELSE "error")
     ELSE UNCHANGED teamVars /\ Reply(c, "error")
  /\ UNCHANGED <<gitHubVars, told, faults>>

(* The API dies, or its database does, and the call with it.  A credential *)
(* it was asking for may come into being.                                  *)
Die(c) ==
  /\ At(c) # "free"
  /\ Fault
  /\ token' \in {token} \union
       IF At(c) = "minting"
       THEN {[token EXCEPT ![call[c].attempt][call[c].n] = "live"]} ELSE {}
  /\ UNCHANGED <<teamVars, branch, draft, told>>
  /\ IF waits = c
     THEN HearError(c)
     ELSE Go(c, FreeCall) /\ UNCHANGED desktopVars

Proceed(c) ==
  \/ Reserving(c) \/ Observing(c) \/ Minting(c) \/ Noting(c) \/ Minted(c)
  \/ Revoking(c) \/ Settling(c) \/ Confirming(c)
  \/ Reporting(c) \/ Verifying(c) \/ Recording(c) \/ Adopting(c)
  \/ Opening(c) \/ Finding(c) \/ Creating(c) \/ Finishing(c)

Break(c) ==
  \/ MintingFails(c) \/ LeasePasses(c) \/ MintedInVain(c)
  \/ ResolvingFails(c) \/ Die(c)

-----------------------------------------------------------------------------
(* The desktop.  It does one thing at a time.                              *)

Idle == waits = None /\ held = NoToken

DesktopIdle ==
  /\ Idle
  /\ intent.status \notin Ended
  /\ UNCHANGED <<gitHubVars, told, faults>>

(* The Team has no request yet.                                            *)
Submit ==
  /\ DesktopIdle
  /\ intent.status \in {"approval_required", "recovery_required"}
  /\ MayCreateRequest(intent.attempt)
  /\ CreateRequest(intent.attempt)
  /\ UNCHANGED <<call, desktopVars>>

Send(c, pc, status) ==
  /\ call[c] = FreeCall
  /\ Ask(c, pc, request[intent.attempt].version)
  /\ waits' = c
  /\ Local(status)
  /\ UNCHANGED held

Conclude(status) == Local(status) /\ UNCHANGED <<call, waits, held>>

(* What the Team knows of the attempt decides what comes next.  Only when  *)
(* somebody resumes the intent does it leave recovery_required.            *)
Advance ==
  LET a == intent.attempt
      status == request[a].status
      resumed == intent.status = "recovery_required"
      untouched == /\ grants[a] = <<>>
                   /\ publication[a].status = "none"
                   /\ pullRequest[a].status = "none"
      published == \/ status \in {"branch_published", "creating_pr"}
                   \/ /\ status = "recovery_required"
                      /\ resumed
                      /\ publication[a].status = "verified"
  IN
  /\ DesktopIdle
  /\ bound
  /\ status \notin {"none", "approval_required"}
  /\ \/ status \in Ended /\ Conclude(status)
     \/ /\ published
        /\ \E c \in Call : Send(c, "opening", "creating_pr")
     \/ /\ status = "approved" /\ resumed /\ a > 1 /\ untouched
        /\ \E c \in Call : Send(c, "adopting", "recovery_required")
     \/ /\ ~published
        /\ \/ status = "approved" /\ ~(resumed /\ a > 1 /\ untouched)
           \/ status \in {"publishing_branch", "recovery_required"} /\ resumed
        /\ \E c \in Call : Send(c, "reserving", "publishing_branch")
     \/ /\ status \in {"publishing_branch", "recovery_required"} /\ ~resumed
        /\ Conclude("recovery_required")
  /\ UNCHANGED teamVars

(* An intent that waits for somebody is completed all the same when the    *)
(* Team's request is.                                                      *)
ReconcileCompleted ==
  /\ DesktopIdle
  /\ intent.status \in {"creating_pr", "recovery_required"}
  /\ request[intent.attempt].status = "completed"
  /\ Conclude("completed")
  /\ UNCHANGED teamVars

(* The desktop sees that the binding it prepared the intent with is gone.  *)
ObserveBinding ==
  /\ DesktopIdle
  /\ ~bound
  /\ Conclude("revoked")
  /\ UNCHANGED teamVars

Publishable ==
  /\ token[intent.attempt][held.n] = "live"
  /\ branch \in {"absent", "ours"}

Push ==
  /\ held # NoToken
  /\ IF Publishable
     THEN /\ branch' = "ours"
          /\ \E c \in Call :
               /\ call[c] = FreeCall
               /\ Go(c, [FreeCall EXCEPT !.pc = "reporting", !.n = held.n,
                           !.attempt = intent.attempt, !.row = held.row,
                           !.version = held.version])
               /\ waits' = c
          /\ UNCHANGED intent
     ELSE /\ Local("recovery_required")
          /\ UNCHANGED <<branch, call, waits>>
  /\ held' = NoToken
  /\ UNCHANGED <<teamVars, token, draft, told, faults>>

(* Git fails, maybe after the push.                                        *)
PushFails ==
  /\ held # NoToken
  /\ Fault
  /\ branch' \in {branch} \union IF Publishable THEN {"ours"} ELSE {}
  /\ Local("recovery_required")
  /\ held' = NoToken
  /\ UNCHANGED <<teamVars, token, draft, call, told, waits>>

(* Somebody stops the delivery, or its time is over: the API goes on.      *)
Stop ==
  /\ intent.status \notin Ended \union {"recovery_required"} \/ ~Idle
  /\ Fault
  /\ Local("recovery_required")
  /\ waits' = None
  /\ held' = NoToken
  /\ UNCHANGED <<teamVars, gitHubVars, call, told>>

Crash ==
  /\ ~Idle
  /\ Fault
  /\ waits' = None
  /\ held' = NoToken
  /\ UNCHANGED <<teamVars, gitHubVars, call, told, intent>>

(* The next attempt, once the Team agrees that this one is over.           *)
Retry ==
  /\ Idle
  /\ intent.status \in {"failed", "revoked"}
  /\ bound
  /\ request[intent.attempt].status = intent.status
  /\ intent.attempt < MaxAttempts
  /\ intent' = [attempt |-> intent.attempt + 1, status |-> "approval_required"]
  /\ UNCHANGED <<teamVars, gitHubVars, call, told, waits, held, faults>>

-----------------------------------------------------------------------------
(* People and time.                                                        *)

TeamStep ==
  /\ RevokeBinding \/ \E a \in Attempt : Decide(a)
  /\ UNCHANGED <<gitHubVars, call, told, desktopVars, faults>>

ExpireToken(a, n) ==
  /\ token[a][n] = "live"
  /\ token' = [token EXCEPT ![a][n] = "expired"]
  /\ UNCHANGED <<teamVars, branch, draft, call, told, desktopVars, faults>>

ForeignPush ==
  /\ Fault
  /\ branch' = "other"
  /\ UNCHANGED <<teamVars, token, draft, call, told, desktopVars>>

DesktopStep ==
  Submit \/ Advance \/ ReconcileCompleted \/ ObserveBinding \/ Push \/ Retry

Next ==
  \/ \E c \in Call : Proceed(c) \/ Break(c)
  \/ DesktopStep \/ PushFails \/ Stop \/ Crash
  \/ TeamStep \/ ForeignPush
  \/ \E a \in Attempt, n \in 1..MaxGrants : ExpireToken(a, n)

Spec == Init /\ [][Next]_vars

(* The API and the desktop keep working, and somebody resumes whatever     *)
(* waits for it; credentials expire.                                       *)
FairSpec ==
  /\ Spec
  /\ \A c \in Call : WF_vars(Proceed(c))
  /\ WF_vars(DesktopStep)
  /\ WF_vars(\E a \in Attempt, n \in 1..MaxGrants : ExpireToken(a, n))

-----------------------------------------------------------------------------
(* Properties.                                                             *)

(* There is never more than one credential somebody could push with: a new *)
(* one is minted only when it is certain that all those before are gone.   *)
OneLiveToken ==
  \A a, b \in Attempt : \A n, m \in 1..MaxGrants :
    token[a][n] = "live" /\ token[b][m] = "live" => <<a, n>> = <<b, m>>

(* When a desktop asking for a credential is told that the binding is      *)
(* inactive, which ends its intent, no credential is alive of a grant that *)
(* was not issued, and none will be.                                       *)
AnsweredMeansCleared ==
  told => \A a \in Attempt : \A n \in DOMAIN grants[a] :
            ~grants[a][n].issued => token[a][n] # "live"

(* The desktop ends its intent only as it has ended at the Team: completed *)
(* with a draft pull request open, failed or revoked.  An attempt it has   *)
(* left behind never comes back.                                           *)
EndsAreTrue ==
  LET a == intent.attempt IN
  /\ intent.status = "completed" =>
       request[a].status = "completed" /\ draft = a
  /\ intent.status = "failed" => request[a].status = "failed"
  /\ intent.status = "revoked" => request[a].status = "revoked" \/ ~bound
  /\ \A b \in 1..(a - 1) : request[b].status \in {"failed", "revoked"}

(* Somebody who resumes a delivery whose publication could not be verified *)
(* gets it out of recovery_required, one way or another.                   *)
PublicationResumes ==
  \A a \in Attempt :
    (request[a].status = "recovery_required"
       /\ publication[a].status = "recovery_required")
    ~> request[a].status # "recovery_required"
=============================================================================
