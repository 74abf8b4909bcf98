------------------------- MODULE GitHubDeliveryEnds -------------------------
(***************************************************************************)
(* A proof that a desktop ends its delivery only as it has ended at the    *)
(* Team, on top of the types and of what calls at work know.               *)
(***************************************************************************)
EXTENDS GitHubDeliveryProofs

-----------------------------------------------------------------------------
(* The inductive invariant.                                                *)

Askable == {"approved", "publishing_branch", "recovery_required"}

Resolved == {"completed", "failed", "recovery_required"}

Finds(c) ==
  /\ At(c) = "noting" => call[c].result \in {"failed", "recovery_required"}
  /\ At(c) = "finishing" =>
       /\ call[c].result \in Resolved
       /\ call[c].result = "completed" => draft = call[c].attempt

(* A reservation under way cannot bring back a request that has failed     *)
(* since: it goes by the version before.                                   *)
Reserves(c) ==
  At(c) = "reserving" =>
    LET row == request[call[c].attempt] IN
    /\ call[c].version <= row.version
    /\ call[c].version = row.version => row.status \in Askable

CompletedHasDraft ==
  \A a \in Attempt :
    /\ pullRequest[a].status = "completed" => request[a].status = "completed"
    /\ request[a].status = "completed" => draft = a

WaitsForOwn == waits \in Call => call[waits].attempt = intent.attempt

Links ==
  /\ \A c \in Call : Finds(c) /\ Reserves(c)
  /\ CompletedHasDraft
  /\ WaitsForOwn
  /\ EndsAreTrue

-----------------------------------------------------------------------------
(* What a step does to the parts the invariant ties together.              *)

(* Requests that have ended stay.                                          *)
RequestsMove ==
  \A a \in Attempt :
    \/ request'[a] = request[a]
    \/ /\ request'[a].version = request[a].version + 1
       /\ request[a].status \notin Ended
       /\ request'[a].status = "completed" => draft' = a

PullRequestsMove ==
  \A a \in Attempt : pullRequest'[a].status = "completed" =>
                       request'[a].status = "completed"

TeamMoves ==
  /\ RequestsMove
  /\ PullRequestsMove
  /\ draft' = draft \/ draft = 0
  /\ ~bound => ~bound'

(* A call that has just begun to reserve goes by the version there is.     *)
Fresh(c) ==
  /\ Finds(c)
  /\ At(c) = "reserving" =>
       LET row == request[call[c].attempt] IN
       call[c].version = row.version /\ row.status \in Askable

EndsNow ==
  LET row == request[intent.attempt] IN
  /\ intent.status = "completed" => row.status = "completed"
  /\ intent.status = "failed" => row.status = "failed"
  /\ intent.status = "revoked" => row.status = "revoked" \/ ~bound

NextAttempt ==
  /\ request[intent.attempt].status \in {"failed", "revoked"}
  /\ intent' = [attempt |-> intent.attempt + 1, status |-> "approval_required"]

IntentMoves ==
  \/ intent' = intent
  \/ intent'.attempt = intent.attempt /\ EndsNow'
  \/ NextAttempt

LEMMA RowFacts ==
  ASSUME IInv
  PROVE  /\ intent.attempt \in Attempt /\ intent.status \in Status
         /\ \A a \in Attempt : request[a] \in Row /\ request[a].version \in Nat
         /\ \A c \in Call : /\ call[c] \in Handler
                            /\ call[c].attempt \in Attempt
                            /\ call[c].version \in Nat
  BY DEF IInv, GrantsHold, TeamTypes, LocalTypes, Row, Handler

LEMMA Assemble ==
  ASSUME IInv, IInv', Links, TeamMoves, IntentMoves, WaitsForOwn',
         \A d \in Call : call'[d] = call[d] \/ Fresh(d)'
  PROVE  Links'
  <1>1. CompletedHasDraft'
    <2> SUFFICES ASSUME NEW a \in Attempt, request'[a].status = "completed"
                 PROVE  draft' = a
      BY DEF TeamMoves, PullRequestsMove, CompletedHasDraft
    <2>1. CASE request'[a] = request[a]
      <3>1. draft = a /\ a # 0
        BY <2>1, DeliveryAssumption DEF Links, CompletedHasDraft, Attempt
      <3> QED
        BY <3>1 DEF TeamMoves
    <2>2. CASE request'[a] # request[a]
      BY <2>2 DEF TeamMoves, RequestsMove
    <2> QED
      BY <2>1, <2>2
  <1>2. ASSUME NEW d \in Call
        PROVE  Finds(d)' /\ Reserves(d)'
    <2>1. CASE Fresh(d)'
      <3>1. call'[d].version \in Nat
        BY DEF IInv, LocalTypes, Handler
      <3> QED
        BY <2>1, <3>1 DEF Fresh, Reserves
    <2>2. CASE call'[d] = call[d]
      <3> DEFINE a == call[d].attempt
      <3>1. a \in Attempt /\ request[a].version \in Nat /\ call[d].version \in Nat
        BY RowFacts
      <3>2. Finds(d) /\ Reserves(d)
        BY DEF Links
      <3>3. Finds(d)'
        <4>1. a # 0
          BY <3>1, DeliveryAssumption DEF Attempt
        <4> QED
          BY <2>2, <3>2, <4>1 DEF Finds, At, TeamMoves
      <3>4. Reserves(d)'
        BY <2>2, <3>1, <3>2 DEF Reserves, At, TeamMoves, RequestsMove
      <3> QED
        BY <3>3, <3>4
    <2> QED
      BY <2>1, <2>2
  <1>3. EndsAreTrue'
    <2> DEFINE a == intent.attempt
    <2>1. /\ a \in Attempt /\ a \in Nat
          /\ \A b \in 1..(a - 1) : b \in Attempt
      BY RowFacts, DeliveryAssumption DEF Attempt
    <2>2. \A b \in Attempt : request[b].status \in Ended => request'[b] = request[b]
      BY DEF TeamMoves, RequestsMove
    <2>3. \A b \in 1..(a - 1) : request'[b].status \in {"failed", "revoked"}
      BY <2>1, <2>2 DEF Links, EndsAreTrue, Ended
    <2>4. CASE intent' = intent
      <3>1. EndsNow'
        BY <2>1, <2>2, <2>4
        DEF Links, EndsAreTrue, EndsNow, Ended, TeamMoves
      <3> QED
        BY <1>1, <2>1, <2>3, <2>4, <3>1
        DEF EndsAreTrue, EndsNow, CompletedHasDraft
    <2>5. CASE intent'.attempt = a /\ EndsNow'
      BY <1>1, <2>1, <2>3, <2>5 DEF EndsAreTrue, EndsNow, CompletedHasDraft
    <2>6. CASE NextAttempt
      <3>1. /\ intent'.attempt = a + 1 /\ intent'.status = "approval_required"
            /\ request'[a].status \in {"failed", "revoked"}
        BY <2>1, <2>2, <2>6 DEF NextAttempt, Ended
      <3>2. \A b \in 1..((a + 1) - 1) :
              request'[b].status \in {"failed", "revoked"}
        BY <2>1, <2>3, <3>1
      <3> QED
        BY <3>1, <3>2 DEF EndsAreTrue
    <2> QED
      BY <2>4, <2>5, <2>6 DEF IntentMoves
  <1> QED
    BY <1>1, <1>2, <1>3 DEF Links

(* A call goes on without the desktop.                                     *)
LEMMA StepLinks ==
  ASSUME IInv, IInv', Links, TeamMoves, NEW c \in Call, Fresh(c)',
         \A d \in Call : d # c => call'[d] = call[d],
         call'[c].attempt = call[c].attempt, UNCHANGED desktopVars
  PROVE  Links'
  <1>1. IntentMoves /\ UNCHANGED <<intent, waits>>
    BY DEF IntentMoves, desktopVars
  <1>2. WaitsForOwn'
    BY <1>1 DEF WaitsForOwn, Links
  <1> QED
    BY <1>1, <1>2, Assemble

(* Nothing but the desktop moves, and no call.                             *)
LEMMA LocalLinks ==
  ASSUME IInv, IInv', Links, TeamMoves, UNCHANGED call, IntentMoves,
         waits' = None \/ (waits' = waits /\ intent'.attempt = intent.attempt)
  PROVE  Links'
  <1>1. WaitsForOwn'
    BY Constants DEF WaitsForOwn, Links
  <1> QED
    BY <1>1, Assemble

(* What the call that is asked next knows.                                 *)
LEMMA AskIsFresh ==
  ASSUME IInv, NEW c \in Call, NEW pc \in Elsewhere, NEW version \in Nat,
         Ask(c, pc, version), pc # "finishing",
         pc = "reserving" =>
           /\ version = request'[intent.attempt].version
           /\ request'[intent.attempt].status \in Askable
  PROVE  /\ Fresh(c)' /\ call'[c].attempt = intent.attempt
         /\ \A d \in Call : d # c => call'[d] = call[d]
  <1> DEFINE h == [FreeCall EXCEPT !.pc = pc, !.attempt = intent.attempt,
                                   !.version = version]
  <1>1. LocalTypes /\ intent.attempt \in Attempt
    BY RowFacts DEF IInv
  <1>2. /\ h \in Handler /\ h.pc = pc /\ h.attempt = intent.attempt
        /\ h.version = version
    BY <1>1, Constants DEF Handler
  <1>3. Go(c, h)
    BY DEF Ask
  <1> HIDE DEF h
  <1>4. call'[c] = h /\ \A d \in Call : d # c => call'[d] = call[d]
    BY <1>1, <1>2, <1>3, Goes
  <1>5. pc # "noting"
    BY DEF Elsewhere
  <1> QED
    BY <1>2, <1>4, <1>5 DEF Fresh, Finds, At

LEMMA EndIsFresh ==
  ASSUME IInv, NEW c \in Call, Go(c, FreeCall)
  PROVE  Fresh(c)' /\ \A d \in Call : d # c => call'[d] = call[d]
  <1>1. call'[c] = FreeCall /\ \A d \in Call : d # c => call'[d] = call[d]
    BY Goes, Constants DEF IInv
  <1> QED
    BY <1>1, Constants DEF Fresh, Finds, At

LEMMA LocalMoves ==
  ASSUME IInv, NEW status \in Status, Local(status),
         LET row == request'[intent.attempt] IN
         /\ status = "completed" => row.status = "completed"
         /\ status = "failed" => row.status = "failed"
         /\ status = "revoked" => row.status = "revoked" \/ ~bound'
  PROVE  IntentMoves /\ intent'.attempt = intent.attempt
  <1>1. intent'.attempt = intent.attempt /\ intent'.status = status
    BY DEF Local, IInv, LocalTypes
  <1> QED
    BY <1>1 DEF IntentMoves, EndsNow

LEMMA ErrorMoves ==
  ASSUME IInv, Local("recovery_required")
  PROVE  IntentMoves /\ intent'.attempt = intent.attempt
  BY LocalMoves DEF Status

LEMMA HearErrorLinks ==
  ASSUME IInv, IInv', Links, TeamMoves, NEW c \in Call, HearError(c)
  PROVE  Links'
  <1>1. IntentMoves
    BY ErrorMoves DEF HearError
  <1>2. Fresh(c)' /\ \A d \in Call : d # c => call'[d] = call[d]
    BY EndIsFresh DEF HearError
  <1>3. WaitsForOwn'
    BY Constants DEF HearError, WaitsForOwn
  <1> QED
    BY <1>1, <1>2, <1>3, Assemble

Justified(c, answer) ==
  LET row == request'[call[c].attempt] IN
  /\ answer = "no_evidence" => row.status = "approved"
  /\ answer = "completed" => row.status = "completed"
  /\ answer = "binding_inactive" => ~bound'

LEMMA ReplyLinks ==
  ASSUME IInv, IInv', Links, TeamMoves, NEW c \in Call,
         NEW answer \in {"verified", "adopted", "no_evidence", "token",
                         "completed", "binding_inactive", "error"},
         Reply(c, answer), Justified(c, answer)
  PROVE  Links'
  <1> DEFINE a == intent.attempt
             version == request'[call[c].attempt].version
  <1>1. CASE waits # c
    <2>1. Go(c, FreeCall) /\ UNCHANGED <<intent, waits>>
      BY <1>1 DEF Reply, desktopVars
    <2>2. Fresh(c)' /\ \A d \in Call : d # c => call'[d] = call[d]
      BY <2>1, EndIsFresh
    <2>3. IntentMoves
      BY <2>1 DEF IntentMoves
    <2>4. WaitsForOwn'
      BY <1>1, <2>1, <2>2 DEF WaitsForOwn, Links
    <2> QED
      BY <2>2, <2>3, <2>4, Assemble
  <1>2. CASE waits = c
    <2>1. call[c].attempt = a /\ a \in Attempt /\ Hear(c, answer, version)
      BY <1>2, RowFacts DEF Links, WaitsForOwn, Reply
    <2>2. version \in Nat
      BY <2>1 DEF IInv, GrantsHold, TeamTypes, Row
    <2>3. ASSUME NEW pc \in {"opening", "reserving"},
                 NEW status \in {"creating_pr", "publishing_branch"},
                 Ask(c, pc, version), Local(status), UNCHANGED waits,
                 pc = "reserving" => answer = "no_evidence"
          PROVE  Links'
      <3>1. status \in Status /\ pc \in Elsewhere
        BY DEF Status, Elsewhere
      <3>2. IntentMoves /\ intent'.attempt = a
        BY <2>3, <3>1, LocalMoves
      <3>3. /\ Fresh(c)' /\ call'[c].attempt = a
            /\ \A d \in Call : d # c => call'[d] = call[d]
        BY <2>1, <2>2, <2>3, <3>1, AskIsFresh DEF Justified, Askable
      <3>4. WaitsForOwn'
        BY <1>2, <2>3, <3>2, <3>3 DEF WaitsForOwn
      <3> QED
        BY <3>2, <3>3, <3>4, Assemble
    <2>4. ASSUME Go(c, FreeCall), waits' = None, IntentMoves
          PROVE  Links'
      <3>1. Fresh(c)' /\ \A d \in Call : d # c => call'[d] = call[d]
        BY <2>4, EndIsFresh
      <3>2. WaitsForOwn'
        BY <2>4, Constants DEF WaitsForOwn
      <3> QED
        BY <2>4, <3>1, <3>2, Assemble
    <2>5. CASE answer \in {"verified", "adopted"}
      <3>1. /\ Local("creating_pr") /\ Ask(c, "opening", version)
            /\ UNCHANGED waits
        BY <2>1, <2>5 DEF Hear
      <3> QED
        BY <2>3, <3>1
    <2>6. CASE answer = "no_evidence"
      <3>1. /\ Local("publishing_branch") /\ Ask(c, "reserving", version)
            /\ UNCHANGED waits
        BY <2>1, <2>6 DEF Hear
      <3> QED
        BY <2>3, <2>6, <3>1
    <2>7. CASE answer = "token"
      <3>1. Go(c, FreeCall) /\ waits' = None /\ UNCHANGED intent
        BY <2>1, <2>7 DEF Hear
      <3> QED
        BY <2>4, <3>1 DEF IntentMoves
    <2>8. CASE answer = "completed"
      <3>1. Go(c, FreeCall) /\ waits' = None /\ Local("completed")
        BY <2>1, <2>8 DEF Hear
      <3>2. IntentMoves
        BY <2>1, <2>8, <3>1, LocalMoves DEF Justified, Status
      <3> QED
        BY <2>4, <3>1, <3>2
    <2>9. CASE answer = "binding_inactive"
      <3>1. Go(c, FreeCall) /\ waits' = None /\ Local("revoked")
        BY <2>1, <2>9 DEF Hear
      <3>2. IntentMoves
        BY <2>1, <2>9, <3>1, LocalMoves DEF Justified, Status
      <3> QED
        BY <2>4, <3>1, <3>2
    <2>10. CASE answer = "error"
      BY <2>1, <2>10, HearErrorLinks DEF Hear
    <2> QED
      BY <2>5, <2>6, <2>7, <2>8, <2>9, <2>10
  <1> QED
    BY <1>1, <1>2

-----------------------------------------------------------------------------
(* What the transactions do to requests.                                   *)

LEMMA NothingMoves ==
  ASSUME Links, UNCHANGED teamVars, draft' = draft \/ draft = 0
  PROVE  TeamMoves
  BY DEF Links, CompletedHasDraft, TeamMoves, RequestsMove, PullRequestsMove,
         teamVars

LEMMA OneRequestMoves ==
  ASSUME IInv, NEW a \in Attempt, NEW status \in Status,
         MoveRequest(a, status), request[a].status \notin Ended,
         status = "completed" => draft' = a
  PROVE  RequestsMove /\ request'[a].status = status
  <1> DEFINE v == request[a].version + 1
             row == [request[a] EXCEPT !.status = status, !.version = v]
  <1>1. request \in [Attempt -> Row] /\ v \in Nat
    BY RowFacts DEF IInv, GrantsHold, TeamTypes
  <1>2. request' = [request EXCEPT ![a] = row]
    BY DEF MoveRequest, Moved
  <1>3. row.status = status /\ row.version = v
    BY <1>1 DEF Row
  <1> HIDE DEF row
  <1>4. request'[a] = row /\ \A b \in Attempt : b # a => request'[b] = request[b]
    BY <1>1, <1>2
  <1> QED
    BY <1>3, <1>4 DEF RequestsMove

LEMMA RequestMovesOn ==
  ASSUME IInv, Links, NEW a \in Attempt, NEW status \in Status,
         MoveRequest(a, status), request[a].status \notin Ended,
         status # "completed", UNCHANGED <<pullRequest, draft, bound>>
  PROVE  TeamMoves
  <1>1. RequestsMove
    BY OneRequestMoves
  <1>2. PullRequestsMove
    BY <1>1 DEF PullRequestsMove, RequestsMove, Links, CompletedHasDraft, Ended
  <1> QED
    BY <1>1, <1>2 DEF TeamMoves

LEMMA TryFinalizeGrantMoves ==
  ASSUME IInv, Links, NEW c \in Call, NEW status \in Status,
         status # "completed", TryFinalizeGrant(c, status), UNCHANGED draft
  PROVE  TeamMoves
  <1> DEFINE a == call[c].attempt
             next == IF status = "issued" THEN "publishing_branch" ELSE status
  <1>1. CASE Granted(c)
    <2>1. MoveRequest(a, next) /\ UNCHANGED <<pullRequest, bound>>
      BY <1>1 DEF TryFinalizeGrant, FinalizeGrant
    <2>2. request[a].status \notin Ended
      BY <1>1 DEF Granted, MayFinalizeGrant, Ended
    <2>3. next \in Status /\ next # "completed" /\ a \in Attempt
      BY RowFacts DEF Status
    <2> QED
      BY <2>1, <2>2, <2>3, RequestMovesOn
  <1>2. CASE ~Granted(c)
    BY <1>2, NothingMoves DEF TryFinalizeGrant
  <1> QED
    BY <1>1, <1>2

-----------------------------------------------------------------------------
(* The calls, action by action.                                            *)

LEMMA GoesTo ==
  ASSUME IInv, NEW c \in Call, NEW h, Go(c, h)
  PROVE  call'[c] = h /\ \A d \in Call : d # c => call'[d] = call[d]
  BY DEF IInv, LocalTypes, Go

LEMMA StepTo ==
  ASSUME IInv, IInv', Links, TeamMoves, NEW c \in Call, NEW h, Go(c, h),
         h.pc \notin {"reserving", "noting", "finishing"},
         h.attempt = call[c].attempt, UNCHANGED desktopVars
  PROVE  Links'
  <1>1. call'[c] = h /\ \A d \in Call : d # c => call'[d] = call[d]
    BY GoesTo
  <1>2. Fresh(c)'
    BY <1>1 DEF Fresh, Finds, At
  <1> QED
    BY <1>1, <1>2, StepLinks

LEMMA Justifications ==
  ASSUME NEW c \in Call
  PROVE  /\ \A answer \in {"token", "verified", "adopted", "error"} :
              Justified(c, answer)
         /\ bound' = bound => Justified(c, Refusal)
  BY DEF Justified, Refusal

LEMMA ReservingLinks ==
  ASSUME IInv, IInv', Links, NEW c \in Call, Reserving(c)
  PROVE  Links'
  <1> DEFINE a == call[c].attempt
  <1>1. a \in Attempt /\ call[c] \in Handler /\ UNCHANGED draft
    BY RowFacts DEF Reserving, gitHubVars
  <1>2. CASE MayReserve(a, call[c].version)
    <2> DEFINE h == [call[c] EXCEPT !.pc = "minting", !.n = Len(grants'[a]),
                                    !.version = request'[a].version, !.row = 1]
    <2>1. /\ Reserve(a) /\ Go(c, h) /\ UNCHANGED desktopVars
          /\ request[a].version = call[c].version
      BY <1>2 DEF Reserving, MayReserve
    <2>2. request[a].status \in Askable
      BY <2>1 DEF Links, Reserves, Reserving
    <2>3. TeamMoves
      BY <1>1, <2>1, <2>2, RequestMovesOn DEF Reserve, Askable, Ended, Status
    <2>4. h.pc = "minting" /\ h.attempt = a
      BY <1>1 DEF Handler
    <2> HIDE DEF h
    <2> QED
      BY <2>1, <2>3, <2>4, StepTo
  <1>3. CASE ~MayReserve(a, call[c].version) /\ ReplaysIssued(a)
    <2> DEFINE h == [call[c] EXCEPT !.pc = "observing",
                                    !.n = Len(grants[a]),
                                    !.version = request[a].version,
                                    !.row = Current(a).version]
    <2>1. UNCHANGED teamVars /\ Go(c, h) /\ UNCHANGED desktopVars
      BY <1>3 DEF Reserving
    <2>2. h.pc = "observing" /\ h.attempt = a
      BY <1>1 DEF Handler
    <2> HIDE DEF h
    <2> QED
      BY <1>1, <2>1, <2>2, NothingMoves, StepTo
  <1>4. CASE ~MayReserve(a, call[c].version) /\ ~ReplaysIssued(a)
    <2>1. UNCHANGED teamVars /\ (Reply(c, "error") \/ Reply(c, Refusal))
      BY <1>4 DEF Reserving
    <2>2. bound' = bound /\ TeamMoves
      BY <1>1, <2>1, NothingMoves DEF teamVars
    <2> QED
      BY <2>1, <2>2, RefusalType, Justifications, ReplyLinks
  <1> QED
    BY <1>2, <1>3, <1>4

LEMMA ObservingLinks ==
  ASSUME IInv, IInv', Links, NEW c \in Call, Observing(c)
  PROVE  Links'
  <1> DEFINE a == call[c].attempt n == call[c].n
  <1>1. a \in Attempt /\ UNCHANGED draft /\ Reply(c, "error")
    BY RowFacts DEF Observing, gitHubVars
  <1>2. TeamMoves
    <2>1. CASE UNCHANGED teamVars
      BY <1>1, <2>1, NothingMoves
    <2>2. CASE ConfirmExpiry(a, n) /\ request[a].status = "publishing_branch"
      BY <1>1, <2>2, RequestMovesOn DEF ConfirmExpiry, Ended, Status
    <2> QED
      BY <2>1, <2>2 DEF Observing, MayConfirmExpiry
  <1> QED
    BY <1>1, <1>2, Justifications, ReplyLinks

LEMMA MintingLinks ==
  ASSUME IInv, IInv', Links, NEW c \in Call, Minting(c) \/ LeasePasses(c)
  PROVE  Links'
  <1> DEFINE g == [call[c] EXCEPT !.pc = "minted"]
             h == [call[c] EXCEPT !.pc = "settling", !.clear = "absent",
                                  !.answer = "error"]
  <1>1. /\ UNCHANGED <<teamVars, draft, desktopVars>>
        /\ Go(c, g) \/ Go(c, h)
    BY DEF Minting, LeasePasses, Step, gitHubVars
  <1>2. /\ g.pc = "minted" /\ g.attempt = call[c].attempt
        /\ h.pc = "settling" /\ h.attempt = call[c].attempt
    BY RowFacts DEF Handler
  <1> HIDE DEF g, h
  <1> QED
    BY <1>1, <1>2, NothingMoves, StepTo

LEMMA MintingFailsLinks ==
  ASSUME IInv, IInv', Links, NEW c \in Call, MintingFails(c)
  PROVE  Links'
  <1>1. PICK fate \in {<<"none", "failed", "absent">>,
                       <<"revoked", "failed", "revocation">>,
                       <<"revoked", "failed", "none">>,
                       <<"live", "failed", "none">>,
                       <<"none", "recovery_required", "none">>,
                       <<"live", "recovery_required", "none">>} :
          Go(c, [call[c] EXCEPT !.pc = "noting", !.result = fate[2],
                                !.clear = fate[3], !.answer = "error"])
    BY DEF MintingFails
  <1> DEFINE h == [call[c] EXCEPT !.pc = "noting", !.result = fate[2],
                                  !.clear = fate[3], !.answer = "error"]
  <1>2. UNCHANGED <<teamVars, draft, desktopVars>>
    BY DEF MintingFails
  <1>3. /\ h.pc = "noting" /\ h.attempt = call[c].attempt
        /\ h.result \in {"failed", "recovery_required"}
    BY RowFacts DEF Handler
  <1>4. Go(c, h)
    BY <1>1
  <1> HIDE DEF h
  <1>5. call'[c] = h /\ \A d \in Call : d # c => call'[d] = call[d]
    BY <1>4, GoesTo
  <1>6. Fresh(c)'
    BY <1>3, <1>5 DEF Fresh, Finds, At
  <1> QED
    BY <1>2, <1>3, <1>5, <1>6, NothingMoves, StepLinks

LEMMA NotingLinks ==
  ASSUME IInv, IInv', Links, NEW c \in Call, Noting(c)
  PROVE  Links'
  <1>1. UNCHANGED draft
    BY DEF Noting, gitHubVars
  <1>2. TeamMoves
    <2>1. call[c].result \in {"failed", "recovery_required"}
      BY DEF Noting, Links, Finds
    <2>2. call[c].result \in Status /\ call[c].result # "completed"
      BY <2>1 DEF Status
    <2>3. TryFinalizeGrant(c, call[c].result) \/ UNCHANGED teamVars
      BY DEF Noting
    <2> QED
      BY <1>1, <2>2, <2>3, TryFinalizeGrantMoves, NothingMoves
  <1>3. CASE call[c].clear = "none"
    <2>1. Reply(c, "error")
      BY <1>3 DEF Noting
    <2> QED
      BY <1>2, <2>1, Justifications, ReplyLinks
  <1>4. CASE call[c].clear # "none"
    <2> DEFINE h == [call[c] EXCEPT !.pc = "settling"]
    <2>1. Go(c, h) /\ UNCHANGED desktopVars
      BY <1>4 DEF Noting, Step
    <2>2. h.pc = "settling" /\ h.attempt = call[c].attempt
      BY RowFacts DEF Handler
    <2> HIDE DEF h
    <2> QED
      BY <1>2, <2>1, <2>2, StepTo
  <1> QED
    BY <1>3, <1>4

LEMMA GiveBackLinks ==
  ASSUME IInv, IInv', Links, TeamMoves, NEW c \in Call, NEW answer,
         GiveBack(c, answer)
  PROVE  Links'
  <1> DEFINE h == [call[c] EXCEPT !.pc = "revoking", !.answer = answer]
  <1>1. Go(c, h) /\ UNCHANGED desktopVars
    BY DEF GiveBack
  <1>2. h.pc = "revoking" /\ h.attempt = call[c].attempt
    BY RowFacts DEF Handler
  <1> HIDE DEF h
  <1> QED
    BY <1>1, <1>2, StepTo

LEMMA MintedLinks ==
  ASSUME IInv, IInv', Links, NEW c \in Call, Minted(c) \/ MintedInVain(c)
  PROVE  Links'
  <1>1. UNCHANGED draft
    BY DEF Minted, MintedInVain, gitHubVars
  <1>2. TeamMoves
    <2>1. \/ TryFinalizeGrant(c, "issued")
          \/ TryFinalizeGrant(c, "failed")
          \/ UNCHANGED teamVars
      BY DEF Minted, MintedInVain, TryFinalizeGrant
    <2>2. "issued" \in Status /\ "failed" \in Status
      BY DEF Status
    <2> QED
      BY <1>1, <2>1, <2>2, TryFinalizeGrantMoves, NothingMoves
  <1>3. Reply(c, "token") \/ \E answer : GiveBack(c, answer)
    BY DEF Minted, MintedInVain
  <1> QED
    BY <1>2, <1>3, Justifications, ReplyLinks, GiveBackLinks

LEMMA RevokingLinks ==
  ASSUME IInv, IInv', Links, NEW c \in Call, Revoking(c)
  PROVE  Links'
  <1> DEFINE h == [call[c] EXCEPT !.pc = "settling", !.clear = "revocation"]
  <1>1. TeamMoves
    BY NothingMoves DEF Revoking
  <1>2. (Go(c, h) /\ UNCHANGED desktopVars) \/ Reply(c, "error")
    BY DEF Revoking
  <1>3. h.pc = "settling" /\ h.attempt = call[c].attempt
    BY RowFacts DEF Handler
  <1> HIDE DEF h
  <1> QED
    BY <1>1, <1>2, <1>3, Justifications, ReplyLinks, StepTo

LEMMA SettlingLinks ==
  ASSUME IInv, IInv', Links, NEW c \in Call, Settling(c)
  PROVE  Links'
  <1> DEFINE h == [call[c] EXCEPT !.pc = "confirming"]
  <1>1. TeamMoves
    BY TryFinalizeGrantMoves, NothingMoves DEF Settling, Status, gitHubVars
  <1>2. Go(c, h) /\ UNCHANGED desktopVars
    BY DEF Settling, Step
  <1>3. h.pc = "confirming" /\ h.attempt = call[c].attempt
    BY RowFacts DEF Handler
  <1> HIDE DEF h
  <1> QED
    BY <1>1, <1>2, <1>3, StepTo

LEMMA ConfirmingLinks ==
  ASSUME IInv, IInv', Links, NEW c \in Call, Confirming(c)
  PROVE  Links'
  <1> DEFINE a == call[c].attempt n == call[c].n
  <1>1. /\ UNCHANGED draft /\ a \in Attempt
        /\ \/ call[c].answer = "error"
           \/ call[c].answer = "binding_inactive" /\ ~bound
    BY RowFacts, AtWork DEF Confirming, gitHubVars, WorkHolds, Working
  <1>2. /\ ConfirmClearance(a, n, call[c].clear) \/ UNCHANGED teamVars
        /\ Reply(c, call[c].answer) \/ Reply(c, "error")
    BY DEF Confirming
  <1>3. bound' = bound
    BY <1>2 DEF ConfirmClearance, teamVars
  <1>4. TeamMoves
    <2>1. CASE UNCHANGED teamVars
      BY <1>1, <2>1, NothingMoves
    <2>2. CASE ConfirmClearance(a, n, call[c].clear)
      <3>1. /\ UNCHANGED <<bound, publication, pullRequest>>
            /\ \/ UNCHANGED request
               \/ /\ request[a].status = "publishing_branch"
                  /\ MoveRequest(a, "failed")
        BY <2>2 DEF ConfirmClearance
      <3>2. CASE UNCHANGED request
        BY <1>1, <3>1, <3>2
        DEF Links, CompletedHasDraft, TeamMoves, RequestsMove, PullRequestsMove
      <3>3. CASE ~UNCHANGED request
        BY <1>1, <3>1, <3>3, RequestMovesOn DEF Ended, Status
      <3> QED
        BY <3>2, <3>3
    <2> QED
      BY <1>2, <2>1, <2>2
  <1>5. Justified(c, call[c].answer)
    BY <1>1, <1>3 DEF Justified
  <1> QED
    BY <1>1, <1>2, <1>4, <1>5, Justifications, ReplyLinks

LEMMA DieLinks ==
  ASSUME IInv, IInv', Links, NEW c \in Call, Die(c)
  PROVE  Links'
  <1>1. TeamMoves
    BY NothingMoves DEF Die
  <1>2. \/ HearError(c)
        \/ waits # c /\ Go(c, FreeCall) /\ UNCHANGED desktopVars
    BY DEF Die
  <1>3. CASE waits # c /\ Go(c, FreeCall) /\ UNCHANGED desktopVars
    <2>1. Reply(c, "error")
      BY <1>3 DEF Reply
    <2> QED
      BY <1>1, <2>1, Justifications, ReplyLinks
  <1> QED
    BY <1>1, <1>2, <1>3, HearErrorLinks

LEMMA ReportingLinks ==
  ASSUME IInv, IInv', Links, NEW c \in Call, Reporting(c)
  PROVE  Links'
  <1> DEFINE a == call[c].attempt n == call[c].n
             may == MayReport(a, n, call[c].version, call[c].row)
  <1>1. UNCHANGED draft /\ a \in Attempt
    BY RowFacts DEF Reporting, gitHubVars
  <1>2. CASE may
    <2> DEFINE h == [call[c] EXCEPT !.pc = "verifying",
                                    !.version = request'[a].version,
                                    !.row = publication'[a].version]
    <2>1. Report(a, n) /\ Go(c, h) /\ UNCHANGED desktopVars
      BY <1>2 DEF Reporting
    <2>2. request[a].status \in {"publishing_branch", "recovery_required"}
      BY <1>2 DEF MayReport, Rearms
    <2>3. TeamMoves
      BY <1>1, <2>1, <2>2, RequestMovesOn DEF Report, Ended, Status
    <2>4. h.pc = "verifying" /\ h.attempt = a
      BY RowFacts DEF Handler
    <2> HIDE DEF h
    <2> QED
      BY <2>1, <2>3, <2>4, StepTo
  <1>3. CASE ~may
    <2>1. UNCHANGED teamVars /\ Reply(c, Refusal)
      BY <1>3 DEF Reporting
    <2>2. bound' = bound /\ TeamMoves
      BY <1>1, <2>1, NothingMoves DEF teamVars
    <2> QED
      BY <2>1, <2>2, RefusalType, Justifications, ReplyLinks
  <1> QED
    BY <1>2, <1>3

LEMMA VerifyingLinks ==
  ASSUME IInv, IInv', Links, NEW c \in Call, Verifying(c)
  PROVE  Links'
  <1>1. PICK result : Go(c, [call[c] EXCEPT !.pc = "recording",
                                            !.result = result])
    BY DEF Verifying
  <1> DEFINE h == [call[c] EXCEPT !.pc = "recording", !.result = result]
  <1>2. Go(c, h) /\ UNCHANGED <<teamVars, draft, desktopVars>>
    BY <1>1 DEF Verifying, gitHubVars
  <1>3. h.pc = "recording" /\ h.attempt = call[c].attempt
    BY RowFacts DEF Handler
  <1> HIDE DEF h
  <1> QED
    BY <1>2, <1>3, NothingMoves, StepTo

LEMMA RecordingLinks ==
  ASSUME IInv, IInv', Links, NEW c \in Call, Recording(c)
  PROVE  Links'
  <1> DEFINE a == call[c].attempt
  <1>1. UNCHANGED draft /\ a \in Attempt
    BY RowFacts DEF Recording, gitHubVars
  <1>2. Reply(c, "verified") \/ Reply(c, "error")
    BY DEF Recording
  <1>3. CASE UNCHANGED teamVars
    BY <1>1, <1>2, <1>3, NothingMoves, Justifications, ReplyLinks
  <1>4. CASE FinalizePublication(a, call[c].result)
             /\ request[a].status = "publishing_branch"
    <2>1. PICK next \in {"branch_published", "failed", "recovery_required"} :
            MoveRequest(a, next)
      BY <1>4 DEF FinalizePublication
    <2>2. UNCHANGED <<bound, pullRequest>>
      BY <1>4 DEF FinalizePublication
    <2>3. TeamMoves
      BY <1>1, <1>4, <2>1, <2>2, RequestMovesOn DEF Ended, Status
    <2> QED
      BY <1>2, <2>3, Justifications, ReplyLinks
  <1> QED
    BY <1>3, <1>4 DEF Recording, MayFinalizePublication

LEMMA AdoptingLinks ==
  ASSUME IInv, IInv', Links, NEW c \in Call, Adopting(c)
  PROVE  Links'
  <1> DEFINE a == call[c].attempt
             may == MayAdopt(a, call[c].version)
  <1>1. UNCHANGED draft /\ a \in Attempt
    BY RowFacts DEF Adopting, gitHubVars
  <1>2. CASE may /\ Adoptable(a)
    <2>1. Adopt(a) /\ Reply(c, "adopted") /\ request[a].status = "approved"
      BY <1>2 DEF Adopting, MayAdopt
    <2>2. TeamMoves
      BY <1>1, <2>1, RequestMovesOn DEF Adopt, Ended, Status
    <2> QED
      BY <2>1, <2>2, Justifications, ReplyLinks
  <1>3. CASE ~(may /\ Adoptable(a))
    <2>1. /\ UNCHANGED teamVars
          /\ \/ may /\ Reply(c, "no_evidence")
             \/ ~may /\ Reply(c, Refusal)
      BY <1>3 DEF Adopting
    <2>2. UNCHANGED <<bound, request>> /\ TeamMoves
      BY <1>1, <2>1, NothingMoves DEF teamVars
    <2>3. may => Justified(c, "no_evidence")
      BY <2>2 DEF Justified, MayAdopt
    <2> QED
      BY <2>1, <2>2, <2>3, RefusalType, Justifications, ReplyLinks
  <1> QED
    BY <1>2, <1>3

LEMMA OpeningLinks ==
  ASSUME IInv, IInv', Links, NEW c \in Call, Opening(c)
  PROVE  Links'
  <1> DEFINE a == call[c].attempt
             h(pc) == [call[c] EXCEPT !.pc = pc,
                                      !.version = request'[a].version,
                                      !.row = pullRequest'[a].version]
             may == MayReservePullRequest(a, call[c].version)
  <1>1. UNCHANGED draft /\ a \in Attempt
    BY RowFacts DEF Opening, gitHubVars
  <1>2. \A pc \in {"creating", "finding"} :
          h(pc).pc = pc /\ h(pc).attempt = a
    BY RowFacts DEF Handler
  <1>3. CASE may
    <2>1. /\ ReservePullRequest(a) /\ Go(c, h("creating"))
          /\ UNCHANGED desktopVars
          /\ request[a].status \in {"branch_published", "recovery_required"}
      BY <1>3 DEF Opening, MayReservePullRequest
    <2>2. RequestsMove
      BY <1>1, <2>1, OneRequestMoves DEF ReservePullRequest, Ended, Status
    <2>3. pullRequest'[a].status = "creating"
          /\ \A b \in Attempt : b # a => pullRequest'[b] = pullRequest[b]
      BY <1>1, <2>1
      DEF ReservePullRequest, MovePullRequest, Moved, IInv, GrantsHold,
          TeamTypes, Row
    <2>4. PullRequestsMove
      BY <2>2, <2>3
      DEF PullRequestsMove, RequestsMove, Links, CompletedHasDraft, Ended
    <2>5. TeamMoves
      BY <1>1, <2>1, <2>2, <2>4 DEF TeamMoves, ReservePullRequest
    <2> HIDE DEF h
    <2> QED
      BY <1>2, <2>1, <2>5, StepTo
  <1>4. CASE ~may
    <2>1. /\ UNCHANGED teamVars
          /\ \/ Reply(c, Refusal)
             \/ Go(c, h("finding")) /\ UNCHANGED desktopVars
             \/ pullRequest[a].status = "completed" /\ Reply(c, "completed")
      <3>1. CASE ~ReplaysPullRequest(a)
        BY <1>4, <3>1 DEF Opening
      <3>2. CASE ReplaysPullRequest(a)
        BY <1>4, <3>2 DEF Opening, ReplaysPullRequest
      <3> QED
        BY <3>1, <3>2
    <2>2. UNCHANGED <<bound, request>> /\ TeamMoves
      BY <1>1, <2>1, NothingMoves DEF teamVars
    <2>3. pullRequest[a].status = "completed" => Justified(c, "completed")
      BY <1>1, <2>2 DEF Justified, Links, CompletedHasDraft
    <2> HIDE DEF h
    <2> QED
      BY <1>2, <2>1, <2>2, <2>3, RefusalType, Justifications, ReplyLinks, StepTo
  <1> QED
    BY <1>3, <1>4

LEMMA ResolvingLinks ==
  ASSUME IInv, IInv', Links, NEW c \in Call,
         Finding(c) \/ Creating(c) \/ ResolvingFails(c)
  PROVE  Links'
  <1> DEFINE a == call[c].attempt
  <1>1. UNCHANGED <<teamVars, desktopVars>> /\ (draft' = draft \/ draft = 0)
    BY DEF Finding, Creating, ResolvingFails, gitHubVars
  <1>2. PICK result \in Resolved :
          Resolve(c, result) /\ (result = "completed" => draft' = a)
    BY DEF Finding, Creating, ResolvingFails, Looked, Resolved, gitHubVars
  <1> DEFINE h == [call[c] EXCEPT !.pc = "finishing", !.result = result]
  <1>3. Go(c, h)
    BY <1>2 DEF Resolve
  <1>4. h.pc = "finishing" /\ h.result = result /\ h.attempt = a
    BY RowFacts DEF Handler
  <1> HIDE DEF h
  <1>5. call'[c] = h /\ \A d \in Call : d # c => call'[d] = call[d]
    BY <1>3, GoesTo
  <1>6. Fresh(c)'
    BY <1>2, <1>4, <1>5 DEF Fresh, Finds, At
  <1> QED
    BY <1>1, <1>4, <1>5, <1>6, NothingMoves, StepLinks

LEMMA FinishingLinks ==
  ASSUME IInv, IInv', Links, NEW c \in Call, Finishing(c)
  PROVE  Links'
  <1> DEFINE a == call[c].attempt
             result == call[c].result
             may == MayFinalizePullRequest(a, call[c].version, call[c].row,
                                           result)
  <1>1. /\ UNCHANGED draft /\ a \in Attempt
        /\ result \in Resolved /\ (result = "completed" => draft = a)
    BY RowFacts DEF Finishing, gitHubVars, Links, Finds
  <1>2. CASE ~may \/ (may /\ pullRequest[a].status = result)
    <2>1. /\ UNCHANGED teamVars
          /\ \/ Reply(c, "error")
             \/ /\ Reply(c, "completed")
                /\ pullRequest[a].status = "completed"
      BY <1>2 DEF Finishing, FinalizePullRequest, teamVars
    <2>2. UNCHANGED request /\ TeamMoves
      BY <1>1, <2>1, NothingMoves DEF teamVars
    <2>3. pullRequest[a].status = "completed" => Justified(c, "completed")
      BY <1>1, <2>2 DEF Justified, Links, CompletedHasDraft
    <2> QED
      BY <2>1, <2>2, <2>3, Justifications, ReplyLinks
  <1>3. CASE may /\ pullRequest[a].status # result
    <2>1. /\ request[a].status = "creating_pr"
          /\ MovePullRequest(a, result) /\ MoveRequest(a, result)
          /\ UNCHANGED bound
          /\ \/ Reply(c, "error")
             \/ Reply(c, "completed") /\ result = "completed"
      BY <1>3 DEF Finishing, FinalizePullRequest, MayFinalizePullRequest
    <2>2. RequestsMove /\ request'[a].status = result
      BY <1>1, <2>1, OneRequestMoves DEF Resolved, Ended, Status
    <2>3. pullRequest'[a].status = result
          /\ \A b \in Attempt : b # a => pullRequest'[b] = pullRequest[b]
      BY <1>1, <2>1
      DEF MovePullRequest, Moved, IInv, GrantsHold, TeamTypes, Row
    <2>4. PullRequestsMove
      BY <2>2, <2>3
      DEF PullRequestsMove, RequestsMove, Links, CompletedHasDraft, Ended
    <2>5. TeamMoves
      BY <1>1, <2>1, <2>2, <2>4 DEF TeamMoves
    <2>6. result = "completed" => Justified(c, "completed")
      BY <2>2 DEF Justified
    <2> QED
      BY <2>1, <2>5, <2>6, Justifications, ReplyLinks
  <1> QED
    BY <1>2, <1>3

-----------------------------------------------------------------------------
(* The desktop, people and time.                                           *)

LEMMA SubmitLinks ==
  ASSUME IInv, IInv', Links, Submit
  PROVE  Links'
  <1> DEFINE a == intent.attempt
  <1>1. /\ MoveRequest(a, "approval_required") /\ request[a].status = "none"
        /\ UNCHANGED <<pullRequest, draft, bound, call, intent, waits>>
    BY DEF Submit, CreateRequest, MayCreateRequest, DesktopIdle, gitHubVars,
           desktopVars
  <1>2. TeamMoves
    BY <1>1, RowFacts, RequestMovesOn DEF Ended, Status
  <1> QED
    BY <1>1, <1>2, LocalLinks DEF IntentMoves

LEMMA ConcludeLinks ==
  ASSUME IInv, IInv', Links, UNCHANGED <<teamVars, draft>>,
         NEW status \in Status, Conclude(status),
         LET row == request[intent.attempt] IN
         /\ status = "completed" => row.status = "completed"
         /\ status = "failed" => row.status = "failed"
         /\ status = "revoked" => row.status = "revoked" \/ ~bound
  PROVE  Links'
  <1>1. UNCHANGED <<request, bound>> /\ TeamMoves
    BY NothingMoves DEF teamVars
  <1>2. Local(status) /\ UNCHANGED <<call, waits>>
    BY DEF Conclude
  <1>3. IntentMoves /\ intent'.attempt = intent.attempt
    BY <1>1, <1>2, LocalMoves
  <1> QED
    BY <1>1, <1>2, <1>3, LocalLinks

LEMMA SendLinks ==
  ASSUME IInv, IInv', Links, UNCHANGED <<teamVars, draft>>,
         NEW c \in Call, NEW pc \in {"opening", "adopting", "reserving"},
         NEW status \in {"creating_pr", "recovery_required",
                         "publishing_branch"},
         Send(c, pc, status),
         pc = "reserving" => request[intent.attempt].status \in Askable
  PROVE  Links'
  <1> DEFINE a == intent.attempt
  <1>1. UNCHANGED request /\ TeamMoves
    BY NothingMoves DEF teamVars
  <1>2. /\ Local(status) /\ waits' = c
        /\ Ask(c, pc, request[a].version)
    BY DEF Send
  <1>3. status \in Status /\ pc \in Elsewhere /\ request[a].version \in Nat
    BY RowFacts DEF Status, Elsewhere
  <1>4. IntentMoves /\ intent'.attempt = a
    BY <1>2, <1>3, LocalMoves
  <1>5. /\ Fresh(c)' /\ call'[c].attempt = a
        /\ \A d \in Call : d # c => call'[d] = call[d]
    BY <1>1, <1>2, <1>3, AskIsFresh
  <1>6. WaitsForOwn'
    BY <1>2, <1>4, <1>5 DEF WaitsForOwn
  <1> QED
    BY <1>1, <1>4, <1>5, <1>6, Assemble

LEMMA AdvanceLinks ==
  ASSUME IInv, IInv', Links, Advance
  PROVE  Links'
  <1> DEFINE a == intent.attempt status == request[a].status
  <1>1. UNCHANGED <<teamVars, draft>>
    BY DEF Advance, DesktopIdle, gitHubVars
  <1>2. \/ Conclude(status)
        \/ Conclude("recovery_required")
        \/ \E c \in Call : \/ Send(c, "opening", "creating_pr")
                           \/ Send(c, "adopting", "recovery_required")
                           \/ /\ Send(c, "reserving", "publishing_branch")
                              /\ status \in Askable
    BY DEF Advance, Askable
  <1>3. status \in Status /\ "recovery_required" \in Status
    BY RowFacts DEF Row, Status
  <1>4. CASE Conclude(status) \/ Conclude("recovery_required")
    BY <1>1, <1>3, <1>4, ConcludeLinks
  <1>5. CASE ~(Conclude(status) \/ Conclude("recovery_required"))
    BY <1>1, <1>2, <1>5, SendLinks
  <1> QED
    BY <1>4, <1>5

LEMMA EndsLinks ==
  ASSUME IInv, IInv', Links, ReconcileCompleted \/ ObserveBinding
  PROVE  Links'
  <1>1. UNCHANGED <<teamVars, draft>>
    BY DEF ReconcileCompleted, ObserveBinding, DesktopIdle, gitHubVars
  <1>2. "completed" \in Status /\ "revoked" \in Status
    BY DEF Status
  <1>3. CASE ReconcileCompleted
    BY <1>1, <1>2, <1>3, ConcludeLinks DEF ReconcileCompleted
  <1>4. CASE ObserveBinding
    BY <1>1, <1>2, <1>4, ConcludeLinks DEF ObserveBinding
  <1> QED
    BY <1>3, <1>4

LEMMA PushLinks ==
  ASSUME IInv, IInv', Links, Push
  PROVE  Links'
  <1>1. TeamMoves
    BY NothingMoves DEF Push
  <1>2. CASE Publishable
    <2> DEFINE h == [FreeCall EXCEPT !.pc = "reporting", !.n = held.n,
                                     !.attempt = intent.attempt,
                                     !.row = held.row,
                                     !.version = held.version]
    <2>1. PICK c \in Call : Go(c, h) /\ waits' = c
      BY <1>2 DEF Push
    <2>2. UNCHANGED intent
      BY <1>2 DEF Push
    <2>3. h.pc = "reporting" /\ h.attempt = intent.attempt
      BY Constants DEF Handler
    <2> HIDE DEF h
    <2>4. call'[c] = h /\ \A d \in Call : d # c => call'[d] = call[d]
      BY <2>1, GoesTo
    <2>5. Fresh(c)' /\ WaitsForOwn' /\ IntentMoves
      BY <2>1, <2>2, <2>3, <2>4
      DEF Fresh, Finds, At, WaitsForOwn, IntentMoves
    <2> QED
      BY <1>1, <2>4, <2>5, Assemble
  <1>3. CASE ~Publishable
    <2>1. Local("recovery_required") /\ UNCHANGED <<call, waits>>
      BY <1>3 DEF Push
    <2> QED
      BY <1>1, <2>1, ErrorMoves, LocalLinks
  <1> QED
    BY <1>2, <1>3

LEMMA InterruptLinks ==
  ASSUME IInv, IInv', Links, PushFails \/ Stop \/ Crash \/ Retry \/ ForeignPush
  PROVE  Links'
  <1>1. UNCHANGED call /\ TeamMoves
    BY NothingMoves DEF PushFails, Stop, Crash, Retry, ForeignPush, gitHubVars
  <1>2. CASE PushFails \/ Stop
    <2>1. Local("recovery_required") /\ (waits' = waits \/ waits' = None)
      BY <1>2 DEF PushFails, Stop
    <2> QED
      BY <1>1, <2>1, ErrorMoves, LocalLinks
  <1>3. CASE Crash \/ ForeignPush
    <2>1. UNCHANGED intent /\ (waits' = waits \/ waits' = None)
      BY <1>3 DEF Crash, ForeignPush, desktopVars
    <2>2. IntentMoves
      BY <2>1 DEF IntentMoves
    <2> QED
      BY <1>1, <2>1, <2>2, LocalLinks
  <1>4. CASE Retry
    <2>1. NextAttempt /\ waits' = None
      BY <1>4 DEF Retry, NextAttempt, Idle
    <2>2. IntentMoves
      BY <2>1 DEF IntentMoves
    <2>3. waits' = None \/ (waits' = waits /\ intent'.attempt = intent.attempt)
      BY <2>1
    <2> QED
      BY <1>1, <2>2, <2>3, LocalLinks
  <1> QED
    BY <1>2, <1>3, <1>4

LEMMA TeamStepLinks ==
  ASSUME IInv, IInv', Links, TeamStep
  PROVE  Links'
  <1>1. UNCHANGED <<draft, call, intent, waits>>
    BY DEF TeamStep, gitHubVars, desktopVars
  <1>2. TeamMoves
    <2>1. CASE \E a \in Attempt : Decide(a)
      <3>1. PICK a \in Attempt, status \in {"approved", "revoked"} :
              /\ MoveRequest(a, status)
              /\ request[a].status = "approval_required"
        BY <2>1 DEF Decide
      <3>2. UNCHANGED <<bound, pullRequest>>
        BY <2>1 DEF Decide
      <3> QED
        BY <1>1, <3>1, <3>2, RequestMovesOn DEF Ended, Status
    <2>2. CASE RevokeBinding
      <3>1. \A a \in Attempt :
              request'[a] = IF request[a].status \in
                                 {"none", "completed", "failed", "revoked"}
                            THEN request[a] ELSE Moved(request[a], "revoked")
        BY <2>2 DEF RevokeBinding
      <3>2. \A a \in Attempt :
              /\ Moved(request[a], "revoked").version = request[a].version + 1
              /\ Moved(request[a], "revoked").status = "revoked"
        BY RowFacts DEF Moved, Row
      <3>3. RequestsMove
        BY <3>1, <3>2 DEF RequestsMove, Ended
      <3>4. UNCHANGED pullRequest /\ ~bound'
        BY <2>2 DEF RevokeBinding
      <3>5. PullRequestsMove
        BY <3>3, <3>4
        DEF PullRequestsMove, RequestsMove, Links, CompletedHasDraft, Ended
      <3> QED
        BY <1>1, <3>3, <3>4, <3>5 DEF TeamMoves
    <2> QED
      BY <2>1, <2>2 DEF TeamStep
  <1> QED
    BY <1>1, <1>2, LocalLinks DEF IntentMoves

LEMMA QuietLinks ==
  ASSUME IInv, IInv', Links, UNCHANGED <<teamVars, draft, call, intent, waits>>
  PROVE  Links'
  BY NothingMoves, LocalLinks DEF IntentMoves

-----------------------------------------------------------------------------
(* The theorem.                                                            *)

LEMMA InitLinks == Init => Links
  <1> SUFFICES ASSUME Init PROVE Links
    OBVIOUS
  <1>1. \A c \in Call : At(c) = "free"
    BY Constants DEF Init, At
  <1>2. \A c \in Call : Finds(c) /\ Reserves(c)
    BY <1>1 DEF Finds, Reserves
  <1>3. CompletedHasDraft
    BY DEF Init, TeamInit, NoRow, CompletedHasDraft
  <1>4. WaitsForOwn /\ EndsAreTrue
    BY Constants DEF Init, WaitsForOwn, EndsAreTrue
  <1> QED
    BY <1>2, <1>3, <1>4 DEF Links

LEMMA NextLinks == IInv /\ IInv' /\ Links /\ [Next]_vars => Links'
  <1> SUFFICES ASSUME IInv, IInv', Links, [Next]_vars PROVE Links'
    OBVIOUS
  <1>1. ASSUME NEW c \in Call, Proceed(c)
        PROVE  Links'
    BY <1>1, ReservingLinks, ObservingLinks, MintingLinks, NotingLinks,
       MintedLinks, RevokingLinks, SettlingLinks, ConfirmingLinks,
       ReportingLinks, VerifyingLinks, RecordingLinks, AdoptingLinks,
       OpeningLinks, ResolvingLinks, FinishingLinks DEF Proceed
  <1>2. ASSUME NEW c \in Call, Break(c)
        PROVE  Links'
    BY <1>2, MintingFailsLinks, MintingLinks, MintedLinks, ResolvingLinks,
       DieLinks DEF Break
  <1>3. CASE DesktopStep
    BY <1>3, SubmitLinks, AdvanceLinks, EndsLinks, PushLinks, InterruptLinks
    DEF DesktopStep
  <1>4. CASE PushFails \/ Stop \/ Crash \/ ForeignPush
    BY <1>4, InterruptLinks
  <1>5. CASE TeamStep
    BY <1>5, TeamStepLinks
  <1>6. ASSUME NEW a \in Attempt, NEW n \in 1..MaxGrants, ExpireToken(a, n)
        PROVE  Links'
    BY <1>6, QuietLinks DEF ExpireToken, desktopVars
  <1>7. CASE UNCHANGED vars
    BY <1>7, QuietLinks DEF vars, gitHubVars, desktopVars
  <1> QED
    BY <1>1, <1>2, <1>3, <1>4, <1>5, <1>6, <1>7 DEF Next

(* A desktop calls its delivery completed or failed only as the Team's     *)
(* request is, completed only with the draft open, revoked only if request *)
(* or binding is, whatever the calls it has given up still do; and         *)
(* attempts it has left behind stay ended.                                 *)
THEOREM EndsTrue == Spec => []EndsAreTrue
  <1>1. Init => IInv /\ Links
    BY InitHolds, InitLinks
  <1>2. IInv /\ Links /\ [Next]_vars => (IInv /\ Links)'
    BY NextHolds, NextLinks
  <1>3. Links => EndsAreTrue
    BY DEF Links
  <1> QED
    BY <1>1, <1>2, <1>3, PTL DEF Spec
=============================================================================
