-------------------------- MODULE WorkRequestTeam --------------------------
(***************************************************************************)
(* The Team's side of one work request: its row in work_requests, the      *)
(* tombstones of released claims, the runs projected into workflow_runs    *)
(* and the answers stored under idempotency keys.  Every operation is one  *)
(* transaction.  Requests share nothing with each other: run ids and keys  *)
(* are digests over the work request's id, so one request is the model.    *)
(*                                                                         *)
(* A run id is a digest over the desktop's local project and the request:  *)
(* the desktop stands for the run it would create.                         *)
(***************************************************************************)
EXTENDS Integers

CONSTANTS
  Desktop,    \* desktops, each with the one run it may create
  User,
  Token,      \* bearer tokens: one for each pairing
  DesktopOf,  \* [Token -> Desktop]: where a token is paired
  UserOf,     \* [Token -> User]: whom it acts for
  None,       \* no claimant
  MaxVersion, \* bound on the versions of the request
  MaxChanges  \* bound on tokens revoked and access taken or given

ASSUME TeamAssumption ==
  /\ DesktopOf \in [Token -> Desktop]
  /\ UserOf \in [Token -> User]
  /\ None \notin Desktop \union Token
  /\ MaxVersion \in Nat \ {0}
  /\ MaxChanges \in Nat

VARIABLES
  request,      \* the row of the request
  tombstones,   \* runs whose claim has been released
  projections,  \* runs the Team has a row of
  answers,      \* results stored under idempotency keys
  overdue,      \* is the request past its expiry?
  live,         \* tokens that are not revoked
  members,      \* users with access to the project
  changes       \* tokens revoked and access changed so far

rowVars == <<request, tombstones, projections, answers>>
accessVars == <<live, members, changes>>
teamVars == <<rowVars, overdue, accessVars>>

Status == {"open", "claim_pending", "materialized", "expired"}
Row == [status : Status, version : 1..MaxVersion,
        token : Token \union {None}, run : Desktop \union {None}]
Message == [op : {"claim", "materialize", "upload"}, token : Token,
            version : 0..MaxVersion]

(* Keys are kept per user and derived from the run and the version.        *)
Key(m) == [op |-> m.op, user |-> UserOf[m.token],
           run |-> DesktopOf[m.token], version |-> m.version]
KeyType == [op : {"claim", "materialize"}, user : User, run : Desktop,
            version : 1..MaxVersion]
AnswerType == [key : KeyType, ok : BOOLEAN]

TeamInit ==
  /\ request = [status |-> "open", version |-> 1, token |-> None, run |-> None]
  /\ tombstones = {}
  /\ projections = {}
  /\ answers = {}
  /\ overdue = FALSE
  /\ live = Token
  /\ members = User
  /\ changes = 0

Authorized(t) == t \in live /\ UserOf[t] \in members

(* What a bearer gets to see in the list.                                  *)
Visible(t) ==
  /\ Authorized(t)
  /\ \/ request.status = "open"
     \/ request.status \in {"claim_pending", "materialized"}
        /\ request.token = t

-----------------------------------------------------------------------------
(* Writes under an idempotency key.  A live token of a user without access *)
(* has its refusal stored; a revoked token is refused and leaves nothing.  *)

(* Mutant: a repeated request is taken for a new one.                      *)
NeverAnswered(m) == FALSE

Answered(m) == \E a \in answers : a.key = Key(m)

Finalize(m, ok) == answers' = answers \union {[key |-> Key(m), ok |-> ok]}

(* After the request: is the caller told that it succeeded?                *)
Granted(m) ==
  Authorized(m.token) /\ [key |-> Key(m), ok |-> TRUE] \in answers'

(* At the bound nobody writes the request any more.                         *)
Full == request.version >= MaxVersion

Bump(status) == [request EXCEPT !.status = status, !.version = @ + 1]

CanClaim(m) ==
  /\ request.version = m.version
  /\ request.status = "open"
  /\ DesktopOf[m.token] \notin projections

ClaimWorkRequest(m) ==
  /\ \/ /\ request.status = "open" /\ overdue
        /\ request' = Bump("expired")
        /\ Finalize(m, FALSE)
        /\ UNCHANGED <<tombstones, projections>>
     \/ /\ ~(request.status = "open" /\ overdue)
        /\ CanClaim(m)
        /\ request' = [Bump("claim_pending") EXCEPT !.token = m.token,
                                                    !.run = DesktopOf[m.token]]
        /\ Finalize(m, TRUE)
        /\ UNCHANGED <<tombstones, projections>>
     \/ /\ ~(request.status = "open" /\ overdue)
        /\ ~CanClaim(m)
        /\ Finalize(m, FALSE)
        /\ UNCHANGED <<request, tombstones, projections>>

IsClaimant(m) ==
  request.token = m.token /\ request.run = DesktopOf[m.token]

MaterializeWorkRequest(m) ==
  LET ok == /\ request.version = m.version
            /\ request.status = "claim_pending"
            /\ IsClaimant(m)
  IN /\ request' = IF ok THEN Bump("materialized") ELSE request
     /\ Finalize(m, ok)
     /\ UNCHANGED <<tombstones, projections>>

Keyed(m) ==
  /\ ~Full
  /\ IF Answered(m) \/ m.token \notin live
     THEN UNCHANGED rowVars
     ELSE IF UserOf[m.token] \notin members
     THEN Finalize(m, FALSE)
          /\ UNCHANGED <<request, tombstones, projections>>
     ELSE IF m.op = "claim"
     THEN ClaimWorkRequest(m)
     ELSE MaterializeWorkRequest(m)

-----------------------------------------------------------------------------
(* A lead gives the claim up; its run is remembered as released.           *)

Releasable ==
  request.status = "claim_pending" /\ request.run \notin projections

(* Mutant: no tombstone is left.                                           *)
ReleaseSilently ==
  /\ ~Full
  /\ Releasable
  /\ request' = [Bump(IF overdue THEN "expired" ELSE "open")
                   EXCEPT !.token = None, !.run = None]
  /\ UNCHANGED <<tombstones, projections, answers, overdue,
                 accessVars>>

ReleaseWorkRequest ==
  /\ ~Full
  /\ Releasable
  /\ tombstones' = tombstones \union {request.run}
  /\ request' = [Bump(IF overdue THEN "expired" ELSE "open")
                   EXCEPT !.token = None, !.run = None]
  /\ UNCHANGED <<projections, answers, overdue, accessVars>>

(* The upload of a run: only from the bearer that holds its claim, and not *)
(* after the claim was released.                                           *)
MayProject(t) ==
  /\ Authorized(t)
  /\ IF request.run = DesktopOf[t]
     THEN request.token = t
     ELSE DesktopOf[t] \notin tombstones

UploadRunSummary(m) ==
  /\ projections' = IF MayProject(m.token)
                    THEN projections \union {DesktopOf[m.token]}
                    ELSE projections
  /\ UNCHANGED <<request, tombstones, answers>>

(* A lead deletes the Team's row of a run.  The desktop then refuses to    *)
(* delete its own: the run is bound to a work request.                     *)
DeleteRun(d) ==
  /\ d \in projections
  /\ projections' = projections \ {d}
  /\ UNCHANGED <<request, tombstones, answers, overdue, accessVars>>

-----------------------------------------------------------------------------
(* The world around.                                                       *)

Lapse ==
  /\ ~overdue
  /\ overdue' = TRUE
  /\ UNCHANGED <<rowVars, accessVars>>

Change == changes < MaxChanges /\ changes' = changes + 1

RevokeDesktopToken(t) ==
  /\ Change
  /\ t \in live
  /\ live' = live \ {t}
  /\ UNCHANGED <<rowVars, overdue, members>>

ChangeAccess(u) ==
  /\ Change
  /\ members' = IF u \in members THEN members \ {u} ELSE members \union {u}
  /\ UNCHANGED <<rowVars, overdue, live>>

TeamHandles(m) ==
  /\ IF m.op = "upload" THEN UploadRunSummary(m) ELSE Keyed(m)
  /\ UNCHANGED <<overdue, accessVars>>
=============================================================================
