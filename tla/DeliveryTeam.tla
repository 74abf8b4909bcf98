---------------------------- MODULE DeliveryTeam ----------------------------
(***************************************************************************)
(* The Team's side of one GitHub delivery: a series of attempts to publish *)
(* one commit.  Each attempt has a request that is approved, the grants of *)
(* credentials to push with, the publication the desktop reports and the   *)
(* draft pull request.  Every operation is one transaction that compares   *)
(* the versions its caller has read.                                       *)
(*                                                                         *)
(* A transaction that may be refused is two operators: when it is granted, *)
(* and what it does.  A refusal leaves all the rows as they are.           *)
(***************************************************************************)
EXTENDS Integers, Sequences

CONSTANTS
  MaxAttempts,  \* bound on the attempts of the series
  MaxGrants     \* credentials the Team grants to one attempt

ASSUME DeliveryAssumption ==
  MaxAttempts \in Nat \ {0} /\ MaxGrants \in Nat \ {0}

Attempt == 1..MaxAttempts

VARIABLES
  bound,        \* is the repository's binding active?
  request,      \* [Attempt -> row]
  grants,       \* [Attempt -> sequence of rows], the current one last
  publication,  \* [Attempt -> row]; grant 0: adopted from the attempt before
  pullRequest   \* [Attempt -> row]

teamVars == <<bound, request, grants, publication, pullRequest>>

NoRow == [status |-> "none", version |-> 0]

TeamInit ==
  /\ bound = TRUE
  /\ request = [a \in Attempt |-> NoRow]
  /\ grants = [a \in Attempt |-> <<>>]
  /\ publication = [a \in Attempt |-> [status |-> "none", version |-> 0,
                                       grant |-> 0]]
  /\ pullRequest = [a \in Attempt |-> NoRow]

Moved(row, status) == [row EXCEPT !.status = status, !.version = @ + 1]

MoveRequest(a, status) == request' = [request EXCEPT ![a] = Moved(@, status)]

MoveGrant(a, n, status, outcome) ==
  grants' = [grants EXCEPT ![a][n] = [Moved(@, status) EXCEPT
                                        !.outcome = outcome]]

MovePublication(a, n, status) ==
  publication' = [publication EXCEPT ![a] = [Moved(@, status) EXCEPT
                                               !.grant = n]]

MovePullRequest(a, status) ==
  pullRequest' = [pullRequest EXCEPT ![a] = Moved(@, status)]

-----------------------------------------------------------------------------
(* Requests, decisions and the binding.                                    *)

MayCreateRequest(a) ==
  /\ bound
  /\ request[a].status = "none"
  /\ a > 1 => request[a - 1].status \in {"failed", "revoked"}

CreateRequest(a) ==
  /\ MoveRequest(a, "approval_required")
  /\ UNCHANGED <<bound, grants, publication, pullRequest>>

(* A rejected request ends as revoked.                                     *)
Decide(a) ==
  /\ bound
  /\ request[a].status = "approval_required"
  /\ \E status \in {"approved", "revoked"} : MoveRequest(a, status)
  /\ UNCHANGED <<bound, grants, publication, pullRequest>>

RevokedWithBinding(grant) ==
  IF grant.status \in {"issuing", "issued", "recovery_required"}
  THEN [Moved(grant, "revoked") EXCEPT !.outcome = "binding"]
  ELSE grant

RevokeBinding ==
  /\ bound
  /\ bound' = FALSE
  /\ grants' = [a \in Attempt |-> [n \in DOMAIN grants[a] |->
                                     RevokedWithBinding(grants[a][n])]]
  /\ request' = [a \in Attempt |->
                   IF request[a].status \in
                        {"none", "completed", "failed", "revoked"}
                   THEN request[a]
                   ELSE Moved(request[a], "revoked")]
  /\ UNCHANGED <<publication, pullRequest>>

-----------------------------------------------------------------------------
(* Grants of credentials.                                                  *)

Current(a) == grants[a][Len(grants[a])]

(* Mutant: a grant that has failed is taken for cleared.                   *)
ClearedOnceFailed(g) ==
  g.status \in {"failed", "revoked", "expired"} /\ g.outcome # "binding"

(* Is it certain that nobody can push with the credential of the grant?    *)
Cleared(g) ==
  \/ /\ g.status \in {"failed", "revoked"}
     /\ \/ g.outcome = "absent" /\ ~g.issued
        \/ g.outcome = "revocation" /\ (g.issued => g.status = "revoked")
  \/ g.status = "expired" /\ g.outcome = "expiry"

(* Mutant: the grants of a revoked binding are forgotten.                  *)
NothingPending == FALSE

PendingUnissued ==
  \E a \in Attempt : \E n \in DOMAIN grants[a] :
    ~grants[a][n].issued /\ ~Cleared(grants[a][n])

UnclearedBefore(a) ==
  \E b \in Attempt : \E n \in DOMAIN grants[b] :
    <<b, n>> # <<a, Len(grants[a])>> /\ ~Cleared(grants[b][n])

Renewable(a) == Cleared(Current(a)) /\ Len(grants[a]) < MaxGrants

Reservable(a) ==
  /\ bound
  /\ ~UnclearedBefore(a)
  /\ grants[a] # <<>> => Renewable(a)
  /\ \/ request[a].status = "approved"
     \/ grants[a] # <<>> /\ request[a].status \in {"failed", "recovery_required"}

(* Mutant: a reservation that comes late is taken for a new one.           *)
MayReserveInAnyVersion(a, version) == Reservable(a)

MayReserve(a, version) == Reservable(a) /\ request[a].version = version

Reserve(a) ==
  /\ MoveRequest(a, "publishing_branch")
  /\ grants' = [grants EXCEPT
                  ![a] = Append(@, [status |-> "issuing", version |-> 1,
                                    outcome |-> "none", issued |-> FALSE])]
  /\ UNCHANGED <<bound, publication, pullRequest>>

(* The current grant is handed out already: its reservation is replayed.   *)
ReplaysIssued(a) ==
  /\ bound
  /\ ~UnclearedBefore(a)
  /\ grants[a] # <<>>
  /\ Current(a).status = "issued"

MayFinalizeGrant(a, n, version, grantVersion) ==
  /\ bound
  /\ request[a].version = version
  /\ grants[a][n].version = grantVersion
  /\ request[a].status = "publishing_branch"
  /\ grants[a][n].status = "issuing"

FinalizeGrant(a, n, status) ==
  /\ MoveRequest(a, IF status = "issued" THEN "publishing_branch" ELSE status)
  /\ grants' = [grants EXCEPT
                  ![a][n] = [Moved(@, status) EXCEPT
                               !.outcome = IF status = "issued"
                                           THEN "none" ELSE "failed",
                               !.issued = status = "issued"]]
  /\ UNCHANGED <<bound, publication, pullRequest>>

(* The caller holds what the reservation gave it, not the pairing: it can  *)
(* still confirm after the binding or its token is gone.                   *)
AtOrAfter(row, version) ==
  \/ row.version = version
  \/ /\ row.version = version + 1
     /\ row.status \in {"failed", "recovery_required", "revoked"}

UnissuedConfirmable(a, n, version, grantVersion) ==
  LET g == grants[a][n] IN
  /\ ~g.issued
  /\ AtOrAfter(g, grantVersion)
  /\ AtOrAfter(request[a], version)
  /\ g.status \in {"issuing", "recovery_required", "failed", "revoked"}
  /\ g.outcome \notin {"absent", "revocation"}

IssuedConfirmable(a, n, version, grantVersion, outcome) ==
  LET g == grants[a][n] IN
  /\ outcome = "revocation"
  /\ g.status = "issued"
  /\ g.outcome = "none"
  /\ g.version = grantVersion + 1
  /\ request[a].version = version + 1
  /\ request[a].status = "publishing_branch"

ClearedAlready(a, n, outcome) ==
  /\ grants[a][n].status \in {"failed", "revoked"}
  /\ grants[a][n].outcome = outcome
  /\ Cleared(grants[a][n])

MayConfirmClearance(a, n, version, grantVersion, outcome) ==
  \/ ClearedAlready(a, n, outcome)
  \/ UnissuedConfirmable(a, n, version, grantVersion)
  \/ IssuedConfirmable(a, n, version, grantVersion, outcome)

ConfirmClearance(a, n, outcome) ==
  LET g == grants[a][n] IN
  /\ IF ClearedAlready(a, n, outcome)
     THEN UNCHANGED <<request, grants>>
     ELSE /\ MoveGrant(a, n, IF g.status \in {"revoked", "issued"}
                             THEN "revoked" ELSE "failed", outcome)
          /\ IF /\ request[a].status = "publishing_branch"
                /\ g.status \in {"issuing", "recovery_required", "issued"}
             THEN MoveRequest(a, "failed")
             ELSE UNCHANGED request
  /\ UNCHANGED <<bound, publication, pullRequest>>

MayConfirmExpiry(a, n, version, grantVersion) ==
  /\ grants[a][n].status = "issued"
  /\ grants[a][n].version = grantVersion
  /\ request[a].version = version
  /\ request[a].status = "publishing_branch"

ConfirmExpiry(a, n) ==
  /\ MoveGrant(a, n, "expired", "expiry")
  /\ MoveRequest(a, "recovery_required")
  /\ UNCHANGED <<bound, publication, pullRequest>>

-----------------------------------------------------------------------------
(* Publications.                                                           *)

(* A publication that was not verified can be reported anew, with the grant*)
(* it was reported with or with one issued since.                          *)
Rearms(a, n) ==
  /\ publication[a].status \in {"recovery_required", "conflict"}
  /\ \/ /\ publication[a].grant = n
        /\ request[a].status = "recovery_required"
        /\ grants[a][n].status = "consumed"
     \/ /\ publication[a].grant # n
        /\ request[a].status = "publishing_branch"
        /\ grants[a][n].status = "issued"

MayReport(a, n, version, grantVersion) ==
  /\ bound
  /\ request[a].version = version
  /\ grants[a][n].version = grantVersion
  /\ \/ Rearms(a, n)
     \/ /\ publication[a].status = "none"
        /\ request[a].status = "publishing_branch"
        /\ grants[a][n].status = "issued"

Report(a, n) ==
  /\ IF grants[a][n].status = "issued"
     THEN MoveGrant(a, n, "consumed", "none")
     ELSE UNCHANGED grants
  /\ MovePublication(a, n, "verifying")
  /\ MoveRequest(a, "publishing_branch")
  /\ UNCHANGED <<bound, pullRequest>>

MayFinalizePublication(a, version, publicationVersion) ==
  /\ bound
  /\ request[a].version = version
  /\ publication[a].version = publicationVersion
  /\ request[a].status = "publishing_branch"
  /\ publication[a].status = "verifying"

FinalizePublication(a, status) ==
  /\ MovePublication(a, publication[a].grant, status)
  /\ MoveRequest(a, CASE status = "verified" -> "branch_published"
                      [] status = "failed" -> "failed"
                      [] OTHER -> "recovery_required")
  /\ UNCHANGED <<bound, grants, pullRequest>>

(* The branch the attempt before has published still has its pull request  *)
(* to come.                                                                *)
Adoptable(a) ==
  /\ a > 1
  /\ request[a - 1].status = "failed"
  /\ publication[a - 1].status = "verified"
  /\ pullRequest[a - 1].status = "failed"

MayAdopt(a, version) ==
  /\ bound
  /\ publication[a].status = "none"
  /\ request[a].version = version
  /\ request[a].status = "approved"

Adopt(a) ==
  /\ MovePublication(a, 0, "verified")
  /\ MoveRequest(a, "branch_published")
  /\ UNCHANGED <<bound, grants, pullRequest>>

-----------------------------------------------------------------------------
(* Draft pull requests.                                                    *)

ReplaysPullRequest(a) ==
  bound /\ pullRequest[a].status \in {"creating", "completed"}

MayReservePullRequest(a, version) ==
  /\ bound
  /\ pullRequest[a].status \notin {"creating", "completed"}
  /\ request[a].version = version
  /\ publication[a].status = "verified"
  /\ \/ request[a].status = "branch_published"
     \/ /\ request[a].status = "recovery_required"
        /\ pullRequest[a].status = "recovery_required"

ReservePullRequest(a) ==
  /\ MovePullRequest(a, "creating")
  /\ MoveRequest(a, "creating_pr")
  /\ UNCHANGED <<bound, grants, publication>>

MayFinalizePullRequest(a, version, pullRequestVersion, status) ==
  /\ bound
  /\ \/ pullRequest[a].status = status
     \/ /\ request[a].version = version
        /\ pullRequest[a].version = pullRequestVersion
        /\ request[a].status = "creating_pr"
        /\ pullRequest[a].status = "creating"

(* An outcome that is there already is answered once more.                 *)
FinalizePullRequest(a, status) ==
  /\ IF pullRequest[a].status = status
     THEN UNCHANGED <<request, pullRequest>>
     ELSE MovePullRequest(a, status) /\ MoveRequest(a, status)
  /\ UNCHANGED <<bound, grants, publication>>
=============================================================================
