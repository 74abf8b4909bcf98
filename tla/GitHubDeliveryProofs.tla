------------------------ MODULE GitHubDeliveryProofs ------------------------
(***************************************************************************)
(* Proofs about GitHub delivery, for any number of attempts, credentials,  *)
(* calls side by side and faults.                                          *)
(***************************************************************************)
EXTENDS GitHubDelivery, SequenceTheorems, TLAPS

-----------------------------------------------------------------------------
(* Types, as far as the proofs need them.                                  *)

Status ==
  {"none", "approval_required", "approved", "revoked", "publishing_branch",
   "failed", "recovery_required", "issuing", "issued", "expired", "consumed",
   "verifying", "verified", "conflict", "branch_published", "creating",
   "creating_pr", "completed"}

Outcome ==
  {"none", "binding", "failed", "absent", "revocation", "expiry"}

Row == [status : Status, version : Nat]

Grant ==
  [status : Status, version : Nat, outcome : Outcome, issued : BOOLEAN]

Publication == [status : Status, version : Nat, grant : Nat]

TeamTypes ==
  /\ bound \in BOOLEAN
  /\ request \in [Attempt -> Row]
  /\ grants \in [Attempt -> Seq(Grant)]
  /\ \A a \in Attempt : Len(grants[a]) <= MaxGrants
  /\ publication \in [Attempt -> Publication]
  /\ pullRequest \in [Attempt -> Row]

(* Where a call works on a credential nobody else works on.                *)
Working ==
  {"minting", "noting", "minted", "revoking", "settling", "confirming"}

Elsewhere ==
  {"free", "reserving", "observing", "reporting", "verifying", "recording",
   "adopting", "opening", "finding", "creating", "finishing"}

Handler ==
  [pc : Working \union Elsewhere, attempt : Attempt, n : Nat, version : Nat,
   row : Nat, result : Status, clear : {"none", "absent", "revocation"},
   answer : {"none", "error", "binding_inactive"}]

Token == {"none", "live", "revoked", "expired"}

TokenTypes == token \in [Attempt -> [1..MaxGrants -> Token]]

LocalTypes ==
  /\ call \in [Call -> Handler]
  /\ intent \in [attempt : Attempt, status : Status]
  /\ held \in [n : Nat, version : Nat, row : Nat]

-----------------------------------------------------------------------------
(* The inductive invariant.                                                *)

(* Of any two grants one is cleared.                                       *)
OneUncleared ==
  \A a, b \in Attempt : \A n \in DOMAIN grants[a], m \in DOMAIN grants[b] :
    <<a, n>> = <<b, m>> \/ Cleared(grants[a][n]) \/ Cleared(grants[b][m])

IssuedIsIssued ==
  \A a \in Attempt : \A n \in DOMAIN grants[a] :
    grants[a][n].status = "issued" => grants[a][n].issued

(* A credential somebody could push with belongs to a grant that is not    *)
(* cleared.                                                                *)
LiveUncleared ==
  \A a \in Attempt : \A n \in 1..MaxGrants :
    token[a][n] = "live" => n \in DOMAIN grants[a] /\ ~Cleared(grants[a][n])

(* No two calls work on the same credential.                               *)
NobodyElse ==
  \A c, d \in Call :
    /\ At(c) \in Working /\ At(d) \in Working
    /\ call[c].attempt = call[d].attempt
    /\ call[c].n = call[d].n
    => c = d

Open(a, n) == ~grants[a][n].issued /\ ~Cleared(grants[a][n])

(* What a call at work knows of its grant and credential.                  *)
WorkHolds(c) ==
  LET a == call[c].attempt n == call[c].n IN
  At(c) \in Working =>
    /\ n \in DOMAIN grants[a]
    /\ At(c) \in {"minting", "minted"} => Open(a, n)
    /\ At(c) = "minting" => token[a][n] # "live"
    /\ At(c) = "noting" /\ call[c].clear # "none" => token[a][n] # "live"
    /\ At(c) = "noting" => call[c].answer = "error"
    /\ At(c) \in {"settling", "confirming"} =>
         token[a][n] # "live" /\ call[c].clear # "none"
    /\ At(c) \in {"revoking", "settling", "confirming"} =>
         \/ call[c].answer = "error"
         \/ call[c].answer = "binding_inactive" /\ ~bound /\ Open(a, n)

ToldHolds ==
  told =>
    /\ ~bound
    /\ \A a \in Attempt : \A n \in DOMAIN grants[a] :
         grants[a][n].issued \/ Cleared(grants[a][n])

GrantsHold == TeamTypes /\ OneUncleared /\ IssuedIsIssued

IInv ==
  /\ TokenTypes /\ LocalTypes /\ told \in BOOLEAN
  /\ GrantsHold
  /\ LiveUncleared
  /\ NobodyElse
  /\ \A c \in Call : WorkHolds(c)
  /\ ToldHolds

-----------------------------------------------------------------------------
(* The rows of the Team.                                                   *)

LEMMA GrantFacts ==
  ASSUME TeamTypes, NEW a \in Attempt
  PROVE  /\ grants[a] \in Seq(Grant)
         /\ Len(grants[a]) \in Nat
         /\ DOMAIN grants[a] = 1..Len(grants[a])
         /\ DOMAIN grants[a] \subseteq 1..MaxGrants
         /\ \A n \in DOMAIN grants[a] : grants[a][n] \in Grant
  <1>1. grants[a] \in Seq(Grant) /\ Len(grants[a]) <= MaxGrants
    BY DEF TeamTypes
  <1>2. /\ Len(grants[a]) \in Nat
        /\ DOMAIN grants[a] = 1..Len(grants[a])
        /\ \A n \in 1..Len(grants[a]) : grants[a][n] \in Grant
    BY <1>1, LenProperties, ElementOfSeq
  <1> QED
    BY <1>1, <1>2, DeliveryAssumption

LEMMA MovedRow ==
  ASSUME NEW row \in Row, NEW status \in Status
  PROVE  Moved(row, status) \in Row
  <1> DEFINE v == row.version + 1
  <1>1. v \in Nat
    BY DEF Row
  <1>2. Moved(row, status) = [row EXCEPT !.status = status, !.version = v]
    BY DEF Moved
  <1> HIDE DEF v
  <1> QED
    BY <1>1, <1>2 DEF Row

LEMMA MovedGrant ==
  ASSUME NEW g \in Grant, NEW status \in Status
  PROVE  /\ Moved(g, status) \in Grant
         /\ Moved(g, status).status = status
         /\ Moved(g, status).outcome = g.outcome
         /\ Moved(g, status).issued = g.issued
  <1> DEFINE v == g.version + 1
  <1>1. v \in Nat
    BY DEF Grant
  <1>2. Moved(g, status) = [g EXCEPT !.status = status, !.version = v]
    BY DEF Moved
  <1> HIDE DEF v
  <1> QED
    BY <1>1, <1>2 DEF Grant

LEMMA WithOutcome ==
  ASSUME NEW g \in Grant, NEW outcome \in Outcome
  PROVE  LET h == [g EXCEPT !.outcome = outcome] IN
         /\ h \in Grant /\ h.outcome = outcome
         /\ h.status = g.status /\ h.issued = g.issued
  BY DEF Grant

LEMMA RequestMoves ==
  ASSUME TeamTypes, NEW a \in Attempt, NEW status \in Status,
         MoveRequest(a, status)
  PROVE  request' \in [Attempt -> Row]
  <1>1. Moved(request[a], status) \in Row
    BY MovedRow DEF TeamTypes
  <1> QED
    BY <1>1 DEF TeamTypes, MoveRequest

LEMMA PullRequestMoves ==
  ASSUME TeamTypes, NEW a \in Attempt, NEW status \in Status,
         MovePullRequest(a, status)
  PROVE  pullRequest' \in [Attempt -> Row]
  <1>1. Moved(pullRequest[a], status) \in Row
    BY MovedRow DEF TeamTypes
  <1> QED
    BY <1>1 DEF TeamTypes, MovePullRequest

LEMMA PublicationMoves ==
  ASSUME TeamTypes, NEW a \in Attempt, NEW n \in Nat, NEW status \in Status,
         MovePublication(a, n, status)
  PROVE  publication' \in [Attempt -> Publication]
  <1> DEFINE p == publication[a]
             v == p.version + 1
             q == [p EXCEPT !.status = status, !.version = v]
             r == [q EXCEPT !.grant = n]
  <1>1. p \in Publication /\ v \in Nat
    BY DEF TeamTypes, Publication
  <1>2. publication' = [publication EXCEPT ![a] = r]
    BY DEF MovePublication, Moved
  <1> HIDE DEF p, v
  <1>3. q \in Publication
    BY <1>1 DEF Publication
  <1> HIDE DEF q
  <1>4. r \in Publication
    BY <1>3 DEF Publication
  <1> HIDE DEF r
  <1> QED
    BY <1>2, <1>4 DEF TeamTypes

GrantTypes ==
  /\ grants \in [Attempt -> Seq(Grant)]
  /\ \A a \in Attempt : Len(grants[a]) <= MaxGrants

Becomes(a, n, g) == grants' = [grants EXCEPT ![a][n] = g]

(* A grant that is not cleared changes.                                    *)
LEMMA Touched ==
  ASSUME TeamTypes, OneUncleared, IssuedIsIssued,
         NEW a \in Attempt, NEW n \in DOMAIN grants[a], NEW g \in Grant,
         ~Cleared(grants[a][n]),
         g.status = "issued" => g.issued,
         Becomes(a, n, g)
  PROVE  /\ GrantTypes'
         /\ \A b \in Attempt : DOMAIN grants'[b] = DOMAIN grants[b]
         /\ grants'[a][n] = g
         /\ \A b \in Attempt : \A m \in DOMAIN grants[b] :
              <<b, m>> # <<a, n>> =>
                grants'[b][m] = grants[b][m] /\ Cleared(grants[b][m])
         /\ OneUncleared'
         /\ IssuedIsIssued'
  <1> DEFINE s == [grants[a] EXCEPT ![n] = g]
  <1>1. grants[a] \in Seq(Grant) /\ n \in 1..Len(grants[a])
    BY GrantFacts
  <1>2. /\ s \in Seq(Grant)
        /\ Len(s) = Len(grants[a])
        /\ \A m \in 1..Len(grants[a]) :
             s[m] = IF m = n THEN g ELSE grants[a][m]
    BY <1>1, ExceptSeq
  <1>3. DOMAIN s = DOMAIN grants[a]
    OBVIOUS
  <1>4. grants' = [grants EXCEPT ![a] = s] /\ grants \in [Attempt -> Seq(Grant)]
    BY DEF TeamTypes, Becomes
  <1> HIDE DEF s
  <1>5. grants' \in [Attempt -> Seq(Grant)]
    BY <1>2, <1>4
  <1>6. \A b \in Attempt : grants'[b] = IF b = a THEN s ELSE grants[b]
    BY <1>4
  <1>7. \A b \in Attempt : DOMAIN grants'[b] = DOMAIN grants[b]
    BY <1>3, <1>6
  <1>8. \A b \in Attempt : Len(grants'[b]) = Len(grants[b])
    BY <1>2, <1>6
  <1>9. GrantTypes'
    BY <1>5, <1>8 DEF GrantTypes, TeamTypes
  <1>10. DOMAIN grants[a] = 1..Len(grants[a])
    BY GrantFacts
  <1>11. grants'[a][n] = g
    BY <1>1, <1>2, <1>6
  <1>12. \A b \in Attempt : \A m \in DOMAIN grants[b] :
           <<b, m>> # <<a, n>> => grants'[b][m] = grants[b][m]
    BY <1>2, <1>6, <1>10
  <1>13. \A b \in Attempt : \A m \in DOMAIN grants[b] :
           <<b, m>> # <<a, n>> => Cleared(grants[b][m])
    BY DEF OneUncleared
  <1>14. OneUncleared'
    BY <1>7, <1>12, <1>13 DEF OneUncleared
  <1>15. IssuedIsIssued'
    BY <1>7, <1>11, <1>12 DEF IssuedIsIssued
  <1> QED
    BY <1>7, <1>9, <1>11, <1>12, <1>13, <1>14, <1>15

-----------------------------------------------------------------------------
(* The transactions that change a grant.                                   *)

(* The grants of other calls stay; none is cleared that was not.           *)
GrantsStay(a, n) ==
  /\ \A b \in Attempt : DOMAIN grants'[b] = DOMAIN grants[b]
  /\ \A b \in Attempt : \A m \in DOMAIN grants[b] :
       <<b, m>> # <<a, n>> => grants'[b][m] = grants[b][m]
  /\ \A b \in Attempt : \A m \in DOMAIN grants[b] :
       Cleared(grants'[b][m]) <=> Cleared(grants[b][m])

LEMMA FinalizeGrantHolds ==
  ASSUME GrantsHold, NEW a \in Attempt, NEW n \in DOMAIN grants[a],
         NEW status \in Status, grants[a][n].status = "issuing",
         FinalizeGrant(a, n, status)
  PROVE  GrantsHold' /\ GrantsStay(a, n) /\ bound' = bound
  <1> DEFINE g == grants[a][n]
             outcome == IF status = "issued" THEN "none" ELSE "failed"
             flag == status = "issued"
             h == [Moved(g, status) EXCEPT !.outcome = outcome]
             k == [h EXCEPT !.issued = flag]
  <1>1. g \in Grant /\ g.status = "issuing"
    BY GrantFacts DEF GrantsHold
  <1>2. outcome \in {"none", "failed"} /\ outcome \in Outcome /\ flag \in BOOLEAN
    BY DEF Outcome
  <1>3. Moved(g, status) \in Grant /\ Moved(g, status).status = status
    BY <1>1, MovedGrant
  <1>4. h \in Grant /\ h.outcome = outcome /\ h.status = status
    BY <1>2, <1>3, WithOutcome
  <1>5. Becomes(a, n, k)
    BY DEF FinalizeGrant, Becomes
  <1>6. flag = (status = "issued")
    OBVIOUS
  <1> HIDE DEF h, outcome, flag
  <1>7. /\ k \in Grant /\ k.outcome = outcome /\ k.status = status
        /\ k.issued = flag
    BY <1>2, <1>4 DEF Grant
  <1>8. ~Cleared(g)
    BY <1>1 DEF Cleared
  <1>9. ~Cleared(k)
    BY <1>2, <1>7 DEF Cleared
  <1>10. k.status = "issued" => k.issued
    BY <1>6, <1>7
  <1> HIDE DEF k, g
  <1>11. /\ GrantTypes'
         /\ \A b \in Attempt : DOMAIN grants'[b] = DOMAIN grants[b]
         /\ grants'[a][n] = k
         /\ \A b \in Attempt : \A m \in DOMAIN grants[b] :
              <<b, m>> # <<a, n>> => grants'[b][m] = grants[b][m]
         /\ OneUncleared' /\ IssuedIsIssued'
    BY <1>5, <1>7, <1>8, <1>10, Touched DEF GrantsHold, g
  <1>12. GrantsStay(a, n)
    BY <1>8, <1>9, <1>11 DEF GrantsStay, g
  <1>13. request' \in [Attempt -> Row]
    <2> DEFINE next == IF status = "issued" THEN "publishing_branch" ELSE status
    <2>1. next \in Status /\ MoveRequest(a, next)
      BY DEF FinalizeGrant, Status
    <2> QED
      BY <2>1, RequestMoves DEF GrantsHold
  <1> QED
    BY <1>11, <1>12, <1>13
    DEF GrantsHold, TeamTypes, GrantTypes, FinalizeGrant

LEMMA MoveGrantHolds ==
  ASSUME GrantsHold, NEW a \in Attempt, NEW n \in DOMAIN grants[a],
         NEW status \in Status, NEW outcome \in Outcome,
         ~Cleared(grants[a][n]), status # "issued",
         MoveGrant(a, n, status, outcome)
  PROVE  /\ GrantTypes' /\ OneUncleared' /\ IssuedIsIssued'
         /\ \A b \in Attempt : DOMAIN grants'[b] = DOMAIN grants[b]
         /\ \A b \in Attempt : \A m \in DOMAIN grants[b] :
              <<b, m>> # <<a, n>> =>
                grants'[b][m] = grants[b][m] /\ Cleared(grants[b][m])
         /\ grants'[a][n].status = status
         /\ grants'[a][n].outcome = outcome
         /\ grants'[a][n].issued = grants[a][n].issued
  <1> DEFINE g == grants[a][n]
             h == [Moved(g, status) EXCEPT !.outcome = outcome]
  <1>1. g \in Grant
    BY GrantFacts DEF GrantsHold
  <1>2. /\ h \in Grant /\ h.outcome = outcome
        /\ h.status = status /\ h.issued = g.issued
    BY <1>1, MovedGrant, WithOutcome
  <1>3. Becomes(a, n, h)
    BY DEF MoveGrant, Becomes
  <1> HIDE DEF h
  <1> QED
    BY <1>2, <1>3, Touched DEF GrantsHold

(* A grant is cleared for good.                                            *)
GrantCleared(a, n) ==
  /\ \A b \in Attempt : DOMAIN grants'[b] = DOMAIN grants[b]
  /\ \A b \in Attempt : \A m \in DOMAIN grants[b] :
       <<b, m>> # <<a, n>> => grants'[b][m] = grants[b][m]
  /\ \A b \in Attempt : \A m \in DOMAIN grants[b] : Cleared(grants'[b][m])

LEMMA ConfirmExpiryHolds ==
  ASSUME GrantsHold, NEW a \in Attempt, NEW n \in DOMAIN grants[a],
         grants[a][n].status = "issued", ConfirmExpiry(a, n)
  PROVE  GrantsHold' /\ GrantCleared(a, n) /\ bound' = bound
  <1>1. ~Cleared(grants[a][n])
    BY DEF Cleared
  <1>2. "expired" \in Status /\ "expiry" \in Outcome
    BY DEF Status, Outcome
  <1>3. MoveGrant(a, n, "expired", "expiry")
    BY DEF ConfirmExpiry
  <1>4. /\ GrantTypes' /\ OneUncleared' /\ IssuedIsIssued'
        /\ \A b \in Attempt : DOMAIN grants'[b] = DOMAIN grants[b]
        /\ \A b \in Attempt : \A m \in DOMAIN grants[b] :
             <<b, m>> # <<a, n>> =>
               grants'[b][m] = grants[b][m] /\ Cleared(grants[b][m])
        /\ grants'[a][n].status = "expired" /\ grants'[a][n].outcome = "expiry"
    BY <1>1, <1>2, <1>3, MoveGrantHolds
  <1>5. Cleared(grants'[a][n])
    BY <1>4 DEF Cleared
  <1>6. GrantCleared(a, n)
    BY <1>4, <1>5 DEF GrantCleared
  <1>7. request' \in [Attempt -> Row]
    BY RequestMoves DEF GrantsHold, ConfirmExpiry, Status
  <1> QED
    BY <1>4, <1>6, <1>7 DEF GrantsHold, TeamTypes, GrantTypes, ConfirmExpiry

LEMMA ConfirmClearanceHolds ==
  ASSUME GrantsHold, NEW a \in Attempt, NEW n \in DOMAIN grants[a],
         NEW version, NEW row, NEW outcome \in {"absent", "revocation"},
         MayConfirmClearance(a, n, version, row, outcome),
         ConfirmClearance(a, n, outcome)
  PROVE  /\ GrantsHold' /\ bound' = bound
         /\ \/ Cleared(grants[a][n]) /\ UNCHANGED grants
            \/ ~Cleared(grants[a][n]) /\ GrantCleared(a, n)
  <1> DEFINE g == grants[a][n]
             next == IF g.status \in {"revoked", "issued"}
                     THEN "revoked" ELSE "failed"
  <1>1. CASE ClearedAlready(a, n, outcome)
    <2>1. UNCHANGED <<request, grants, bound, publication, pullRequest>>
      BY <1>1 DEF ConfirmClearance
    <2> QED
      BY <1>1, <2>1
      DEF ClearedAlready, GrantsHold, TeamTypes, OneUncleared, IssuedIsIssued
  <1>2. CASE ~ClearedAlready(a, n, outcome)
    <2>1. g \in Grant
      BY GrantFacts DEF GrantsHold
    <2>2. \/ /\ ~g.issued
             /\ g.status \in {"issuing", "recovery_required", "failed",
                              "revoked"}
             /\ g.outcome \notin {"absent", "revocation"}
          \/ outcome = "revocation" /\ g.status = "issued" /\ g.outcome = "none"
      BY <1>2 DEF MayConfirmClearance, UnissuedConfirmable, IssuedConfirmable
    <2>3. ~Cleared(g)
      BY <2>2 DEF Cleared
    <2>4. MoveGrant(a, n, next, outcome)
      BY <1>2 DEF ConfirmClearance
    <2>5. next \in Status /\ next # "issued" /\ outcome \in Outcome
      BY DEF Status, Outcome
    <2>6. next \in {"failed", "revoked"} /\ (g.status = "issued" => next = "revoked")
      OBVIOUS
    <2> HIDE DEF next
    <2>7. /\ GrantTypes' /\ OneUncleared' /\ IssuedIsIssued'
          /\ \A b \in Attempt : DOMAIN grants'[b] = DOMAIN grants[b]
          /\ \A b \in Attempt : \A m \in DOMAIN grants[b] :
               <<b, m>> # <<a, n>> =>
                 grants'[b][m] = grants[b][m] /\ Cleared(grants[b][m])
          /\ grants'[a][n].status = next /\ grants'[a][n].outcome = outcome
          /\ grants'[a][n].issued = g.issued
      BY <2>3, <2>4, <2>5, MoveGrantHolds
    <2>8. Cleared(grants'[a][n])
      BY <2>1, <2>2, <2>6, <2>7 DEF Cleared, Grant
    <2>9. GrantCleared(a, n)
      BY <2>7, <2>8 DEF GrantCleared
    <2>10. request' \in [Attempt -> Row]
      <3>1. MoveRequest(a, "failed") \/ UNCHANGED request
        BY <1>2 DEF ConfirmClearance
      <3> QED
        BY <3>1, RequestMoves DEF GrantsHold, TeamTypes, Status
    <2> QED
      BY <2>3, <2>7, <2>9, <2>10
      DEF GrantsHold, TeamTypes, GrantTypes, ConfirmClearance
  <1> QED
    BY <1>1, <1>2

(* Where there is no grant, nothing moves.                                 *)
LEMMA NoSuchGrant ==
  ASSUME GrantsHold, NEW a \in Attempt, NEW n, n \notin DOMAIN grants[a],
         NEW status, NEW outcome, MoveGrant(a, n, status, outcome)
  PROVE  UNCHANGED grants
  <1> DEFINE g == [Moved(grants[a][n], status) EXCEPT !.outcome = outcome]
  <1>1. Becomes(a, n, g)
    BY DEF MoveGrant, Becomes
  <1> HIDE DEF g
  <1>2. grants[a] = [m \in DOMAIN grants[a] |-> grants[a][m]]
    BY GrantFacts, IsASeq, LenProperties DEF GrantsHold
  <1>3. [grants[a] EXCEPT ![n] = g] = grants[a]
    BY <1>2
  <1>4. grants' = [grants EXCEPT ![a] = [grants[a] EXCEPT ![n] = g]]
    BY <1>1 DEF Becomes
  <1> QED
    BY <1>3, <1>4 DEF GrantsHold, TeamTypes

(* What nobody has cleared stays so, what was not issued too.              *)
OpenStay ==
  \A b \in Attempt : \A m \in DOMAIN grants[b] :
    /\ m \in DOMAIN grants'[b]
    /\ ~Cleared(grants[b][m]) => ~Cleared(grants'[b][m])
    /\ Open(b, m) => ~grants'[b][m].issued

LEMMA ReportHolds ==
  ASSUME GrantsHold, NEW a \in Attempt, NEW n \in Nat, Report(a, n)
  PROVE  GrantsHold' /\ OpenStay /\ bound' = bound
  <1>1. /\ request' \in [Attempt -> Row]
        /\ publication' \in [Attempt -> Publication]
    BY RequestMoves, PublicationMoves DEF GrantsHold, Report, Status
  <1>2. CASE n \in DOMAIN grants[a] /\ grants[a][n].status = "issued"
    <2>1. ~Cleared(grants[a][n]) /\ grants[a][n].issued
      BY <1>2 DEF Cleared, GrantsHold, IssuedIsIssued
    <2>2. "consumed" \in Status /\ "none" \in Outcome
      BY DEF Status, Outcome
    <2>3. MoveGrant(a, n, "consumed", "none")
      BY <1>2 DEF Report
    <2>4. /\ GrantTypes' /\ OneUncleared' /\ IssuedIsIssued'
          /\ \A b \in Attempt : DOMAIN grants'[b] = DOMAIN grants[b]
          /\ \A b \in Attempt : \A m \in DOMAIN grants[b] :
               <<b, m>> # <<a, n>> =>
                 grants'[b][m] = grants[b][m] /\ Cleared(grants[b][m])
          /\ grants'[a][n].status = "consumed"
          /\ grants'[a][n].outcome = "none"
          /\ grants'[a][n].issued = grants[a][n].issued
      BY <1>2, <2>1, <2>2, <2>3, MoveGrantHolds
    <2>5. ~Cleared(grants'[a][n])
      BY <2>4 DEF Cleared
    <2>6. OpenStay
      BY <2>1, <2>4, <2>5 DEF OpenStay, Open
    <2> QED
      BY <1>1, <2>4, <2>6 DEF GrantsHold, TeamTypes, GrantTypes, Report
  <1>3. CASE ~(n \in DOMAIN grants[a] /\ grants[a][n].status = "issued")
    <2>1. UNCHANGED grants
      <3>1. CASE grants[a][n].status # "issued"
        BY <3>1 DEF Report
      <3>2. CASE n \notin DOMAIN grants[a]
        BY <3>2, NoSuchGrant DEF Report
      <3> QED
        BY <1>3, <3>1, <3>2
    <2> QED
      BY <1>1, <2>1
      DEF GrantsHold, TeamTypes, OneUncleared, IssuedIsIssued, OpenStay, Open,
          Report
  <1> QED
    BY <1>2, <1>3

LEMMA RevokedGrant ==
  ASSUME NEW g \in Grant, g.status = "issued" => g.issued
  PROVE  LET h == RevokedWithBinding(g) IN
         /\ h \in Grant
         /\ h.issued = g.issued
         /\ h.status = "issued" => h.issued
         /\ Cleared(g) => h = g
         /\ ~Cleared(g) => ~Cleared(h)
  <1> DEFINE h == [Moved(g, "revoked") EXCEPT !.outcome = "binding"]
  <1>1. "revoked" \in Status /\ "binding" \in Outcome
    BY DEF Status, Outcome
  <1>2. /\ h \in Grant /\ h.outcome = "binding" /\ h.status = "revoked"
        /\ h.issued = g.issued
    BY <1>1, MovedGrant, WithOutcome
  <1>3. CASE g.status \in {"issuing", "issued", "recovery_required"}
    <2>1. RevokedWithBinding(g) = h
      BY <1>3 DEF RevokedWithBinding
    <2>2. ~Cleared(g)
      BY <1>3 DEF Cleared
    <2>3. ~Cleared(h)
      BY <1>2 DEF Cleared
    <2> HIDE DEF h
    <2> QED
      BY <1>2, <2>1, <2>2, <2>3
  <1>4. CASE g.status \notin {"issuing", "issued", "recovery_required"}
    BY <1>4 DEF RevokedWithBinding
  <1> QED
    BY <1>3, <1>4

LEMMA RevokeBindingHolds ==
  ASSUME GrantsHold, RevokeBinding
  PROVE  GrantsHold' /\ OpenStay /\ bound /\ ~bound'
  <1> DEFINE R(g) == RevokedWithBinding(g)
             s(a) == [n \in DOMAIN grants[a] |-> R(grants[a][n])]
  <1>1. grants' = [a \in Attempt |-> s(a)]
    BY DEF RevokeBinding
  <1>2. \A a \in Attempt : \A n \in DOMAIN grants[a] :
          LET g == grants[a][n] IN
          /\ R(g) \in Grant
          /\ R(g).issued = g.issued
          /\ R(g).status = "issued" => R(g).issued
          /\ Cleared(g) => R(g) = g
          /\ ~Cleared(g) => ~Cleared(R(g))
    BY GrantFacts, RevokedGrant DEF GrantsHold, IssuedIsIssued
  <1> HIDE DEF R
  <1>3. \A a \in Attempt : s(a) \in Seq(Grant) /\ Len(s(a)) = Len(grants[a])
    <2> TAKE a \in Attempt
    <2>1. Len(grants[a]) \in Nat /\ DOMAIN grants[a] = 1..Len(grants[a])
      BY GrantFacts DEF GrantsHold
    <2>2. s(a) \in [1..Len(grants[a]) -> Grant]
      BY <1>2, <2>1
    <2> HIDE DEF s
    <2> QED
      BY <2>1, <2>2, SeqDef, LenProperties
  <1>4. /\ \A a \in Attempt : DOMAIN grants'[a] = DOMAIN grants[a]
        /\ \A a \in Attempt : \A n \in DOMAIN grants[a] :
             grants'[a][n] = R(grants[a][n])
    BY <1>1
  <1>5. GrantTypes'
    <2> HIDE DEF s
    <2> QED
      BY <1>1, <1>3 DEF GrantTypes, GrantsHold, TeamTypes
  <1>6. IssuedIsIssued'
    BY <1>2, <1>4 DEF IssuedIsIssued
  <1>7. OneUncleared'
    BY <1>2, <1>4 DEF OneUncleared, GrantsHold
  <1>8. OpenStay
    BY <1>2, <1>4 DEF OpenStay, Open
  <1>9. request' \in [Attempt -> Row]
    <2>1. \A a \in Attempt : request[a] \in Row
                             /\ Moved(request[a], "revoked") \in Row
      BY MovedRow DEF GrantsHold, TeamTypes, Status
    <2> QED
      BY <2>1 DEF RevokeBinding
  <1> QED
    BY <1>5, <1>6, <1>7, <1>8, <1>9
    DEF GrantsHold, TeamTypes, GrantTypes, RevokeBinding

LEMMA ReserveHolds ==
  ASSUME GrantsHold, NEW a \in Attempt, Reservable(a), Reserve(a)
  PROVE  LET n == Len(grants'[a]) IN
         /\ GrantsHold' /\ OpenStay /\ bound /\ bound'
         /\ n \in Nat /\ n \notin DOMAIN grants[a]
         /\ n \in DOMAIN grants'[a] /\ n \in 1..MaxGrants
         /\ ~grants'[a][n].issued /\ ~Cleared(grants'[a][n])
  <1> DEFINE g == [status |-> "issuing", version |-> 1,
                   outcome |-> "none", issued |-> FALSE]
             k == Len(grants[a])
             s == Append(grants[a], g)
  <1>1. g \in Grant /\ ~g.issued /\ g.status = "issuing"
    BY DEF Grant, Status, Outcome
  <1>2. ~Cleared(g)
    BY <1>1 DEF Cleared
  <1>3. grants' = [grants EXCEPT ![a] = s]
    BY DEF Reserve
  <1> HIDE DEF g
  <1>4. /\ grants[a] \in Seq(Grant) /\ k \in Nat
        /\ DOMAIN grants[a] = 1..k
    BY GrantFacts DEF GrantsHold
  <1>5. /\ s \in Seq(Grant) /\ Len(s) = k + 1
        /\ DOMAIN s = 1..(k + 1)
        /\ \A m \in 1..k : s[m] = grants[a][m]
        /\ s[k + 1] = g
    BY <1>1, <1>4, AppendProperties, LenProperties
  <1> HIDE DEF s
  <1>6. grants' \in [Attempt -> Seq(Grant)] /\ grants'[a] = s
        /\ \A b \in Attempt : b # a => grants'[b] = grants[b]
    BY <1>3, <1>5 DEF GrantsHold, TeamTypes
  <1>7. k < MaxGrants
    BY <1>4, DeliveryAssumption, EmptySeq DEF Reservable, Renewable
  <1>8. GrantTypes'
    <2>1. \A b \in Attempt : Len(grants[b]) <= MaxGrants
      BY DEF GrantsHold, TeamTypes
    <2>2. Len(s) <= MaxGrants
      BY <1>4, <1>5, <1>7, DeliveryAssumption
    <2> HIDE DEF k
    <2>3. \A b \in Attempt : Len(grants'[b]) <= MaxGrants
      BY <1>6, <2>1, <2>2
    <2> QED
      BY <1>6, <2>3 DEF GrantTypes
  <1>9. \A b \in Attempt : \A m \in DOMAIN grants[b] :
          /\ m \in DOMAIN grants'[b]
          /\ grants'[b][m] = grants[b][m]
          /\ Cleared(grants[b][m])
    <2> TAKE b \in Attempt
    <2> TAKE m \in DOMAIN grants[b]
    <2>1. m \in DOMAIN grants'[b] /\ grants'[b][m] = grants[b][m]
      BY <1>4, <1>5, <1>6
    <2>2. CASE <<b, m>> = <<a, k>>
      <3>1. grants[a] # <<>>
        BY <2>2, <1>4
      <3> QED
        BY <2>1, <2>2, <3>1 DEF Reservable, Renewable, Current
    <2>3. CASE <<b, m>> # <<a, k>>
      BY <2>1, <2>3 DEF Reservable, UnclearedBefore
    <2> QED
      BY <2>1, <2>2, <2>3
  <1>10. \A b \in Attempt : \A m \in DOMAIN grants'[b] :
           \/ <<b, m>> = <<a, k + 1>>
           \/ m \in DOMAIN grants[b]
    BY <1>4, <1>5, <1>6
  <1>11. grants'[a][k + 1] = g
    BY <1>5, <1>6
  <1>12. OneUncleared'
    BY <1>9, <1>10 DEF OneUncleared
  <1>13. IssuedIsIssued'
    BY <1>1, <1>9, <1>10, <1>11 DEF IssuedIsIssued, GrantsHold
  <1>14. OpenStay
    BY <1>9 DEF OpenStay, Open
  <1>15. request' \in [Attempt -> Row]
    BY RequestMoves DEF GrantsHold, Reserve, Status
  <1>16. GrantsHold' /\ bound /\ bound'
    BY <1>8, <1>12, <1>13, <1>15
    DEF GrantsHold, TeamTypes, GrantTypes, Reserve, Reservable
  <1>17. /\ Len(grants'[a]) = k + 1 /\ k + 1 \notin DOMAIN grants[a]
         /\ k + 1 \in DOMAIN grants'[a] /\ k + 1 \in 1..MaxGrants
    BY <1>4, <1>5, <1>6, <1>7, DeliveryAssumption
  <1> QED
    BY <1>1, <1>2, <1>4, <1>11, <1>14, <1>16, <1>17

-----------------------------------------------------------------------------
(* The steps of a call.                                                    *)

LEMMA Constants ==
  /\ 1 \in Attempt /\ None \notin Call
  /\ FreeCall \in Handler /\ FreeCall.pc = "free"
  /\ NoToken \in [n : Nat, version : Nat, row : Nat]
  <1>1. 1 \in Attempt /\ None \notin Call
    BY DeliveryAssumption, CallAssumption DEF Attempt
  <1> QED
    BY <1>1 DEF FreeCall, Handler, Elsewhere, Status, NoToken

LEMMA Goes ==
  ASSUME LocalTypes, NEW c \in Call, NEW next \in Handler, Go(c, next)
  PROVE  /\ call' \in [Call -> Handler]
         /\ call'[c] = next
         /\ \A d \in Call : d # c => call'[d] = call[d]
  BY DEF LocalTypes, Go

(* The call ends, or the desktop goes on with another that touches no      *)
(* credential.                                                             *)
Frees(c) ==
  /\ call'[c].pc \in Elsewhere
  /\ \A d \in Call : d # c => call'[d] = call[d]

LEMMA AskFrees ==
  ASSUME LocalTypes, NEW c \in Call, NEW pc \in Elsewhere, NEW version \in Nat,
         Ask(c, pc, version)
  PROVE  call' \in [Call -> Handler] /\ Frees(c)
  <1> DEFINE h == [FreeCall EXCEPT !.pc = pc, !.attempt = intent.attempt,
                                   !.version = version]
  <1>1. h \in Handler /\ h.pc = pc
    BY Constants DEF LocalTypes, Handler
  <1>2. Go(c, h)
    BY DEF Ask
  <1> HIDE DEF h
  <1> QED
    BY <1>1, <1>2, Goes DEF Frees

LEMMA EndFrees ==
  ASSUME LocalTypes, NEW c \in Call, Go(c, FreeCall)
  PROVE  call' \in [Call -> Handler] /\ Frees(c)
  BY Goes, Constants DEF Frees, Elsewhere

LEMMA LocalKeeps ==
  ASSUME LocalTypes, NEW status \in Status, Local(status)
  PROVE  intent' \in [attempt : Attempt, status : Status]
  BY DEF LocalTypes, Local

LEMMA HearErrorFrees ==
  ASSUME LocalTypes, NEW c \in Call, HearError(c)
  PROVE  LocalTypes' /\ Frees(c)
  <1>1. "recovery_required" \in Status
    BY DEF Status
  <1>2. intent' \in [attempt : Attempt, status : Status]
    BY <1>1, LocalKeeps DEF HearError
  <1> QED
    BY <1>2, EndFrees DEF HearError, LocalTypes

LEMMA HearFrees ==
  ASSUME LocalTypes, NEW c \in Call, NEW version \in Nat,
         NEW answer \in {"verified", "adopted", "no_evidence", "token",
                         "completed", "binding_inactive", "error"},
         Hear(c, answer, version)
  PROVE  LocalTypes' /\ Frees(c)
  <1>1. CASE answer \in {"verified", "adopted"}
    <2>1. Local("creating_pr") /\ Ask(c, "opening", version) /\ UNCHANGED held
      BY <1>1 DEF Hear
    <2>2. "creating_pr" \in Status /\ "opening" \in Elsewhere
      BY DEF Status, Elsewhere
    <2> QED
      BY <2>1, <2>2, LocalKeeps, AskFrees DEF LocalTypes
  <1>2. CASE answer = "no_evidence"
    <2>1. /\ Local("publishing_branch") /\ Ask(c, "reserving", version)
          /\ UNCHANGED held
      BY <1>2 DEF Hear
    <2>2. "publishing_branch" \in Status /\ "reserving" \in Elsewhere
      BY DEF Status, Elsewhere
    <2> QED
      BY <2>1, <2>2, LocalKeeps, AskFrees DEF LocalTypes
  <1>3. CASE answer = "token"
    <2>1. /\ held' = [n |-> call[c].n, version |-> version,
                      row |-> call[c].row + 1]
          /\ Go(c, FreeCall) /\ UNCHANGED intent
      BY <1>3 DEF Hear
    <2>2. call[c].n \in Nat /\ call[c].row + 1 \in Nat
      BY DEF LocalTypes, Handler
    <2> QED
      BY <2>1, <2>2, EndFrees DEF LocalTypes
  <1>4. CASE answer \in {"completed", "binding_inactive"}
    <2>1. Local("completed") \/ Local("revoked")
      BY <1>4 DEF Hear
    <2>2. Go(c, FreeCall) /\ UNCHANGED held
      BY <1>4 DEF Hear
    <2>3. "completed" \in Status /\ "revoked" \in Status
      BY DEF Status
    <2> QED
      BY <2>1, <2>2, <2>3, LocalKeeps, EndFrees DEF LocalTypes
  <1>5. CASE answer = "error"
    BY <1>5, HearErrorFrees DEF Hear
  <1> QED
    BY <1>1, <1>2, <1>3, <1>4, <1>5

LEMMA ReplyFrees ==
  ASSUME LocalTypes, NEW c \in Call, request' \in [Attempt -> Row],
         NEW answer \in {"verified", "adopted", "no_evidence", "token",
                         "completed", "binding_inactive", "error"},
         Reply(c, answer)
  PROVE  LocalTypes' /\ Frees(c)
  <1>1. request'[call[c].attempt].version \in Nat
    BY DEF LocalTypes, Handler, Row
  <1>2. CASE waits = c
    BY <1>1, <1>2, HearFrees DEF Reply
  <1>3. CASE waits # c
    BY <1>3, EndFrees DEF Reply, LocalTypes, desktopVars
  <1> QED
    BY <1>2, <1>3

-----------------------------------------------------------------------------
(* What a step leaves to the others.                                       *)

(* No credential comes alive, no grant is cleared.                         *)
LEMMA LiveStays ==
  ASSUME TokenTypes, LiveUncleared,
         \A b \in Attempt : \A m \in DOMAIN grants[b] :
           m \in DOMAIN grants'[b]
           /\ (~Cleared(grants[b][m]) => ~Cleared(grants'[b][m])),
         \A b \in Attempt : \A m \in 1..MaxGrants :
           token'[b][m] = "live" => token[b][m] = "live"
  PROVE  LiveUncleared'
  BY DEF LiveUncleared

LEMMA Bystander ==
  ASSUME NEW d \in Call, WorkHolds(d), call'[d] = call[d],
         ~bound => ~bound',
         At(d) \in Working =>
           LET b == call[d].attempt m == call[d].n IN
           /\ m \in DOMAIN grants'[b]
           /\ Open(b, m) => ~grants'[b][m].issued /\ ~Cleared(grants'[b][m])
           /\ token'[b][m] = "live" => token[b][m] = "live"
  PROVE  WorkHolds(d)'
  BY DEF WorkHolds, Open, At

LEMMA CallStep ==
  ASSUME IInv, NEW c \in Call,
         GrantsHold', TokenTypes', LocalTypes', told' \in BOOLEAN,
         \A d \in Call : d # c => call'[d] = call[d],
         \/ call'[c].pc \in Elsewhere
         \/ /\ At(c) \in Working
            /\ call'[c].attempt = call[c].attempt /\ call'[c].n = call[c].n
         \/ call'[c].n \notin DOMAIN grants[call'[c].attempt],
         ~bound => ~bound',
         \A b \in Attempt : \A m \in DOMAIN grants[b] :
           /\ m \in DOMAIN grants'[b]
           /\ (At(c) \in Working => <<b, m>> # <<call[c].attempt, call[c].n>>)
              => /\ Open(b, m) =>
                      ~grants'[b][m].issued /\ ~Cleared(grants'[b][m])
                 /\ token'[b][m] = "live" => token[b][m] = "live",
         LiveUncleared', WorkHolds(c)', ToldHolds'
  PROVE  IInv'
  <1>1. \A d \in Call : call[d].attempt \in Attempt
    BY DEF IInv, LocalTypes, Handler
  <1>2. Working \intersect Elsewhere = {}
    BY DEF Working, Elsewhere
  <1>3. \A d \in Call : At(d) \in Working =>
          call[d].n \in DOMAIN grants[call[d].attempt]
    BY DEF IInv, WorkHolds
  <1>4. NobodyElse'
    BY <1>1, <1>2, <1>3 DEF IInv, NobodyElse, At
  <1>5. ASSUME NEW d \in Call, d # c
        PROVE  WorkHolds(d)'
    <2> DEFINE b == call[d].attempt m == call[d].n
    <2>1. WorkHolds(d) /\ call'[d] = call[d] /\ b \in Attempt
      BY <1>1, <1>5 DEF IInv
    <2>2. At(d) \in Working =>
            /\ m \in DOMAIN grants[b]
            /\ At(c) \in Working => <<b, m>> # <<call[c].attempt, call[c].n>>
      BY <1>3, <1>5 DEF IInv, NobodyElse
    <2>3. At(d) \in Working =>
            /\ m \in DOMAIN grants'[b]
            /\ Open(b, m) => ~grants'[b][m].issued /\ ~Cleared(grants'[b][m])
            /\ token'[b][m] = "live" => token[b][m] = "live"
      BY <2>1, <2>2
    <2> QED
      BY <2>1, <2>3, Bystander
  <1> QED
    BY <1>4, <1>5 DEF IInv

LEMMA FreedHolds ==
  ASSUME NEW c \in Call, Frees(c)
  PROVE  WorkHolds(c)'
  BY DEF Frees, WorkHolds, At, Working, Elsewhere

LEMMA QuietCall ==
  ASSUME IInv, NEW c \in Call, TeamTypes', LocalTypes', Frees(c),
         UNCHANGED <<grants, token, bound, told>>
  PROVE  IInv'
  <1>1. GrantsHold' /\ TokenTypes' /\ told' \in BOOLEAN
    BY DEF IInv, GrantsHold, OneUncleared, IssuedIsIssued, TokenTypes
  <1>2. LiveUncleared' /\ ToldHolds'
    BY DEF IInv, LiveUncleared, ToldHolds
  <1>3. WorkHolds(c)'
    BY FreedHolds
  <1>4. /\ \A d \in Call : d # c => call'[d] = call[d]
        /\ call'[c].pc \in Elsewhere
    BY DEF Frees
  <1>5. \A b \in Attempt : \A m \in DOMAIN grants[b] :
          /\ m \in DOMAIN grants'[b]
          /\ Open(b, m) => ~grants'[b][m].issued /\ ~Cleared(grants'[b][m])
          /\ token'[b][m] = "live" => token[b][m] = "live"
    BY DEF Open
  <1> QED
    BY <1>1, <1>2, <1>3, <1>4, <1>5, CallStep

LEMMA QuietStep ==
  ASSUME IInv, TeamTypes', LocalTypes',
         UNCHANGED <<call, grants, token, bound, told>>
  PROVE  IInv'
  <1>1. GrantsHold' /\ TokenTypes' /\ told' \in BOOLEAN
    BY DEF IInv, GrantsHold, OneUncleared, IssuedIsIssued, TokenTypes
  <1>2. LiveUncleared' /\ ToldHolds' /\ NobodyElse'
    BY DEF IInv, LiveUncleared, ToldHolds, NobodyElse, At
  <1>3. ASSUME NEW d \in Call
        PROVE  WorkHolds(d)'
    BY DEF IInv, WorkHolds, At, Open
  <1> QED
    BY <1>1, <1>2, <1>3 DEF IInv

(* What is known of a call at work.                                        *)
LEMMA AtWork ==
  ASSUME IInv, NEW c \in Call
  PROVE  /\ GrantsHold /\ TeamTypes /\ LocalTypes /\ TokenTypes
         /\ call[c] \in Handler /\ call[c].attempt \in Attempt
         /\ WorkHolds(c)
         /\ At(c) \in Working =>
              /\ call[c].n \in DOMAIN grants[call[c].attempt]
              /\ call[c].n \in 1..MaxGrants
  <1>1. /\ GrantsHold /\ TeamTypes /\ LocalTypes /\ TokenTypes /\ WorkHolds(c)
        /\ call[c] \in Handler
    BY DEF IInv, GrantsHold, LocalTypes
  <1>2. call[c].attempt \in Attempt
    BY <1>1 DEF Handler
  <1> QED
    BY <1>1, <1>2, GrantFacts DEF WorkHolds

-----------------------------------------------------------------------------
(* The credential, action by action.                                       *)

LEMMA RefusalType == Refusal \in {"error", "binding_inactive"}
  BY DEF Refusal

LEMMA ReservingHolds ==
  ASSUME IInv, NEW c \in Call, Reserving(c)
  PROVE  IInv'
  <1> DEFINE a == call[c].attempt
  <1>1. /\ GrantsHold /\ TeamTypes /\ LocalTypes /\ TokenTypes
        /\ call[c] \in Handler /\ a \in Attempt
    BY AtWork
  <1>2. At(c) = "reserving" /\ At(c) \notin Working
    BY DEF Reserving, Working
  <1>3. CASE MayReserve(a, call[c].version)
    <2> DEFINE n == Len(grants'[a])
               h == [call[c] EXCEPT !.pc = "minting", !.n = n,
                                    !.version = request'[a].version, !.row = 1]
    <2>1. /\ Reserve(a) /\ Go(c, h) /\ Reservable(a)
          /\ UNCHANGED <<told, desktopVars, gitHubVars>>
      BY <1>3 DEF Reserving, MayReserve
    <2>2. /\ GrantsHold' /\ OpenStay /\ bound /\ bound'
          /\ n \in Nat /\ n \notin DOMAIN grants[a]
          /\ n \in DOMAIN grants'[a] /\ n \in 1..MaxGrants
          /\ ~grants'[a][n].issued /\ ~Cleared(grants'[a][n])
      BY <1>1, <2>1, ReserveHolds
    <2>3. request'[a].version \in Nat
      BY <1>1, <2>2 DEF GrantsHold, TeamTypes, Row
    <2> HIDE DEF n
    <2>4. h \in Handler /\ h.pc = "minting" /\ h.attempt = a /\ h.n = n
      BY <1>1, <2>2, <2>3 DEF Handler, Working
    <2> HIDE DEF h
    <2>5. /\ call' \in [Call -> Handler] /\ call'[c] = h
          /\ \A d \in Call : d # c => call'[d] = call[d]
      BY <1>1, <2>1, <2>4, Goes
    <2>6. LocalTypes' /\ TokenTypes' /\ told' \in BOOLEAN /\ token' = token
      BY <1>1, <2>1, <2>5
      DEF LocalTypes, TokenTypes, IInv, desktopVars, gitHubVars
    <2>7. LiveUncleared'
      BY <1>1, <2>2, <2>6, LiveStays DEF OpenStay, IInv
    <2>8. WorkHolds(c)'
      BY <1>1, <2>2, <2>4, <2>5, <2>6 DEF WorkHolds, At, Open, IInv, LiveUncleared
    <2>9. ToldHolds'
      BY <2>1, <2>2 DEF ToldHolds, IInv
    <2>10. \A b \in Attempt : \A m \in DOMAIN grants[b] :
             /\ m \in DOMAIN grants'[b]
             /\ Open(b, m) => ~grants'[b][m].issued /\ ~Cleared(grants'[b][m])
             /\ token'[b][m] = "live" => token[b][m] = "live"
      BY <2>2, <2>6 DEF OpenStay, Open
    <2> QED
      BY <2>2, <2>4, <2>5, <2>6, <2>7, <2>8, <2>9, <2>10, CallStep
  <1>4. CASE ~MayReserve(a, call[c].version) /\ ReplaysIssued(a)
    <2> DEFINE h == [call[c] EXCEPT !.pc = "observing",
                                    !.n = Len(grants[a]),
                                    !.version = request[a].version,
                                    !.row = Current(a).version]
    <2>1. /\ Go(c, h)
          /\ UNCHANGED <<teamVars, told, desktopVars, gitHubVars>>
      BY <1>4 DEF Reserving
    <2>2. /\ Len(grants[a]) \in Nat /\ request[a].version \in Nat
          /\ Current(a).version \in Nat
      <3>1. Len(grants[a]) \in Nat /\ DOMAIN grants[a] = 1..Len(grants[a])
            /\ \A n \in DOMAIN grants[a] : grants[a][n] \in Grant
            /\ grants[a] \in Seq(Grant)
        BY <1>1, GrantFacts
      <3>2. Len(grants[a]) \in DOMAIN grants[a]
        BY <1>4, <3>1, EmptySeq DEF ReplaysIssued
      <3> QED
        BY <1>1, <3>1, <3>2 DEF Current, Grant, TeamTypes, Row
    <2>3. h \in Handler /\ h.pc = "observing"
      BY <1>1, <2>2 DEF Handler, Elsewhere
    <2> HIDE DEF h
    <2>4. call' \in [Call -> Handler] /\ Frees(c)
      BY <1>1, <2>1, <2>3, Goes DEF Frees, Elsewhere
    <2>5. TeamTypes' /\ LocalTypes' /\ UNCHANGED <<grants, token, bound, told>>
      BY <1>1, <2>1, <2>4
      DEF TeamTypes, LocalTypes, teamVars, gitHubVars, desktopVars
    <2> QED
      BY <2>4, <2>5, QuietCall
  <1>5. CASE ~MayReserve(a, call[c].version) /\ ~ReplaysIssued(a)
    <2> DEFINE answer == IF PendingUnissued THEN "error" ELSE Refusal
    <2>1. /\ UNCHANGED <<teamVars, gitHubVars>>
          /\ Reply(c, answer)
          /\ told' = (told \/ answer = "binding_inactive")
      BY <1>5 DEF Reserving
    <2>2. /\ answer \in {"error", "binding_inactive"}
          /\ answer = "binding_inactive" => ~bound /\ ~PendingUnissued
      BY DEF Refusal
    <2> HIDE DEF answer
    <2>3. TeamTypes' /\ UNCHANGED <<grants, token, bound>>
      BY <1>1, <2>1 DEF TeamTypes, teamVars, gitHubVars
    <2>4. LocalTypes' /\ Frees(c)
      BY <1>1, <2>1, <2>2, <2>3, ReplyFrees DEF TeamTypes
    <2>5. GrantsHold' /\ TokenTypes' /\ told' \in BOOLEAN /\ LiveUncleared'
      BY <1>1, <2>1, <2>3
      DEF GrantsHold, OneUncleared, IssuedIsIssued, TokenTypes, IInv,
          LiveUncleared
    <2>6. ToldHolds'
      BY <2>1, <2>2, <2>3 DEF ToldHolds, IInv, PendingUnissued
    <2>7. \A b \in Attempt : \A m \in DOMAIN grants[b] :
            /\ m \in DOMAIN grants'[b]
            /\ Open(b, m) => ~grants'[b][m].issued /\ ~Cleared(grants'[b][m])
            /\ token'[b][m] = "live" => token[b][m] = "live"
      BY <2>3 DEF Open
    <2> QED
      BY <2>3, <2>4, <2>5, <2>6, <2>7, FreedHolds, CallStep DEF Frees
  <1> QED
    BY <1>3, <1>4, <1>5

(* A call at work changes its grant, or only its own place.                *)
LEMMA GrantStep ==
  ASSUME IInv, NEW c \in Call, At(c) \in Working,
         GrantsHold', GrantsStay(call[c].attempt, call[c].n),
         bound' = bound, ~bound => UNCHANGED grants,
         LocalTypes', UNCHANGED <<told, token>>,
         \A d \in Call : d # c => call'[d] = call[d],
         \/ call'[c].pc \in Elsewhere
         \/ call'[c].attempt = call[c].attempt /\ call'[c].n = call[c].n,
         WorkHolds(c)'
  PROVE  IInv'
  <1>1. TokenTypes' /\ told' \in BOOLEAN /\ TokenTypes
    BY DEF IInv, TokenTypes
  <1>2. LiveUncleared'
    BY <1>1, LiveStays DEF GrantsStay, IInv
  <1>3. ToldHolds'
    BY DEF ToldHolds, IInv
  <1>4. \A b \in Attempt : \A m \in DOMAIN grants[b] :
          /\ m \in DOMAIN grants'[b]
          /\ <<b, m>> # <<call[c].attempt, call[c].n>>
             => /\ Open(b, m) =>
                     ~grants'[b][m].issued /\ ~Cleared(grants'[b][m])
                /\ token'[b][m] = "live" => token[b][m] = "live"
    BY DEF GrantsStay, Open
  <1> QED
    BY <1>1, <1>2, <1>3, <1>4, CallStep

(* A call at work makes or ends its credential.                            *)
LEMMA TokenStep ==
  ASSUME IInv, NEW c \in Call, At(c) \in Working, NEW t \in Token,
         t = "live" => ~Cleared(grants[call[c].attempt][call[c].n]),
         token' = [token EXCEPT ![call[c].attempt][call[c].n] = t],
         UNCHANGED <<teamVars, told>>, LocalTypes',
         \A d \in Call : d # c => call'[d] = call[d],
         \/ call'[c].pc \in Elsewhere
         \/ call'[c].attempt = call[c].attempt /\ call'[c].n = call[c].n,
         WorkHolds(c)'
  PROVE  IInv'
  <1> DEFINE a == call[c].attempt n == call[c].n
  <1>1. /\ GrantsHold /\ TeamTypes /\ TokenTypes /\ a \in Attempt
        /\ n \in DOMAIN grants[a] /\ n \in 1..MaxGrants
    BY AtWork
  <1>2. GrantsHold' /\ UNCHANGED <<grants, bound>>
    BY <1>1
    DEF GrantsHold, TeamTypes, OneUncleared, IssuedIsIssued, teamVars
  <1>3. TokenTypes' /\ told' \in BOOLEAN
    BY <1>1 DEF TokenTypes, IInv
  <1>4. \A b \in Attempt : \A m \in 1..MaxGrants :
          token'[b][m] = IF <<b, m>> = <<a, n>> THEN t ELSE token[b][m]
    BY <1>1 DEF TokenTypes
  <1>5. LiveUncleared'
    BY <1>1, <1>2, <1>4 DEF LiveUncleared, IInv
  <1>6. ToldHolds'
    BY <1>2 DEF ToldHolds, IInv
  <1>7. \A b \in Attempt : \A m \in DOMAIN grants[b] :
          /\ m \in DOMAIN grants'[b]
          /\ <<b, m>> # <<a, n>>
             => /\ Open(b, m) =>
                     ~grants'[b][m].issued /\ ~Cleared(grants'[b][m])
                /\ token'[b][m] = "live" => token[b][m] = "live"
    BY <1>1, <1>2, <1>4, GrantFacts DEF Open
  <1> QED
    BY <1>2, <1>3, <1>5, <1>6, <1>7, CallStep

LEMMA TryFinalizeGrantHolds ==
  ASSUME IInv, NEW c \in Call, At(c) \in Working, NEW status \in Status,
         TryFinalizeGrant(c, status)
  PROVE  /\ GrantsHold' /\ GrantsStay(call[c].attempt, call[c].n)
         /\ bound' = bound /\ (~bound => UNCHANGED grants)
  <1> DEFINE a == call[c].attempt n == call[c].n
  <1>1. /\ GrantsHold /\ TeamTypes /\ a \in Attempt
        /\ n \in DOMAIN grants[a]
    BY AtWork
  <1>2. CASE Granted(c)
    <2>1. FinalizeGrant(a, n, status) /\ grants[a][n].status = "issuing" /\ bound
      BY <1>2 DEF TryFinalizeGrant, Granted, MayFinalizeGrant
    <2> QED
      BY <1>1, <2>1, FinalizeGrantHolds
  <1>3. CASE ~Granted(c)
    BY <1>1, <1>3
    DEF TryFinalizeGrant, GrantsHold, TeamTypes, OneUncleared, IssuedIsIssued,
        GrantsStay, teamVars
  <1> QED
    BY <1>2, <1>3

LEMMA NothingFinalized ==
  ASSUME IInv, NEW a, NEW n, UNCHANGED teamVars
  PROVE  GrantsHold' /\ GrantsStay(a, n) /\ bound' = bound /\ UNCHANGED grants
  BY DEF IInv, GrantsHold, TeamTypes, OneUncleared, IssuedIsIssued,
         GrantsStay, teamVars

LEMMA ObservingHolds ==
  ASSUME IInv, NEW c \in Call, Observing(c)
  PROVE  IInv'
  <1> DEFINE a == call[c].attempt n == call[c].n
  <1>1. /\ GrantsHold /\ TeamTypes /\ LocalTypes /\ TokenTypes
        /\ a \in Attempt
    BY AtWork
  <1>2. Reply(c, "error") /\ UNCHANGED <<gitHubVars, told>>
    BY DEF Observing
  <1>3. CASE UNCHANGED teamVars
    <2>1. TeamTypes' /\ UNCHANGED <<grants, bound>>
      BY <1>1, <1>3 DEF TeamTypes, teamVars
    <2>2. LocalTypes' /\ Frees(c)
      BY <1>1, <1>2, <2>1, ReplyFrees DEF TeamTypes
    <2> QED
      BY <1>2, <2>1, <2>2, QuietCall DEF gitHubVars
  <1>4. CASE ConfirmExpiry(a, n) /\ MayConfirmExpiry(a, n, call[c].version,
                                                     call[c].row)
             /\ token[a][n] # "live"
    <2>1. grants[a][n].status = "issued" /\ UNCHANGED <<publication, pullRequest, bound>>
      BY <1>4 DEF MayConfirmExpiry, ConfirmExpiry
    <2>2. CASE n \in DOMAIN grants[a]
      <3>1. GrantsHold' /\ GrantCleared(a, n) /\ bound' = bound
        BY <1>1, <1>4, <2>1, <2>2, ConfirmExpiryHolds
      <3>2. LocalTypes' /\ Frees(c)
        BY <1>1, <1>2, <3>1, ReplyFrees DEF GrantsHold, TeamTypes
      <3>3. TokenTypes' /\ told' \in BOOLEAN /\ UNCHANGED <<token, told>>
        BY <1>1, <1>2 DEF TokenTypes, IInv, gitHubVars
      <3>4. LiveUncleared'
        BY <1>4, <3>1, <3>3 DEF LiveUncleared, IInv, GrantCleared
      <3>5. ToldHolds'
        BY <3>1, <3>3 DEF ToldHolds, IInv, GrantCleared
      <3>6. grants[a][n].issued
        BY <1>1, <2>1, <2>2 DEF GrantsHold, IssuedIsIssued
      <3>7. \A b \in Attempt : \A m \in DOMAIN grants[b] :
              /\ m \in DOMAIN grants'[b]
              /\ Open(b, m) => ~grants'[b][m].issued /\ ~Cleared(grants'[b][m])
              /\ token'[b][m] = "live" => token[b][m] = "live"
        BY <3>1, <3>3, <3>6 DEF Open, GrantCleared
      <3> QED
        BY <3>1, <3>2, <3>3, <3>4, <3>5, <3>7, FreedHolds, CallStep DEF Frees
    <2>3. CASE n \notin DOMAIN grants[a]
      <3>1. UNCHANGED grants
        BY <1>1, <1>4, <2>3, NoSuchGrant DEF ConfirmExpiry
      <3>2. request' \in [Attempt -> Row]
        BY <1>1, <1>4, RequestMoves DEF ConfirmExpiry, Status
      <3>3. LocalTypes' /\ Frees(c)
        BY <1>1, <1>2, <3>2, ReplyFrees
      <3> QED
        BY <1>1, <1>2, <2>1, <3>1, <3>2, <3>3, QuietCall
        DEF TeamTypes, gitHubVars
    <2> QED
      BY <2>2, <2>3
  <1> QED
    BY <1>3, <1>4 DEF Observing

(* A call goes on to another place at work on the same credential.         *)
GoesOn(c, pc, clear, answer) ==
  /\ call'[c].pc = pc
  /\ call'[c].attempt = call[c].attempt /\ call'[c].n = call[c].n
  /\ call'[c].clear = clear /\ call'[c].answer = answer
  /\ \A d \in Call : d # c => call'[d] = call[d]

LEMMA WorkGoesOn ==
  ASSUME IInv, NEW c \in Call, NEW h \in Handler, Go(c, h),
         h.attempt = call[c].attempt, h.n = call[c].n, UNCHANGED desktopVars
  PROVE  LocalTypes' /\ GoesOn(c, h.pc, h.clear, h.answer)
  <1>1. LocalTypes
    BY AtWork
  <1>2. /\ call' \in [Call -> Handler] /\ call'[c] = h
        /\ \A d \in Call : d # c => call'[d] = call[d]
    BY <1>1, Goes
  <1> QED
    BY <1>1, <1>2 DEF GoesOn, LocalTypes, desktopVars

LEMMA MintingHolds ==
  ASSUME IInv, NEW c \in Call, Minting(c)
  PROVE  IInv'
  <1> DEFINE a == call[c].attempt n == call[c].n
             h == [call[c] EXCEPT !.pc = "minted"]
  <1>1. At(c) = "minting" /\ At(c) \in Working /\ "live" \in Token
    BY DEF Minting, Working, Token
  <1>2. /\ token' = [token EXCEPT ![a][n] = "live"]
        /\ Go(c, h) /\ UNCHANGED <<teamVars, told, desktopVars>>
    BY DEF Minting, Step
  <1>3. n \in DOMAIN grants[a] /\ Open(a, n)
    BY <1>1, AtWork DEF WorkHolds
  <1>4. /\ h \in Handler /\ h.pc = "minted"
        /\ h.attempt = a /\ h.n = n
    BY AtWork DEF Handler, Working
  <1> HIDE DEF h
  <1>5. LocalTypes' /\ GoesOn(c, "minted", h.clear, h.answer)
    BY <1>2, <1>4, WorkGoesOn
  <1>6. WorkHolds(c)'
    BY <1>2, <1>3, <1>5 DEF WorkHolds, GoesOn, At, Open, teamVars
  <1> QED
    BY <1>1, <1>2, <1>3, <1>5, <1>6, TokenStep DEF GoesOn, Open

LEMMA MintingFailsHolds ==
  ASSUME IInv, NEW c \in Call, MintingFails(c)
  PROVE  IInv'
  <1> DEFINE a == call[c].attempt n == call[c].n
  <1>1. At(c) = "minting" /\ At(c) \in Working
    BY DEF MintingFails, Working
  <1>2. n \in DOMAIN grants[a] /\ Open(a, n) /\ n \in 1..MaxGrants
        /\ a \in Attempt /\ TokenTypes
    BY <1>1, AtWork DEF WorkHolds
  <1>3. PICK fate \in {<<"none", "failed", "absent">>,
                       <<"revoked", "failed", "revocation">>,
                       <<"revoked", "failed", "none">>,
                       <<"live", "failed", "none">>,
                       <<"none", "recovery_required", "none">>,
                       <<"live", "recovery_required", "none">>} :
          /\ token' = [token EXCEPT ![a][n] = fate[1]]
          /\ Go(c, [call[c] EXCEPT !.pc = "noting", !.result = fate[2],
                                   !.clear = fate[3], !.answer = "error"])
    BY DEF MintingFails
  <1>4. UNCHANGED <<teamVars, told, desktopVars>>
    BY DEF MintingFails
  <1>5. /\ fate[1] \in Token /\ fate[2] \in Status
        /\ fate[3] \in {"none", "absent", "revocation"}
        /\ fate[3] # "none" => fate[1] # "live"
    BY <1>3 DEF Token, Status
  <1>6. LocalTypes' /\ GoesOn(c, "noting", fate[3], "error")
    <2> DEFINE h == [call[c] EXCEPT !.pc = "noting", !.result = fate[2],
                                    !.clear = fate[3], !.answer = "error"]
    <2>1. /\ h \in Handler /\ h.pc = "noting" /\ h.clear = fate[3]
          /\ h.answer = "error" /\ h.attempt = a /\ h.n = n
      BY <1>5, AtWork DEF Handler, Working
    <2>2. Go(c, h)
      BY <1>3
    <2> HIDE DEF h
    <2> QED
      BY <1>4, <2>1, <2>2, WorkGoesOn
  <1>7. token'[a][n] = fate[1]
    BY <1>2, <1>3 DEF TokenTypes
  <1>8. WorkHolds(c)'
    BY <1>2, <1>4, <1>5, <1>6, <1>7 DEF WorkHolds, GoesOn, At, teamVars
  <1> QED
    BY <1>1, <1>2, <1>3, <1>4, <1>5, <1>6, <1>8, TokenStep DEF GoesOn, Open

LEMMA LeasePassesHolds ==
  ASSUME IInv, NEW c \in Call, LeasePasses(c)
  PROVE  IInv'
  <1> DEFINE a == call[c].attempt n == call[c].n
  <1>1. At(c) = "minting" /\ At(c) \in Working
    BY DEF LeasePasses, Working
  <1>2. n \in DOMAIN grants[a] /\ token[a][n] # "live"
    BY <1>1, AtWork DEF WorkHolds
  <1> DEFINE h == [call[c] EXCEPT !.pc = "settling", !.clear = "absent",
                                  !.answer = "error"]
  <1>3. Go(c, h) /\ UNCHANGED <<teamVars, token, told, desktopVars>>
    BY DEF LeasePasses, gitHubVars
  <1>4. LocalTypes' /\ GoesOn(c, "settling", "absent", "error")
    <2>1. /\ h \in Handler /\ h.pc = "settling" /\ h.clear = "absent"
          /\ h.answer = "error" /\ h.attempt = a /\ h.n = n
      BY AtWork DEF Handler, Working
    <2> HIDE DEF h
    <2> QED
      BY <1>3, <2>1, WorkGoesOn
  <1> HIDE DEF h
  <1>5. GrantsHold' /\ GrantsStay(a, n) /\ bound' = bound /\ UNCHANGED grants
    BY <1>3, NothingFinalized
  <1>6. WorkHolds(c)'
    BY <1>2, <1>3, <1>4, <1>5 DEF WorkHolds, GoesOn, At
  <1> QED
    BY <1>1, <1>3, <1>4, <1>5, <1>6, GrantStep DEF GoesOn

LEMMA NotingHolds ==
  ASSUME IInv, NEW c \in Call, Noting(c)
  PROVE  IInv'
  <1> DEFINE a == call[c].attempt n == call[c].n
  <1>1. At(c) = "noting" /\ At(c) \in Working
    BY DEF Noting, Working
  <1>2. /\ LocalTypes /\ a \in Attempt /\ n \in DOMAIN grants[a]
        /\ call[c].answer = "error"
        /\ call[c].clear # "none" => token[a][n] # "live"
    BY <1>1, AtWork DEF WorkHolds
  <1>3. UNCHANGED <<token, told>>
    BY DEF Noting, gitHubVars
  <1>4. /\ GrantsHold' /\ GrantsStay(a, n)
        /\ bound' = bound /\ (~bound => UNCHANGED grants)
    <2>1. TryFinalizeGrant(c, call[c].result) \/ UNCHANGED teamVars
      BY DEF Noting
    <2>2. call[c].result \in Status
      BY AtWork DEF Handler
    <2> QED
      BY <1>1, <2>1, <2>2, TryFinalizeGrantHolds, NothingFinalized
  <1>5. CASE call[c].clear = "none"
    <2>1. Reply(c, "error")
      BY <1>5 DEF Noting
    <2>2. LocalTypes' /\ Frees(c)
      BY <1>2, <1>4, <2>1, ReplyFrees DEF GrantsHold, TeamTypes
    <2> QED
      BY <1>1, <1>3, <1>4, <2>2, FreedHolds, GrantStep DEF Frees
  <1>6. CASE call[c].clear # "none"
    <2> DEFINE h == [call[c] EXCEPT !.pc = "settling"]
    <2>1. Go(c, h) /\ UNCHANGED desktopVars
      BY <1>6 DEF Noting, Step
    <2>2. LocalTypes' /\ GoesOn(c, "settling", call[c].clear, call[c].answer)
      <3>1. /\ h \in Handler /\ h.pc = "settling" /\ h.clear = call[c].clear
            /\ h.answer = call[c].answer /\ h.attempt = a /\ h.n = n
        BY AtWork DEF Handler, Working
      <3> HIDE DEF h
      <3> QED
        BY <2>1, <3>1, WorkGoesOn
    <2> HIDE DEF h
    <2>3. WorkHolds(c)'
      BY <1>2, <1>3, <1>4, <1>6, <2>2 DEF WorkHolds, GoesOn, At, GrantsStay
    <2> QED
      BY <1>1, <1>3, <1>4, <2>2, <2>3, GrantStep DEF GoesOn
  <1> QED
    BY <1>5, <1>6

LEMMA GiveBackGoesOn ==
  ASSUME IInv, NEW c \in Call, NEW answer \in {"error", "binding_inactive"},
         GiveBack(c, answer)
  PROVE  LocalTypes' /\ GoesOn(c, "revoking", call[c].clear, answer)
  <1> DEFINE h == [call[c] EXCEPT !.pc = "revoking", !.answer = answer]
  <1>1. Go(c, h) /\ UNCHANGED desktopVars
    BY DEF GiveBack
  <1>2. /\ h \in Handler /\ h.pc = "revoking" /\ h.clear = call[c].clear
        /\ h.answer = answer /\ h.attempt = call[c].attempt /\ h.n = call[c].n
    BY AtWork DEF Handler, Working
  <1> HIDE DEF h
  <1> QED
    BY <1>1, <1>2, WorkGoesOn

LEMMA MintedHolds ==
  ASSUME IInv, NEW c \in Call, Minted(c)
  PROVE  IInv'
  <1> DEFINE a == call[c].attempt n == call[c].n
  <1>1. At(c) = "minted" /\ At(c) \in Working /\ "issued" \in Status
    BY DEF Minted, Working, Status
  <1>2. LocalTypes /\ n \in DOMAIN grants[a] /\ Open(a, n)
    BY <1>1, AtWork DEF WorkHolds
  <1>3. UNCHANGED <<token, told>>
    BY DEF Minted, gitHubVars
  <1>4. CASE Granted(c)
    <2>1. TryFinalizeGrant(c, "issued") /\ Reply(c, "token")
      BY <1>4 DEF Minted, TryFinalizeGrant
    <2>2. /\ GrantsHold' /\ GrantsStay(a, n)
          /\ bound' = bound /\ (~bound => UNCHANGED grants)
      BY <1>1, <2>1, TryFinalizeGrantHolds
    <2>3. LocalTypes' /\ Frees(c)
      BY <1>2, <2>1, <2>2, ReplyFrees DEF GrantsHold, TeamTypes
    <2> QED
      BY <1>1, <1>3, <2>2, <2>3, FreedHolds, GrantStep DEF Frees
  <1>5. CASE ~Granted(c)
    <2>1. UNCHANGED teamVars /\ GiveBack(c, Refusal)
      BY <1>5 DEF Minted
    <2>2. GrantsHold' /\ GrantsStay(a, n) /\ bound' = bound /\ UNCHANGED grants
      BY <2>1, NothingFinalized
    <2>3. LocalTypes' /\ GoesOn(c, "revoking", call[c].clear, Refusal)
      BY <2>1, RefusalType, GiveBackGoesOn
    <2>4. WorkHolds(c)'
      BY <1>2, <2>2, <2>3 DEF WorkHolds, GoesOn, At, Open, Refusal
    <2> QED
      BY <1>1, <1>3, <2>2, <2>3, <2>4, GrantStep DEF GoesOn
  <1> QED
    BY <1>4, <1>5

LEMMA MintedInVainHolds ==
  ASSUME IInv, NEW c \in Call, MintedInVain(c)
  PROVE  IInv'
  <1> DEFINE a == call[c].attempt n == call[c].n
  <1>1. /\ At(c) = "minted" /\ At(c) \in Working
        /\ "issued" \in Status /\ "failed" \in Status
    BY DEF MintedInVain, Working, Status
  <1>2. a \in Attempt /\ n \in DOMAIN grants[a] /\ Open(a, n)
    BY <1>1, AtWork DEF WorkHolds
  <1>3. UNCHANGED <<token, told>>
    BY DEF MintedInVain, gitHubVars
  <1>4. PICK answer \in {"error", "binding_inactive"} :
          /\ GiveBack(c, answer)
          /\ \/ TryFinalizeGrant(c, "issued") /\ answer = "error"
             \/ UNCHANGED teamVars /\ answer = "error"
             \/ TryFinalizeGrant(c, "failed") /\ answer = Refusal
    BY RefusalType DEF MintedInVain
  <1>5. /\ GrantsHold' /\ GrantsStay(a, n)
        /\ bound' = bound /\ (~bound => UNCHANGED grants)
    BY <1>1, <1>4, TryFinalizeGrantHolds, NothingFinalized
  <1>6. LocalTypes' /\ GoesOn(c, "revoking", call[c].clear, answer)
    BY <1>4, GiveBackGoesOn
  <1>7. answer = "error" \/ ~bound
    BY <1>4 DEF Refusal
  <1>8. WorkHolds(c)'
    BY <1>2, <1>5, <1>6, <1>7 DEF WorkHolds, GoesOn, At, Open, GrantsStay
  <1> QED
    BY <1>1, <1>3, <1>5, <1>6, <1>8, GrantStep DEF GoesOn

LEMMA RevokingHolds ==
  ASSUME IInv, NEW c \in Call, Revoking(c)
  PROVE  IInv'
  <1> DEFINE a == call[c].attempt n == call[c].n
  <1>1. At(c) = "revoking" /\ At(c) \in Working /\ "revoked" \in Token
    BY DEF Revoking, Working, Token
  <1>2. /\ LocalTypes /\ TeamTypes /\ TokenTypes /\ a \in Attempt
        /\ n \in DOMAIN grants[a] /\ n \in 1..MaxGrants
        /\ \/ call[c].answer = "error"
           \/ call[c].answer = "binding_inactive" /\ ~bound /\ Open(a, n)
    BY <1>1, AtWork DEF WorkHolds
  <1>3. UNCHANGED <<teamVars, told>>
    BY DEF Revoking
  <1>4. GrantsHold' /\ GrantsStay(a, n) /\ bound' = bound /\ UNCHANGED grants
    BY <1>3, NothingFinalized
  <1>5. CASE token[a][n] = "live"
    <2> DEFINE h == [call[c] EXCEPT !.pc = "settling", !.clear = "revocation"]
    <2>1. /\ token' = [token EXCEPT ![a][n] = "revoked"]
          /\ Go(c, h) /\ UNCHANGED desktopVars
      BY <1>5 DEF Revoking
    <2>2. /\ h \in Handler /\ h.pc = "settling" /\ h.clear = "revocation"
          /\ h.answer = call[c].answer /\ h.attempt = a /\ h.n = n
      BY AtWork DEF Handler, Working
    <2> HIDE DEF h
    <2>3. LocalTypes' /\ GoesOn(c, "settling", "revocation", call[c].answer)
      BY <2>1, <2>2, WorkGoesOn
    <2>4. token'[a][n] = "revoked"
      BY <1>2, <2>1 DEF TokenTypes
    <2>5. WorkHolds(c)'
      BY <1>2, <1>4, <2>3, <2>4 DEF WorkHolds, GoesOn, At, Open
    <2> QED
      BY <1>1, <1>3, <2>1, <2>3, <2>5, TokenStep DEF GoesOn
  <1>6. CASE token[a][n] # "live"
    <2>1. Reply(c, "error") /\ UNCHANGED token
      BY <1>6 DEF Revoking
    <2>2. LocalTypes' /\ Frees(c)
      BY <1>2, <1>4, <2>1, ReplyFrees DEF GrantsHold, TeamTypes
    <2> QED
      BY <1>1, <1>3, <1>4, <2>1, <2>2, FreedHolds, GrantStep DEF Frees
  <1> QED
    BY <1>5, <1>6

LEMMA SettlingHolds ==
  ASSUME IInv, NEW c \in Call, Settling(c)
  PROVE  IInv'
  <1> DEFINE a == call[c].attempt n == call[c].n
             h == [call[c] EXCEPT !.pc = "confirming"]
  <1>1. At(c) = "settling" /\ At(c) \in Working /\ "failed" \in Status
    BY DEF Settling, Working, Status
  <1>2. /\ a \in Attempt /\ n \in DOMAIN grants[a]
        /\ token[a][n] # "live" /\ call[c].clear # "none"
        /\ \/ call[c].answer = "error"
           \/ call[c].answer = "binding_inactive" /\ ~bound /\ Open(a, n)
    BY <1>1, AtWork DEF WorkHolds
  <1>3. UNCHANGED <<token, told>>
    BY DEF Settling, gitHubVars
  <1>4. /\ GrantsHold' /\ GrantsStay(a, n)
        /\ bound' = bound /\ (~bound => UNCHANGED grants)
    <2>1. TryFinalizeGrant(c, "failed") \/ UNCHANGED teamVars
      BY DEF Settling
    <2> QED
      BY <1>1, <2>1, TryFinalizeGrantHolds, NothingFinalized
  <1>5. Go(c, h) /\ UNCHANGED desktopVars
    BY DEF Settling, Step
  <1>6. /\ h \in Handler /\ h.pc = "confirming" /\ h.clear = call[c].clear
        /\ h.answer = call[c].answer /\ h.attempt = a /\ h.n = n
    BY AtWork DEF Handler, Working
  <1> HIDE DEF h
  <1>7. LocalTypes' /\ GoesOn(c, "confirming", call[c].clear, call[c].answer)
    BY <1>5, <1>6, WorkGoesOn
  <1>8. WorkHolds(c)'
    BY <1>2, <1>3, <1>4, <1>7 DEF WorkHolds, GoesOn, At, Open, GrantsStay
  <1> QED
    BY <1>1, <1>3, <1>4, <1>7, <1>8, GrantStep DEF GoesOn

LEMMA ConfirmingHolds ==
  ASSUME IInv, NEW c \in Call, Confirming(c)
  PROVE  IInv'
  <1> DEFINE a == call[c].attempt n == call[c].n
             may == MayConfirmClearance(a, n, call[c].version, call[c].row,
                                        call[c].clear)
  <1>1. At(c) = "confirming" /\ At(c) \in Working
    BY DEF Confirming, Working
  <1>2. /\ GrantsHold /\ LocalTypes /\ TokenTypes /\ a \in Attempt
        /\ n \in DOMAIN grants[a]
        /\ token[a][n] # "live" /\ call[c].clear # "none"
        /\ \/ call[c].answer = "error"
           \/ call[c].answer = "binding_inactive" /\ ~bound /\ Open(a, n)
    BY <1>1, AtWork DEF WorkHolds
  <1>3. UNCHANGED token
    BY DEF Confirming, gitHubVars
  <1>4. CASE may
    <2>1. /\ ConfirmClearance(a, n, call[c].clear)
          /\ Reply(c, call[c].answer)
          /\ told' = (told \/ call[c].answer = "binding_inactive")
      BY <1>4 DEF Confirming
    <2>2. call[c].clear \in {"absent", "revocation"}
      <3>1. call[c].clear \in {"none", "absent", "revocation"}
        BY AtWork DEF Handler
      <3> QED
        BY <1>2, <3>1
    <2>3. /\ GrantsHold' /\ bound' = bound
          /\ \/ Cleared(grants[a][n]) /\ UNCHANGED grants
             \/ ~Cleared(grants[a][n]) /\ GrantCleared(a, n)
      BY <1>2, <1>4, <2>1, <2>2, ConfirmClearanceHolds
    <2>4. LocalTypes' /\ Frees(c)
      BY <1>2, <2>1, <2>3, ReplyFrees DEF GrantsHold, TeamTypes
    <2>5. TokenTypes' /\ told' \in BOOLEAN
      BY <1>2, <1>3, <2>1 DEF TokenTypes, IInv
    <2>6. LiveUncleared'
      BY <1>2, <1>3, <2>3 DEF LiveUncleared, IInv, GrantCleared
    <2>7. ToldHolds'
      BY <1>2, <2>1, <2>3 DEF ToldHolds, IInv, GrantCleared, Open
    <2>8. \A b \in Attempt : \A m \in DOMAIN grants[b] :
            /\ m \in DOMAIN grants'[b]
            /\ <<b, m>> # <<a, n>>
               => /\ Open(b, m) =>
                       ~grants'[b][m].issued /\ ~Cleared(grants'[b][m])
                  /\ token'[b][m] = "live" => token[b][m] = "live"
      BY <1>3, <2>3 DEF GrantCleared, Open
    <2> QED
      BY <1>1, <2>3, <2>4, <2>5, <2>6, <2>7, <2>8, FreedHolds, CallStep DEF Frees
  <1>5. CASE ~may
    <2>1. UNCHANGED <<teamVars, told>> /\ Reply(c, "error")
      BY <1>5 DEF Confirming
    <2>2. GrantsHold' /\ GrantsStay(a, n) /\ bound' = bound /\ UNCHANGED grants
      BY <2>1, NothingFinalized
    <2>3. LocalTypes' /\ Frees(c)
      BY <1>2, <2>1, <2>2, ReplyFrees DEF GrantsHold, TeamTypes
    <2> QED
      BY <1>1, <1>3, <2>1, <2>2, <2>3, FreedHolds, GrantStep DEF Frees
  <1> QED
    BY <1>4, <1>5

LEMMA DieHolds ==
  ASSUME IInv, NEW c \in Call, Die(c)
  PROVE  IInv'
  <1> DEFINE a == call[c].attempt n == call[c].n
  <1>1. /\ LocalTypes /\ TeamTypes /\ TokenTypes /\ WorkHolds(c)
    BY AtWork
  <1>2. UNCHANGED <<teamVars, told>>
    BY DEF Die
  <1>3. LocalTypes' /\ Frees(c)
    <2>1. HearError(c) \/ (Go(c, FreeCall) /\ UNCHANGED desktopVars)
      BY DEF Die
    <2> QED
      BY <1>1, <2>1, HearErrorFrees, EndFrees DEF LocalTypes, desktopVars
  <1>4. CASE UNCHANGED token
    BY <1>1, <1>2, <1>3, <1>4, QuietCall DEF TeamTypes, teamVars
  <1>5. CASE At(c) = "minting" /\ token' = [token EXCEPT ![a][n] = "live"]
    <2>1. At(c) \in Working /\ "live" \in Token /\ Open(a, n)
      BY <1>1, <1>5 DEF Working, Token, WorkHolds
    <2> QED
      BY <1>2, <1>3, <1>5, <2>1, FreedHolds, TokenStep DEF Frees, Open
  <1> QED
    BY <1>4, <1>5 DEF Die

-----------------------------------------------------------------------------
(* The publication and the pull request, action by action.                 *)

LEMMA GoesElsewhere ==
  ASSUME IInv, NEW c \in Call, NEW h \in Handler, h.pc \in Elsewhere,
         Go(c, h), UNCHANGED desktopVars
  PROVE  LocalTypes' /\ Frees(c)
  BY AtWork, Goes DEF Frees, LocalTypes, desktopVars

LEMMA ReportingHolds ==
  ASSUME IInv, NEW c \in Call, Reporting(c)
  PROVE  IInv'
  <1> DEFINE a == call[c].attempt n == call[c].n
             may == MayReport(a, n, call[c].version, call[c].row)
  <1>1. /\ GrantsHold /\ TeamTypes /\ LocalTypes /\ TokenTypes
        /\ call[c] \in Handler /\ a \in Attempt
    BY AtWork
  <1>2. n \in Nat
    BY <1>1 DEF Handler
  <1>3. UNCHANGED <<token, told>>
    BY DEF Reporting, gitHubVars
  <1>4. CASE may
    <2> DEFINE h == [call[c] EXCEPT !.pc = "verifying",
                                    !.version = request'[a].version,
                                    !.row = publication'[a].version]
    <2>1. Report(a, n) /\ Go(c, h) /\ UNCHANGED desktopVars /\ bound
      BY <1>4 DEF Reporting, MayReport
    <2>2. GrantsHold' /\ OpenStay /\ bound' = bound
      BY <1>1, <1>2, <2>1, ReportHolds
    <2>3. request'[a].version \in Nat /\ publication'[a].version \in Nat
      BY <1>1, <2>2 DEF GrantsHold, TeamTypes, Row, Publication
    <2>4. h \in Handler /\ h.pc \in Elsewhere
      BY <1>1, <2>3 DEF Handler, Elsewhere
    <2> HIDE DEF h
    <2>5. LocalTypes' /\ Frees(c)
      BY <2>1, <2>4, GoesElsewhere
    <2>6. TokenTypes' /\ told' \in BOOLEAN
      BY <1>1, <1>3 DEF TokenTypes, IInv
    <2>7. LiveUncleared'
      BY <1>1, <1>3, <2>2, LiveStays DEF IInv, OpenStay
    <2>8. ToldHolds'
      BY <1>3, <2>1, <2>2 DEF ToldHolds, IInv
    <2>9. \A b \in Attempt : \A m \in DOMAIN grants[b] :
            /\ m \in DOMAIN grants'[b]
            /\ Open(b, m) => ~grants'[b][m].issued /\ ~Cleared(grants'[b][m])
            /\ token'[b][m] = "live" => token[b][m] = "live"
      BY <1>3, <2>2 DEF OpenStay, Open
    <2> QED
      BY <2>2, <2>5, <2>6, <2>7, <2>8, <2>9, FreedHolds, CallStep DEF Frees
  <1>5. CASE ~may
    <2>1. UNCHANGED teamVars /\ Reply(c, Refusal)
      BY <1>5 DEF Reporting
    <2>2. TeamTypes' /\ UNCHANGED <<grants, bound>>
      BY <1>1, <2>1 DEF TeamTypes, teamVars
    <2>3. LocalTypes' /\ Frees(c)
      BY <1>1, <2>1, <2>2, RefusalType, ReplyFrees DEF TeamTypes
    <2> QED
      BY <1>3, <2>2, <2>3, QuietCall
  <1> QED
    BY <1>4, <1>5

LEMMA VerifyingHolds ==
  ASSUME IInv, NEW c \in Call, Verifying(c)
  PROVE  IInv'
  <1>1. PICK result \in Status :
          Go(c, [call[c] EXCEPT !.pc = "recording", !.result = result])
    BY DEF Verifying, Status
  <1> DEFINE h == [call[c] EXCEPT !.pc = "recording", !.result = result]
  <1>2. UNCHANGED <<teamVars, token, told, desktopVars>> /\ Go(c, h)
    BY <1>1 DEF Verifying, gitHubVars
  <1>3. h \in Handler /\ h.pc \in Elsewhere
    BY AtWork DEF Handler, Elsewhere
  <1> HIDE DEF h
  <1>4. LocalTypes' /\ Frees(c)
    BY <1>2, <1>3, GoesElsewhere
  <1>5. TeamTypes' /\ UNCHANGED <<grants, bound>>
    BY <1>2, AtWork DEF TeamTypes, teamVars
  <1> QED
    BY <1>2, <1>4, <1>5, QuietCall

(* A transaction on anything but grants and binding, and its answer.       *)
LEMMA Replied ==
  ASSUME IInv, NEW c \in Call, TeamTypes',
         UNCHANGED <<grants, bound, token, told>>,
         NEW answer \in {"verified", "adopted", "no_evidence", "token",
                         "completed", "binding_inactive", "error"},
         Reply(c, answer)
  PROVE  IInv'
  <1>1. LocalTypes' /\ Frees(c)
    BY AtWork, ReplyFrees DEF TeamTypes
  <1> QED
    BY <1>1, QuietCall

LEMMA FinalizePublicationTypes ==
  ASSUME TeamTypes, NEW a \in Attempt, NEW status \in Status,
         FinalizePublication(a, status)
  PROVE  TeamTypes' /\ UNCHANGED <<grants, bound>>
  <1>1. publication[a].grant \in Nat
    BY DEF TeamTypes, Publication
  <1>2. publication' \in [Attempt -> Publication]
    BY <1>1, PublicationMoves DEF FinalizePublication
  <1>3. PICK next \in Status : MoveRequest(a, next)
    BY DEF FinalizePublication, Status
  <1>4. request' \in [Attempt -> Row]
    BY <1>3, RequestMoves
  <1> QED
    BY <1>2, <1>4 DEF FinalizePublication, TeamTypes

LEMMA RecordingHolds ==
  ASSUME IInv, NEW c \in Call, Recording(c)
  PROVE  IInv'
  <1> DEFINE a == call[c].attempt
             may == MayFinalizePublication(a, call[c].version, call[c].row)
  <1>1. TeamTypes /\ a \in Attempt /\ call[c].result \in Status
    BY AtWork DEF Handler
  <1>2. UNCHANGED <<token, told>>
    BY DEF Recording, gitHubVars
  <1>3. CASE may
    <2>1. /\ FinalizePublication(a, call[c].result)
          /\ Reply(c, "verified") \/ Reply(c, "error")
      BY <1>3 DEF Recording
    <2>2. TeamTypes' /\ UNCHANGED <<grants, bound>>
      BY <1>1, <2>1, FinalizePublicationTypes
    <2> QED
      BY <1>2, <2>1, <2>2, Replied
  <1>4. CASE ~may
    <2>1. UNCHANGED teamVars /\ Reply(c, "error")
      BY <1>4 DEF Recording
    <2>2. TeamTypes' /\ UNCHANGED <<grants, bound>>
      BY <1>1, <2>1 DEF TeamTypes, teamVars
    <2> QED
      BY <1>2, <2>1, <2>2, Replied
  <1> QED
    BY <1>3, <1>4

LEMMA AdoptingHolds ==
  ASSUME IInv, NEW c \in Call, Adopting(c)
  PROVE  IInv'
  <1> DEFINE a == call[c].attempt
             may == MayAdopt(a, call[c].version)
  <1>1. TeamTypes /\ a \in Attempt
    BY AtWork
  <1>2. UNCHANGED <<token, told>>
    BY DEF Adopting, gitHubVars
  <1>3. CASE may /\ Adoptable(a)
    <2>1. Adopt(a) /\ Reply(c, "adopted")
      BY <1>3 DEF Adopting
    <2>2. /\ publication' \in [Attempt -> Publication]
          /\ request' \in [Attempt -> Row]
      BY <1>1, <2>1, PublicationMoves, RequestMoves DEF Adopt, Status
    <2>3. TeamTypes' /\ UNCHANGED <<grants, bound>>
      BY <1>1, <2>1, <2>2 DEF TeamTypes, Adopt
    <2> QED
      BY <1>2, <2>1, <2>3, Replied
  <1>4. CASE ~(may /\ Adoptable(a))
    <2>1. UNCHANGED teamVars /\ (Reply(c, "no_evidence") \/ Reply(c, Refusal))
      BY <1>4 DEF Adopting
    <2>2. TeamTypes' /\ UNCHANGED <<grants, bound>>
      BY <1>1, <2>1 DEF TeamTypes, teamVars
    <2> QED
      BY <1>2, <2>1, <2>2, RefusalType, Replied
  <1> QED
    BY <1>3, <1>4

LEMMA OpeningHolds ==
  ASSUME IInv, NEW c \in Call, Opening(c)
  PROVE  IInv'
  <1> DEFINE a == call[c].attempt
             h(pc) == [call[c] EXCEPT !.pc = pc,
                                      !.version = request'[a].version,
                                      !.row = pullRequest'[a].version]
             may == MayReservePullRequest(a, call[c].version)
  <1>1. TeamTypes /\ a \in Attempt /\ call[c] \in Handler
    BY AtWork
  <1>2. UNCHANGED <<token, told>>
    BY DEF Opening, gitHubVars
  <1>3. TeamTypes' /\ UNCHANGED <<grants, bound>>
    <2>1. CASE UNCHANGED teamVars
      BY <1>1, <2>1 DEF TeamTypes, teamVars
    <2>2. CASE ReservePullRequest(a)
      <3>1. /\ pullRequest' \in [Attempt -> Row]
            /\ request' \in [Attempt -> Row]
        BY <1>1, <2>2, PullRequestMoves, RequestMoves
        DEF ReservePullRequest, Status
      <3> QED
        BY <1>1, <2>2, <3>1 DEF TeamTypes, ReservePullRequest
    <2> QED
      BY <2>1, <2>2 DEF Opening
  <1>4. request'[a].version \in Nat /\ pullRequest'[a].version \in Nat
    BY <1>1, <1>3 DEF TeamTypes, Row
  <1>5. \A pc \in {"creating", "finding"} :
          h(pc) \in Handler /\ h(pc).pc \in Elsewhere
    BY <1>1, <1>4 DEF Handler, Elsewhere
  <1>6. \/ Go(c, h("creating")) /\ UNCHANGED desktopVars
        \/ Go(c, h("finding")) /\ UNCHANGED desktopVars
        \/ Reply(c, Refusal)
        \/ Reply(c, "completed")
    <2>1. CASE may
      BY <2>1 DEF Opening
    <2>2. CASE ~may /\ ~ReplaysPullRequest(a)
      BY <2>2 DEF Opening
    <2>3. CASE ~may /\ ReplaysPullRequest(a)
      BY <2>3 DEF Opening, ReplaysPullRequest
    <2> QED
      BY <2>1, <2>2, <2>3
  <1> HIDE DEF h
  <1>7. CASE Reply(c, Refusal) \/ Reply(c, "completed")
    BY <1>2, <1>3, <1>7, RefusalType, Replied
  <1>8. ASSUME NEW pc \in {"creating", "finding"},
               Go(c, h(pc)), UNCHANGED desktopVars
        PROVE  IInv'
    <2>1. LocalTypes' /\ Frees(c)
      BY <1>5, <1>8, GoesElsewhere
    <2> QED
      BY <1>2, <1>3, <2>1, QuietCall
  <1> QED
    BY <1>6, <1>7, <1>8

LEMMA ResolveHolds ==
  ASSUME IInv, NEW c \in Call, NEW result \in Status, Resolve(c, result),
         UNCHANGED <<teamVars, token, told, desktopVars>>
  PROVE  IInv'
  <1> DEFINE h == [call[c] EXCEPT !.pc = "finishing", !.result = result]
  <1>1. h \in Handler /\ h.pc \in Elsewhere
    BY AtWork DEF Handler, Elsewhere
  <1>2. Go(c, h)
    BY DEF Resolve
  <1> HIDE DEF h
  <1>3. LocalTypes' /\ Frees(c)
    BY <1>1, <1>2, GoesElsewhere
  <1>4. TeamTypes' /\ UNCHANGED <<grants, bound>>
    BY AtWork DEF TeamTypes, teamVars
  <1> QED
    BY <1>3, <1>4, QuietCall

LEMMA ResolvingHolds ==
  ASSUME IInv, NEW c \in Call,
         Finding(c) \/ Creating(c) \/ ResolvingFails(c)
  PROVE  IInv'
  <1>1. PICK result \in Status : Resolve(c, result)
    BY DEF Finding, Creating, ResolvingFails, Looked, Status
  <1>2. UNCHANGED <<teamVars, token, told, desktopVars>>
    BY DEF Finding, Creating, ResolvingFails, gitHubVars
  <1> QED
    BY <1>1, <1>2, ResolveHolds

LEMMA FinishingHolds ==
  ASSUME IInv, NEW c \in Call, Finishing(c)
  PROVE  IInv'
  <1> DEFINE a == call[c].attempt
             may == MayFinalizePullRequest(a, call[c].version, call[c].row,
                                           call[c].result)
  <1>1. TeamTypes /\ a \in Attempt /\ call[c].result \in Status
    BY AtWork DEF Handler
  <1>2. UNCHANGED <<token, told>>
    BY DEF Finishing, gitHubVars
  <1>3. CASE may
    <2>1. /\ FinalizePullRequest(a, call[c].result)
          /\ Reply(c, "completed") \/ Reply(c, "error")
      BY <1>3 DEF Finishing
    <2>2. /\ pullRequest' \in [Attempt -> Row]
          /\ request' \in [Attempt -> Row]
      BY <1>1, <2>1, PullRequestMoves, RequestMoves
      DEF FinalizePullRequest, TeamTypes
    <2>3. TeamTypes' /\ UNCHANGED <<grants, bound>>
      BY <1>1, <2>1, <2>2 DEF TeamTypes, FinalizePullRequest
    <2> QED
      BY <1>2, <2>1, <2>3, Replied
  <1>4. CASE ~may
    <2>1. UNCHANGED teamVars /\ Reply(c, "error")
      BY <1>4 DEF Finishing
    <2>2. TeamTypes' /\ UNCHANGED <<grants, bound>>
      BY <1>1, <2>1 DEF TeamTypes, teamVars
    <2> QED
      BY <1>2, <2>1, <2>2, Replied
  <1> QED
    BY <1>3, <1>4

-----------------------------------------------------------------------------
(* The desktop, people and time.                                           *)

LEMMA SubmitHolds ==
  ASSUME IInv, Submit
  PROVE  IInv'
  <1>1. TeamTypes /\ LocalTypes /\ intent.attempt \in Attempt
    BY DEF IInv, GrantsHold, LocalTypes
  <1>2. CreateRequest(intent.attempt)
        /\ UNCHANGED <<call, intent, held, token, told>>
    BY DEF Submit, desktopVars, DesktopIdle, gitHubVars
  <1>3. request' \in [Attempt -> Row]
    BY <1>1, <1>2, RequestMoves DEF CreateRequest, Status
  <1>4. TeamTypes' /\ LocalTypes' /\ UNCHANGED <<grants, bound>>
    BY <1>1, <1>2, <1>3 DEF TeamTypes, LocalTypes, CreateRequest
  <1> QED
    BY <1>2, <1>4, QuietStep

LEMMA ConcludeHolds ==
  ASSUME IInv, NEW status \in Status, Conclude(status),
         UNCHANGED <<teamVars, token, told>>
  PROVE  IInv'
  <1>1. LocalTypes /\ TeamTypes
    BY DEF IInv, GrantsHold
  <1>2. LocalTypes' /\ UNCHANGED call
    BY <1>1, LocalKeeps DEF Conclude, LocalTypes
  <1>3. TeamTypes' /\ UNCHANGED <<grants, bound>>
    BY <1>1 DEF TeamTypes, teamVars
  <1> QED
    BY <1>2, <1>3, QuietStep

LEMMA SendHolds ==
  ASSUME IInv, NEW c \in Call, NEW pc \in Elsewhere, NEW status \in Status,
         Send(c, pc, status), UNCHANGED <<teamVars, token, told>>
  PROVE  IInv'
  <1>1. LocalTypes /\ TeamTypes /\ intent.attempt \in Attempt
    BY DEF IInv, GrantsHold, LocalTypes
  <1>2. request[intent.attempt].version \in Nat
    BY <1>1 DEF TeamTypes, Row
  <1>3. call' \in [Call -> Handler] /\ Frees(c)
    BY <1>1, <1>2, AskFrees DEF Send
  <1>4. LocalTypes'
    BY <1>1, <1>3, LocalKeeps DEF Send, LocalTypes
  <1>5. TeamTypes' /\ UNCHANGED <<grants, bound>>
    BY <1>1 DEF TeamTypes, teamVars
  <1> QED
    BY <1>3, <1>4, <1>5, QuietCall

LEMMA AdvanceHolds ==
  ASSUME IInv, Advance
  PROVE  IInv'
  <1>1. UNCHANGED <<teamVars, token, told>>
    BY DEF Advance, DesktopIdle, gitHubVars
  <1>2. request[intent.attempt].status \in Status
    BY DEF IInv, GrantsHold, LocalTypes, TeamTypes, Row
  <1>3. /\ "recovery_required" \in Status /\ "creating_pr" \in Status
        /\ "publishing_branch" \in Status
        /\ "opening" \in Elsewhere /\ "adopting" \in Elsewhere
        /\ "reserving" \in Elsewhere
    BY DEF Status, Elsewhere
  <1>4. \/ Conclude(request[intent.attempt].status)
        \/ Conclude("recovery_required")
        \/ \E c \in Call : \/ Send(c, "opening", "creating_pr")
                           \/ Send(c, "adopting", "recovery_required")
                           \/ Send(c, "reserving", "publishing_branch")
    BY DEF Advance
  <1> QED
    BY <1>1, <1>2, <1>3, <1>4, ConcludeHolds, SendHolds

LEMMA EndsHold ==
  ASSUME IInv, ReconcileCompleted \/ ObserveBinding
  PROVE  IInv'
  <1>1. UNCHANGED <<teamVars, token, told>>
    BY DEF ReconcileCompleted, ObserveBinding, DesktopIdle, gitHubVars
  <1>2. /\ Conclude("completed") \/ Conclude("revoked")
        /\ "completed" \in Status /\ "revoked" \in Status
    BY DEF ReconcileCompleted, ObserveBinding, Status
  <1> QED
    BY <1>1, <1>2, ConcludeHolds

LEMMA PushHolds ==
  ASSUME IInv, Push
  PROVE  IInv'
  <1>1. LocalTypes /\ TeamTypes
    BY DEF IInv, GrantsHold
  <1>2. UNCHANGED <<teamVars, token, told>> /\ held' = NoToken
    BY DEF Push
  <1>3. TeamTypes' /\ UNCHANGED <<grants, bound>>
    BY <1>1, <1>2 DEF TeamTypes, teamVars
  <1>4. CASE Publishable
    <2> DEFINE h == [FreeCall EXCEPT !.pc = "reporting", !.n = held.n,
                                     !.attempt = intent.attempt,
                                     !.row = held.row,
                                     !.version = held.version]
    <2>1. PICK c \in Call : Go(c, h)
      BY <1>4 DEF Push
    <2>2. UNCHANGED intent
      BY <1>4 DEF Push
    <2>3. h \in Handler /\ h.pc \in Elsewhere
      BY <1>1, Constants DEF LocalTypes, Handler, Elsewhere
    <2> HIDE DEF h
    <2>4. call' \in [Call -> Handler] /\ Frees(c)
      BY <1>1, <2>1, <2>3, Goes DEF Frees
    <2>5. LocalTypes'
      BY <1>1, <1>2, <2>2, <2>4, Constants DEF LocalTypes
    <2> QED
      BY <1>2, <1>3, <2>4, <2>5, QuietCall
  <1>5. CASE ~Publishable
    <2>1. Local("recovery_required") /\ UNCHANGED call
      BY <1>5 DEF Push
    <2>2. "recovery_required" \in Status
      BY DEF Status
    <2>3. LocalTypes'
      BY <1>1, <1>2, <2>1, <2>2, LocalKeeps, Constants DEF LocalTypes
    <2> QED
      BY <1>2, <1>3, <2>1, <2>3, QuietStep
  <1> QED
    BY <1>4, <1>5

LEMMA InterruptHolds ==
  ASSUME IInv, PushFails \/ Stop \/ Crash \/ Retry \/ ForeignPush
  PROVE  IInv'
  <1>1. LocalTypes /\ TeamTypes
    BY DEF IInv, GrantsHold
  <1>2. UNCHANGED <<teamVars, token, told, call>>
    BY DEF PushFails, Stop, Crash, Retry, ForeignPush, gitHubVars
  <1>3. held' = NoToken \/ UNCHANGED held
    BY DEF PushFails, Stop, Crash, Retry, ForeignPush, desktopVars
  <1>4. intent' \in [attempt : Attempt, status : Status]
    <2>1. CASE PushFails \/ Stop
      BY <1>1, <2>1, LocalKeeps DEF PushFails, Stop, Status
    <2>2. CASE Crash \/ ForeignPush
      BY <1>1, <2>2 DEF Crash, ForeignPush, desktopVars, LocalTypes
    <2>3. CASE Retry
      <3>1. intent.attempt + 1 \in Attempt
        BY <1>1, <2>3, DeliveryAssumption DEF Retry, LocalTypes, Attempt
      <3> QED
        BY <2>3, <3>1 DEF Retry, Status
    <2> QED
      BY <2>1, <2>2, <2>3
  <1>5. LocalTypes'
    BY <1>1, <1>2, <1>3, <1>4, Constants DEF LocalTypes
  <1>6. TeamTypes' /\ UNCHANGED <<grants, bound>>
    BY <1>1, <1>2 DEF TeamTypes, teamVars
  <1> QED
    BY <1>2, <1>5, <1>6, QuietStep

LEMMA TeamStepHolds ==
  ASSUME IInv, TeamStep
  PROVE  IInv'
  <1>1. GrantsHold /\ LocalTypes /\ TeamTypes /\ TokenTypes
    BY DEF IInv, GrantsHold
  <1>2. UNCHANGED <<token, told, call, intent, held>>
    BY DEF TeamStep, gitHubVars, desktopVars
  <1>3. LocalTypes' /\ TokenTypes' /\ told' \in BOOLEAN
    BY <1>1, <1>2 DEF LocalTypes, TokenTypes, IInv
  <1>4. CASE RevokeBinding
    <2>1. GrantsHold' /\ OpenStay /\ bound /\ ~bound'
      BY <1>1, <1>4, RevokeBindingHolds
    <2>2. LiveUncleared'
      BY <1>1, <1>2, <2>1, LiveStays DEF IInv, OpenStay
    <2>3. ToldHolds' /\ NobodyElse'
      BY <1>2, <2>1 DEF ToldHolds, NobodyElse, At, IInv
    <2>4. ASSUME NEW d \in Call
          PROVE  WorkHolds(d)'
      <3>1. WorkHolds(d) /\ call'[d] = call[d] /\ call[d].attempt \in Attempt
        BY <1>2, AtWork
      <3>2. At(d) \in Working =>
              LET b == call[d].attempt m == call[d].n IN
              /\ m \in DOMAIN grants'[b]
              /\ Open(b, m) => ~grants'[b][m].issued /\ ~Cleared(grants'[b][m])
              /\ token'[b][m] = "live" => token[b][m] = "live"
        BY <1>2, <2>1, <3>1 DEF OpenStay, Open, WorkHolds
      <3> QED
        BY <2>1, <3>1, <3>2, Bystander
    <2> QED
      BY <1>3, <2>1, <2>2, <2>3, <2>4 DEF IInv
  <1>5. CASE \E a \in Attempt : Decide(a)
    <2>1. PICK a \in Attempt, status \in Status : MoveRequest(a, status)
      BY <1>5 DEF Decide, Status
    <2>2. UNCHANGED <<bound, grants, publication, pullRequest>>
      BY <1>5 DEF Decide
    <2>3. TeamTypes'
      BY <1>1, <2>1, <2>2, RequestMoves DEF TeamTypes
    <2> QED
      BY <1>2, <1>3, <2>2, <2>3, QuietStep
  <1> QED
    BY <1>4, <1>5 DEF TeamStep

LEMMA ExpireTokenHolds ==
  ASSUME IInv, NEW a \in Attempt, NEW n \in 1..MaxGrants, ExpireToken(a, n)
  PROVE  IInv'
  <1>1. GrantsHold /\ LocalTypes /\ TokenTypes
    BY DEF IInv
  <1>2. /\ UNCHANGED <<teamVars, told, call, intent, held>>
        /\ token' = [token EXCEPT ![a][n] = "expired"]
    BY DEF ExpireToken, desktopVars
  <1>3. TokenTypes'
    BY <1>1, <1>2 DEF TokenTypes, Token
  <1>4. \A b \in Attempt : \A m \in 1..MaxGrants :
          token'[b][m] = "live" => token[b][m] = "live"
    BY <1>1, <1>2 DEF TokenTypes
  <1>5. UNCHANGED <<grants, bound>> /\ GrantsHold' /\ LocalTypes'
        /\ told' \in BOOLEAN
    BY <1>1, <1>2
    DEF teamVars, GrantsHold, TeamTypes, OneUncleared, IssuedIsIssued,
        LocalTypes, IInv
  <1>6. LiveUncleared' /\ ToldHolds' /\ NobodyElse'
    BY <1>2, <1>4, <1>5 DEF IInv, LiveUncleared, ToldHolds, NobodyElse, At
  <1>7. ASSUME NEW d \in Call
        PROVE  WorkHolds(d)'
    <2>1. /\ WorkHolds(d) /\ call'[d] = call[d] /\ call[d].attempt \in Attempt
          /\ At(d) \in Working => call[d].n \in 1..MaxGrants
      BY <1>2, AtWork
    <2>2. At(d) \in Working =>
            LET b == call[d].attempt m == call[d].n IN
            /\ m \in DOMAIN grants'[b]
            /\ Open(b, m) => ~grants'[b][m].issued /\ ~Cleared(grants'[b][m])
            /\ token'[b][m] = "live" => token[b][m] = "live"
      BY <1>4, <1>5, <2>1 DEF Open, WorkHolds
    <2> QED
      BY <1>5, <2>1, <2>2, Bystander
  <1> QED
    BY <1>3, <1>5, <1>6, <1>7 DEF IInv

-----------------------------------------------------------------------------
(* The theorems.                                                           *)

LEMMA InitHolds == Init => IInv
  <1> SUFFICES ASSUME Init PROVE IInv
    OBVIOUS
  <1>1. TokenTypes /\ told \in BOOLEAN
    BY DEF Init, TokenTypes, Token
  <1>2. LocalTypes
    BY Constants DEF Init, LocalTypes, Status
  <1>3. \A a \in Attempt : grants[a] = <<>>
    BY DEF Init, TeamInit
  <1>4. TeamTypes
    <2>1. <<>> \in Seq(Grant) /\ Len(<<>>) = 0
      BY EmptySeq
    <2>2. grants \in [Attempt -> Seq(Grant)]
      BY <2>1 DEF Init, TeamInit
    <2>3. \A a \in Attempt : Len(grants[a]) <= MaxGrants
      BY <1>3, <2>1, DeliveryAssumption
    <2>4. /\ request \in [Attempt -> Row] /\ pullRequest \in [Attempt -> Row]
          /\ publication \in [Attempt -> Publication] /\ bound \in BOOLEAN
      BY DEF Init, TeamInit, NoRow, Row, Publication, Status
    <2> QED
      BY <2>2, <2>3, <2>4 DEF TeamTypes
  <1>5. \A a \in Attempt : DOMAIN grants[a] = {}
    BY <1>3, EmptySeq
  <1>6. OneUncleared /\ IssuedIsIssued
    BY <1>5 DEF OneUncleared, IssuedIsIssued
  <1>7. LiveUncleared /\ ToldHolds
    BY DEF Init, LiveUncleared, ToldHolds
  <1>8. \A c \in Call : At(c) = "free"
    BY Constants DEF Init, At
  <1>9. NobodyElse /\ \A c \in Call : WorkHolds(c)
    BY <1>8 DEF NobodyElse, WorkHolds, Working
  <1> QED
    BY <1>1, <1>2, <1>4, <1>6, <1>7, <1>9 DEF IInv, GrantsHold

LEMMA NextHolds == IInv /\ [Next]_vars => IInv'
  <1> SUFFICES ASSUME IInv, [Next]_vars PROVE IInv'
    OBVIOUS
  <1>1. ASSUME NEW c \in Call, Proceed(c)
        PROVE  IInv'
    BY <1>1, ReservingHolds, ObservingHolds, MintingHolds, NotingHolds,
       MintedHolds, RevokingHolds, SettlingHolds, ConfirmingHolds,
       ReportingHolds, VerifyingHolds, RecordingHolds, AdoptingHolds,
       OpeningHolds, ResolvingHolds, FinishingHolds DEF Proceed
  <1>2. ASSUME NEW c \in Call, Break(c)
        PROVE  IInv'
    BY <1>2, MintingFailsHolds, LeasePassesHolds, MintedInVainHolds,
       ResolvingHolds, DieHolds DEF Break
  <1>3. CASE DesktopStep
    BY <1>3, SubmitHolds, AdvanceHolds, EndsHold, PushHolds, InterruptHolds
    DEF DesktopStep
  <1>4. CASE PushFails \/ Stop \/ Crash \/ ForeignPush
    BY <1>4, InterruptHolds
  <1>5. CASE TeamStep
    BY <1>5, TeamStepHolds
  <1>6. ASSUME NEW a \in Attempt, NEW n \in 1..MaxGrants, ExpireToken(a, n)
        PROVE  IInv'
    BY <1>6, ExpireTokenHolds
  <1>7. CASE UNCHANGED vars
    <2>1. UNCHANGED <<teamVars, call, token, told, intent, held>>
      BY <1>7 DEF vars, gitHubVars, desktopVars
    <2>2. TeamTypes' /\ LocalTypes' /\ UNCHANGED <<grants, bound>>
      BY <2>1 DEF IInv, GrantsHold, TeamTypes, LocalTypes, teamVars
    <2> QED
      BY <2>1, <2>2, QuietStep
  <1> QED
    BY <1>1, <1>2, <1>3, <1>4, <1>5, <1>6, <1>7 DEF Next

LEMMA Invariant == Spec => []IInv
  BY InitHolds, NextHolds, PTL DEF Spec

(* However calls overlap, outlive the desktop that made them, fail or die, *)
(* GitHub never knows two credentials of one delivery.                     *)
THEOREM OneIsLive == Spec => []OneLiveToken
  <1>1. IInv => OneLiveToken
    <2> SUFFICES ASSUME IInv, NEW a \in Attempt, NEW b \in Attempt,
                        NEW n \in 1..MaxGrants, NEW m \in 1..MaxGrants,
                        token[a][n] = "live", token[b][m] = "live"
                 PROVE  <<a, n>> = <<b, m>>
      BY DEF OneLiveToken
    <2>1. /\ n \in DOMAIN grants[a] /\ ~Cleared(grants[a][n])
          /\ m \in DOMAIN grants[b] /\ ~Cleared(grants[b][m])
      BY DEF IInv, LiveUncleared
    <2> QED
      BY <2>1 DEF IInv, GrantsHold, OneUncleared
  <1> QED
    BY <1>1, Invariant, PTL

(* A desktop that was told that the binding is inactive leaves no          *)
(* credential behind that was minted and not handed out.                   *)
THEOREM ToldMeansCleared == Spec => []AnsweredMeansCleared
  <1>1. IInv => AnsweredMeansCleared
    <2> SUFFICES ASSUME IInv, told, NEW a \in Attempt,
                        NEW n \in DOMAIN grants[a], ~grants[a][n].issued
                 PROVE  token[a][n] # "live"
      BY DEF AnsweredMeansCleared
    <2>1. Cleared(grants[a][n]) /\ n \in 1..MaxGrants
      BY GrantFacts DEF IInv, ToldHolds, GrantsHold
    <2> QED
      BY <2>1 DEF IInv, LiveUncleared
  <1> QED
    BY <1>1, Invariant, PTL
=============================================================================
