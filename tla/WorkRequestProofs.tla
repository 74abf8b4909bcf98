------------------------- MODULE WorkRequestProofs -------------------------
(***************************************************************************)
(* Proofs about the materialization of work requests, for any desktops,    *)
(* tokens and users, any pairings and any bounds.                          *)
(***************************************************************************)
EXTENDS WorkRequest, TLAPS

-----------------------------------------------------------------------------
(* The inductive invariant.                                                *)

(* Desktop d has the claim that left the request at version v, or the Team *)
(* knows that d's claim was released.                                      *)
Claimed(d, v) ==
  \/ /\ request.run = d
     /\ \/ request.status = "claim_pending" /\ request.version = v
        \/ request.status = "materialized" /\ request.version = v + 1
  \/ d \in tombstones

TeamTypes ==
  /\ request \in Row
  /\ request.status \in {"open", "expired"}
       <=> request.token = None /\ request.run = None
  /\ tombstones \subseteq Desktop
  /\ projections \subseteq Desktop
  /\ overdue \in BOOLEAN
  /\ answers \subseteq AnswerType
  /\ live \subseteq Token
  /\ members \subseteq User

DesktopTypes ==
  /\ paired \in [Desktop -> Token \union {None}]
  /\ spent \subseteq Token
  /\ binding \in [Desktop -> Binding]
  /\ pc \in [Desktop -> Label]
  /\ job \in [Desktop -> Job]
  /\ \A d \in Desktop : pc[d] # "idle" => job[d].token \in Token
  /\ late \subseteq Message

(* A claimed request names a bearer and the run of that bearer's desktop,  *)
(* and has been written.                                                   *)
RowNamesClaimant ==
  request.status \in {"claim_pending", "materialized"} =>
    /\ request.token \in Token /\ request.run = DesktopOf[request.token]
    /\ request.version >= 2

(* What the Team has told a caller stays true.                             *)
AnswerHolds(a) ==
  a.ok =>
    /\ a.key.version < request.version
    /\ a.key.op = "claim" => Claimed(a.key.run, a.key.version + 1)
    /\ a.key.op = "materialize" =>
         request.status = "materialized" /\ request.run = a.key.run

AnswersHold == \A a \in answers : AnswerHolds(a)

TeamInv ==
  /\ TeamTypes
  /\ RowNamesClaimant
  /\ AnswersHold
  /\ OneAnswerPerKey
  /\ OnlyClaimedRunIsShown

(* A request that is on its way is one the desktop could send: confirmed   *)
(* and uploaded are only runs that exist.                                  *)
Sound(m) ==
  LET d == DesktopOf[m.token]
  IN /\ m.op # "upload" => m.version >= 1
     /\ m.op = "materialize" => binding[d].version = m.version
     /\ m.op = "upload" => binding[d] # NoBinding

(* A local run has a claim, or had one that was released.                  *)
BindingHolds(d) ==
  binding[d] # NoBinding =>
    binding[d].version >= 1 /\ Claimed(d, binding[d].version)

(* What a materialization under way may rely on.                           *)
JobHolds(d) ==
  /\ pc[d] # "idle" => DesktopOf[job[d].token] = d
  /\ pc[d] \notin {"idle", "listing"} => job[d].version >= 1
  /\ pc[d] \in {"saving", "confirming"} => Claimed(d, job[d].version)
  /\ pc[d] = "confirming" => binding[d].version = job[d].version
  /\ pc[d] = "acknowledging" =>
       request.status = "materialized" /\ request.run = d

PairedHere == \A d \in Desktop : paired[d] # None => DesktopOf[paired[d]] = d

DesktopInv ==
  /\ DesktopTypes
  /\ PairedHere
  /\ \A d \in Desktop : BindingHolds(d) /\ JobHolds(d)
  /\ \A m \in late : Sound(m)
  /\ MaterializedIsReal

IInv == TeamInv /\ DesktopInv
-----------------------------------------------------------------------------
(* What every step of the Team leaves standing, and what a request it      *)
(* handles may confirm.                                                    *)

Lasting ==
  /\ request'.version >= request.version
  /\ \A d \in Desktop, v \in Nat : Claimed(d, v) => Claimed(d, v)'
  /\ request.status = "materialized" => request' = request

Confirms(m) ==
  request'.status = "materialized" =>
    \/ request' = request
    \/ /\ m.op = "materialize"
       /\ request'.version = m.version + 1
       /\ request'.run = DesktopOf[m.token]

LEMMA TokenTypes ==
  ASSUME NEW t \in Token
  PROVE  /\ DesktopOf[t] \in Desktop /\ DesktopOf[t] # None
         /\ UserOf[t] \in User /\ t # None
  BY TeamAssumption

LEMMA BumpType ==
  ASSUME TeamTypes, ~Full, NEW s \in Status
  PROVE  /\ Bump(s) \in Row /\ Bump(s).status = s
         /\ Bump(s).version = request.version + 1
         /\ Bump(s).token = request.token /\ Bump(s).run = request.run
  <1>1. request.version + 1 \in 1..MaxVersion
    BY TeamAssumption DEF TeamTypes, Row, Full
  <1>2. Bump(s) = [request EXCEPT !.status = s,
                                  !.version = request.version + 1]
    BY DEF Bump
  <1>3. request \in Row
    BY DEF TeamTypes
  <1> QED
    BY <1>1, <1>2, <1>3 DEF Row

(* A row that does not change and keeps its tombstones upsets nothing.     *)
LEMMA SameRowLasts ==
  ASSUME TeamTypes, request' = request, tombstones \subseteq tombstones'
  PROVE  Lasting
  BY DEF TeamTypes, Row, Lasting, Claimed

LEMMA OldAnswersHold ==
  ASSUME TeamTypes, AnswersHold, Lasting, TeamTypes',
         NEW a \in answers
  PROVE  AnswerHolds(a)'
  <1>1. /\ a.key.run \in Desktop /\ a.key.version \in Nat
        /\ a.key.version + 1 \in Nat
    BY TeamAssumption DEF TeamTypes, AnswerType, KeyType
  <1>2. request.version \in Nat /\ request'.version \in Nat
    BY TeamAssumption DEF TeamTypes, Row
  <1> QED
    BY <1>1, <1>2 DEF AnswersHold, AnswerHolds, Lasting

(* An answer to a request that had none is the only one.                   *)
LEMMA FinalizedOnce ==
  ASSUME TeamTypes, OneAnswerPerKey, NEW m \in Message, m.op # "upload",
         m.version >= 1, ~Answered(m), NEW ok \in BOOLEAN, Finalize(m, ok)
  PROVE  answers' \subseteq AnswerType /\ OneAnswerPerKey'
  <1>1. Key(m) \in KeyType
    BY TokenTypes DEF Key, KeyType, Message
  <1>2. [key |-> Key(m), ok |-> ok] \in AnswerType
    BY <1>1 DEF AnswerType
  <1>3. answers' = answers \union {[key |-> Key(m), ok |-> ok]}
    BY DEF Finalize
  <1>4. \A a \in answers : a.key # Key(m)
    BY DEF Answered
  <1>5. OneAnswerPerKey'
    BY <1>3, <1>4 DEF OneAnswerPerKey
  <1> QED
    BY <1>2, <1>3, <1>5 DEF TeamTypes

(* A refusal is stored and nothing else happens.                           *)
LEMMA RefusalKeeps ==
  ASSUME TeamInv, NEW m \in Message, m.op # "upload", m.version >= 1,
         ~Answered(m), Finalize(m, FALSE),
         UNCHANGED <<request, tombstones, projections>>,
         UNCHANGED <<overdue, accessVars>>
  PROVE  TeamInv' /\ Lasting /\ Confirms(m)
  <1>1. answers' \subseteq AnswerType /\ OneAnswerPerKey'
    BY FinalizedOnce DEF TeamInv
  <1>2. TeamTypes'
    BY <1>1 DEF TeamInv, TeamTypes, accessVars
  <1>3. Lasting
    BY SameRowLasts DEF TeamInv
  <1>4. AnswersHold'
    <2>1. \A a \in answers : AnswerHolds(a)'
      BY <1>2, <1>3, OldAnswersHold DEF TeamInv
    <2>2. AnswerHolds([key |-> Key(m), ok |-> FALSE])'
      BY DEF AnswerHolds
    <2> QED
      BY <2>1, <2>2 DEF AnswersHold, Finalize
  <1> QED
    BY <1>1, <1>2, <1>3, <1>4
       DEF TeamInv, RowNamesClaimant, OnlyClaimedRunIsShown, Confirms

(* A claim of an open request is granted, or the request expires.          *)
LEMMA ClaimKeeps ==
  ASSUME TeamInv, NEW m \in Message, m.op = "claim", m.version >= 1,
         ~Full, ~Answered(m), ClaimWorkRequest(m),
         UNCHANGED <<overdue, accessVars>>
  PROVE  TeamInv' /\ Lasting /\ Confirms(m)
  <1> DEFINE d == DesktopOf[m.token]
  <1>1. CASE ~(request.status = "open" /\ overdue) /\ ~CanClaim(m)
    BY <1>1, RefusalKeeps DEF ClaimWorkRequest
  <1>2. CASE request.status = "open" /\ overdue
    <2>1. /\ request' = Bump("expired") /\ Finalize(m, FALSE)
          /\ UNCHANGED <<tombstones, projections>>
      BY <1>2 DEF ClaimWorkRequest
    <2>2. /\ request' \in Row /\ request'.status = "expired"
          /\ request'.version = request.version + 1
          /\ request'.token = None /\ request'.run = None
      BY <1>2, <2>1, BumpType DEF TeamInv, TeamTypes, Status
    <2>3. answers' \subseteq AnswerType /\ OneAnswerPerKey'
      BY <2>1, FinalizedOnce DEF TeamInv
    <2>4. TeamTypes'
      BY <2>1, <2>2, <2>3 DEF TeamInv, TeamTypes, accessVars
    <2>5. Lasting
      BY <1>2, <2>1, <2>2 DEF TeamInv, TeamTypes, Row, Lasting, Claimed
    <2>6. AnswersHold'
      <3>1. \A a \in answers : AnswerHolds(a)'
        BY <2>4, <2>5, OldAnswersHold DEF TeamInv
      <3>2. AnswerHolds([key |-> Key(m), ok |-> FALSE])'
        BY DEF AnswerHolds
      <3> QED
        BY <2>1, <3>1, <3>2 DEF AnswersHold, Finalize
    <2>7. RowNamesClaimant' /\ OnlyClaimedRunIsShown'
      BY <1>2, <2>1, <2>2
         DEF TeamInv, TeamTypes, RowNamesClaimant, OnlyClaimedRunIsShown
    <2> QED
      BY <2>2, <2>3, <2>4, <2>5, <2>6, <2>7 DEF TeamInv, Confirms
  <1>3. CASE ~(request.status = "open" /\ overdue) /\ CanClaim(m)
    <2>1. /\ request' = [Bump("claim_pending") EXCEPT !.token = m.token,
                                                      !.run = d]
          /\ Finalize(m, TRUE)
          /\ UNCHANGED <<tombstones, projections>>
          /\ request.status = "open" /\ request.version = m.version
      BY <1>3 DEF ClaimWorkRequest, CanClaim
    <2>2. /\ request' \in Row /\ request'.status = "claim_pending"
          /\ request'.version = m.version + 1
          /\ request'.token = m.token /\ request'.run = d
      <3>1. m.token \in Token /\ d \in Desktop
        BY TokenTypes DEF Message
      <3>2. Bump("claim_pending") \in Row
        BY BumpType DEF TeamInv, Status
      <3> QED
        BY <2>1, <3>1, <3>2, BumpType DEF TeamInv, Row, Status
    <2>3. answers' \subseteq AnswerType /\ OneAnswerPerKey'
      BY <2>1, FinalizedOnce DEF TeamInv
    <2>4. TeamTypes'
      BY <2>1, <2>2, <2>3, TokenTypes
         DEF TeamInv, TeamTypes, accessVars, Message
    <2>5. Lasting
      BY <2>1, <2>2 DEF TeamInv, TeamTypes, Row, Lasting, Claimed
    <2>6. AnswersHold'
      <3>1. \A a \in answers : AnswerHolds(a)'
        BY <2>4, <2>5, OldAnswersHold DEF TeamInv
      <3>2. AnswerHolds([key |-> Key(m), ok |-> TRUE])'
        BY <2>1, <2>2 DEF AnswerHolds, Claimed, Key, Message, TeamInv,
                          TeamTypes, Row
      <3> QED
        BY <2>1, <3>1, <3>2 DEF AnswersHold, Finalize
    <2>7. RowNamesClaimant'
      BY <2>2 DEF RowNamesClaimant, Message
    <2>8. OnlyClaimedRunIsShown'
      <3>1. projections = {}
        BY <2>1, TeamAssumption
           DEF TeamInv, TeamTypes, OnlyClaimedRunIsShown
      <3> QED
        BY <2>1, <3>1 DEF OnlyClaimedRunIsShown
    <2> QED
      BY <2>2, <2>3, <2>4, <2>5, <2>6, <2>7, <2>8 DEF TeamInv, Confirms
  <1> QED
    BY <1>1, <1>2, <1>3

LEMMA MaterializeKeeps ==
  ASSUME TeamInv, NEW m \in Message, m.op = "materialize", m.version >= 1,
         ~Full, ~Answered(m), MaterializeWorkRequest(m),
         UNCHANGED <<overdue, accessVars>>
  PROVE  TeamInv' /\ Lasting /\ Confirms(m)
  <1> DEFINE ok == /\ request.version = m.version
                   /\ request.status = "claim_pending"
                   /\ IsClaimant(m)
  <1>1. CASE ~ok
    BY <1>1, RefusalKeeps DEF MaterializeWorkRequest
  <1>2. CASE ok
    <2>1. /\ request' = Bump("materialized") /\ Finalize(m, TRUE)
          /\ UNCHANGED <<tombstones, projections>>
      BY <1>2 DEF MaterializeWorkRequest
    <2>2. /\ request' \in Row /\ request'.status = "materialized"
          /\ request'.version = m.version + 1
          /\ request'.token = request.token /\ request'.run = request.run
          /\ request.run = DesktopOf[m.token]
      BY <1>2, <2>1, BumpType DEF TeamInv, Status, IsClaimant
    <2>3. answers' \subseteq AnswerType /\ OneAnswerPerKey'
      BY <2>1, FinalizedOnce DEF TeamInv
    <2>4. TeamTypes'
      BY <1>2, <2>1, <2>2, <2>3 DEF TeamInv, TeamTypes, accessVars
    <2>5. Lasting
      BY <1>2, <2>1, <2>2 DEF TeamInv, TeamTypes, Row, Lasting, Claimed
    <2>6. AnswersHold'
      <3>1. \A a \in answers : AnswerHolds(a)'
        BY <2>4, <2>5, OldAnswersHold DEF TeamInv
      <3>2. AnswerHolds([key |-> Key(m), ok |-> TRUE])'
        BY <1>2, <2>2 DEF AnswerHolds, Key, Message, TeamInv, TeamTypes, Row
      <3> QED
        BY <2>1, <3>1, <3>2 DEF AnswersHold, Finalize
    <2>7. RowNamesClaimant' /\ OnlyClaimedRunIsShown'
      BY <1>2, <2>1, <2>2
         DEF TeamInv, TeamTypes, Row, RowNamesClaimant, OnlyClaimedRunIsShown
    <2> QED
      BY <2>2, <2>3, <2>4, <2>5, <2>6, <2>7, <1>2 DEF TeamInv, Confirms
  <1> QED
    BY <1>1, <1>2

(* Only the run of the present claim gets in: an upload is of a run that   *)
(* had a claim, and a released claim has its tombstone.                    *)
LEMMA UploadKeeps ==
  ASSUME TeamInv, NEW m \in Message, m.op = "upload",
         \E v \in Nat : Claimed(DesktopOf[m.token], v),
         UploadRunSummary(m), UNCHANGED <<overdue, accessVars>>
  PROVE  TeamInv' /\ Lasting /\ Confirms(m)
  <1>1. UNCHANGED <<request, tombstones, answers>>
    BY DEF UploadRunSummary
  <1>2. projections' \subseteq {request.run} /\ projections' \subseteq Desktop
    <2>1. CASE MayProject(m.token)
      <3>1. request.run = DesktopOf[m.token]
        BY <2>1 DEF MayProject, Claimed
      <3>2. DesktopOf[m.token] \in Desktop
        BY TokenTypes DEF Message
      <3> QED
        BY <3>1, <3>2
           DEF UploadRunSummary, TeamInv, TeamTypes, OnlyClaimedRunIsShown
    <2>2. CASE ~MayProject(m.token)
      BY <2>2 DEF UploadRunSummary, TeamInv, TeamTypes, OnlyClaimedRunIsShown
    <2> QED
      BY <2>1, <2>2
  <1>3. TeamTypes'
    BY <1>1, <1>2 DEF TeamInv, TeamTypes, accessVars
  <1>4. Lasting
    BY <1>1, SameRowLasts DEF TeamInv
  <1>5. AnswersHold'
    BY <1>1, <1>3, <1>4, OldAnswersHold DEF TeamInv, AnswersHold
  <1> QED
    BY <1>1, <1>2, <1>3, <1>4, <1>5
       DEF TeamInv, RowNamesClaimant, OnlyClaimedRunIsShown,
           OneAnswerPerKey, Confirms

(* Whatever request the Team handles, however late.                        *)
LEMMA HandledKeeps ==
  ASSUME TeamInv, NEW m \in Message, TeamHandles(m),
         m.op # "upload" => m.version >= 1,
         m.op = "upload" => \E v \in Nat : Claimed(DesktopOf[m.token], v)
  PROVE  TeamInv' /\ Lasting /\ Confirms(m)
  <1>1. CASE m.op = "upload"
    BY <1>1, UploadKeeps DEF TeamHandles
  <1>2. CASE m.op # "upload" /\ UNCHANGED rowVars
    <2>1. UNCHANGED teamVars
      BY <1>2 DEF TeamHandles, teamVars
    <2>2. TeamInv'
      BY <2>1 DEF TeamInv, TeamTypes, RowNamesClaimant, AnswersHold,
                  AnswerHolds, Claimed, OneAnswerPerKey,
                  OnlyClaimedRunIsShown, teamVars, rowVars, accessVars
    <2> QED
      BY <2>1, <2>2, SameRowLasts
         DEF TeamInv, teamVars, rowVars, Confirms
  <1>3. CASE m.op # "upload" /\ ~UNCHANGED rowVars
    <2>1. ~Full /\ ~Answered(m) /\ UNCHANGED <<overdue, accessVars>>
      BY <1>3 DEF TeamHandles, Keyed
    <2>2. CASE UserOf[m.token] \notin members
      BY <1>3, <2>1, <2>2, RefusalKeeps DEF TeamHandles, Keyed
    <2>3. CASE UserOf[m.token] \in members /\ m.op = "claim"
      BY <1>3, <2>1, <2>3, ClaimKeeps DEF TeamHandles, Keyed
    <2>4. CASE UserOf[m.token] \in members /\ m.op = "materialize"
      BY <1>3, <2>1, <2>4, MaterializeKeeps DEF TeamHandles, Keyed
    <2> QED
      BY <1>3, <2>2, <2>3, <2>4 DEF Message
  <1> QED
    BY <1>1, <1>2, <1>3

LEMMA ReleaseKeeps ==
  ASSUME TeamInv, ReleaseWorkRequest
  PROVE  TeamInv' /\ Lasting /\ request'.status # "materialized"
  <1> DEFINE status == IF overdue THEN "expired" ELSE "open"
  <1>1. /\ request' = [Bump(status) EXCEPT !.token = None, !.run = None]
        /\ tombstones' = tombstones \union {request.run}
        /\ request.status = "claim_pending"
        /\ request.run \notin projections
        /\ UNCHANGED <<projections, answers, overdue, accessVars>>
    BY DEF ReleaseWorkRequest, Releasable
  <1>2. status \in {"open", "expired"}
    OBVIOUS
  <1>3. Bump(status) \in Row /\ Bump(status).status = status
        /\ Bump(status).version = request.version + 1
    BY <1>2, BumpType DEF TeamInv, Status, ReleaseWorkRequest
  <1> HIDE DEF status
  <1>4. /\ request' \in Row /\ request'.status = status
        /\ request'.version = request.version + 1
        /\ request'.token = None /\ request'.run = None
    BY <1>1, <1>3 DEF Row
  <1>5. request.run \in Desktop
    BY <1>1, TokenTypes DEF TeamInv, RowNamesClaimant
  <1>6. TeamTypes'
    BY <1>1, <1>2, <1>4, <1>5 DEF TeamInv, TeamTypes, accessVars
  <1>7. Lasting
    BY <1>1, <1>4 DEF TeamInv, TeamTypes, Row, Lasting, Claimed
  <1>8. AnswersHold'
    BY <1>1, <1>6, <1>7, OldAnswersHold DEF TeamInv, AnswersHold
  <1>9. projections = {}
    BY <1>1 DEF TeamInv, OnlyClaimedRunIsShown
  <1> QED
    BY <1>1, <1>2, <1>4, <1>6, <1>7, <1>8, <1>9
       DEF TeamInv, RowNamesClaimant, OnlyClaimedRunIsShown, OneAnswerPerKey

(* The other steps of the Team leave the row, its tombstones and the       *)
(* answers alone and take no run in.                                       *)
LEMMA RowKeptKeeps ==
  ASSUME TeamInv, UNCHANGED <<request, tombstones, answers>>,
         projections' \subseteq projections, overdue' \in BOOLEAN,
         live' \subseteq Token, members' \subseteq User
  PROVE  TeamInv' /\ Lasting
  BY SameRowLasts
     DEF TeamInv, TeamTypes, RowNamesClaimant, AnswersHold, AnswerHolds,
         Claimed, OneAnswerPerKey, OnlyClaimedRunIsShown

LEMMA TeamStepKeeps ==
  ASSUME TeamInv, TeamStep
  PROVE  /\ TeamInv' /\ Lasting
         /\ request'.status = "materialized" => request' = request
  <1>1. CASE ReleaseWorkRequest
    BY <1>1, ReleaseKeeps
  <1>2. CASE Lapse
    BY <1>2, RowKeptKeeps
       DEF Lapse, rowVars, accessVars, TeamInv, TeamTypes
  <1>3. CASE \E d \in Desktop : DeleteRun(d)
    BY <1>3, RowKeptKeeps DEF DeleteRun, accessVars, TeamInv, TeamTypes
  <1>4. CASE \E t \in Token : RevokeDesktopToken(t)
    BY <1>4, RowKeptKeeps DEF RevokeDesktopToken, rowVars, TeamInv, TeamTypes
  <1>5. CASE \E u \in User : ChangeAccess(u)
    BY <1>5, RowKeptKeeps DEF ChangeAccess, rowVars, TeamInv, TeamTypes
  <1> QED
    BY <1>1, <1>2, <1>3, <1>4, <1>5 DEF TeamStep

LEMMA TeamRestKeeps ==
  ASSUME TeamInv, UNCHANGED teamVars
  PROVE  TeamInv' /\ Lasting /\ request' = request
  BY RowKeptKeeps DEF teamVars, rowVars, accessVars, TeamInv, TeamTypes

-----------------------------------------------------------------------------
(* What the desktops rely on survives the steps of the Team and of other   *)
(* desktops.                                                               *)

LEMMA JobLasts ==
  ASSUME DesktopTypes, Lasting, NEW d \in Desktop, JobHolds(d),
         pc'[d] = pc[d], job'[d] = job[d],
         pc[d] = "confirming" => binding'[d] = binding[d]
  PROVE  JobHolds(d)'
  <1>1. job[d].version \in Nat
    BY TeamAssumption DEF DesktopTypes, Job
  <1> QED
    BY <1>1 DEF JobHolds, Lasting

LEMMA BindingLasts ==
  ASSUME DesktopTypes, Lasting, NEW d \in Desktop, BindingHolds(d),
         binding'[d] = binding[d]
  PROVE  BindingHolds(d)'
  <1>1. binding[d].version \in Nat
    BY TeamAssumption DEF DesktopTypes, Binding
  <1> QED
    BY <1>1 DEF BindingHolds, Lasting

(* The request is confirmed now, if at all, by a desktop that has the run. *)
Confirmed ==
  request'.status = "materialized" =>
    \/ request' = request
    \/ binding[request'.run].version = request'.version - 1

LEMMA SoundConfirms ==
  ASSUME DesktopTypes, NEW m \in Message, Sound(m), Confirms(m)
  PROVE  Confirmed
  <1>1. m.version \in Nat
    BY TeamAssumption DEF Message
  <1> QED
    BY <1>1 DEF Confirms, Confirmed, Sound

LEMMA RealLasts ==
  ASSUME MaterializedIsReal, Lasting, Confirmed, UNCHANGED binding
  PROVE  MaterializedIsReal'
  BY DEF MaterializedIsReal, Lasting, Confirmed

(* A step of the Team alone.                                               *)
LEMMA DesktopsUndisturbed ==
  ASSUME DesktopInv, Lasting, Confirmed, UNCHANGED desktopVars
  PROVE  DesktopInv'
  <1>1. DesktopTypes' /\ PairedHere' /\ \A m \in late' : Sound(m)'
    BY DEF DesktopInv, desktopVars, DesktopTypes, PairedHere, Sound
  <1>2. \A d \in Desktop : BindingHolds(d)' /\ JobHolds(d)'
    BY JobLasts, BindingLasts DEF DesktopInv, desktopVars
  <1>3. MaterializedIsReal'
    BY RealLasts DEF DesktopInv, desktopVars
  <1> QED
    BY <1>1, <1>2, <1>3 DEF DesktopInv

-----------------------------------------------------------------------------
(* The steps of one desktop.                                               *)

(* Nothing but the materialization on desktop d has moved.                 *)
OnlyJob(d) ==
  /\ pc' \in [Desktop -> Label]
  /\ job' \in [Desktop -> Job]
  /\ pc'[d] # "idle" => job'[d].token \in Token
  /\ \A e \in Desktop \ {d} : pc'[e] = pc[e] /\ job'[e] = job[e]

LEMMA GotoMoves ==
  ASSUME DesktopTypes, NEW d \in Desktop, NEW label \in Label,
         NEW version \in 0..MaxVersion, Goto(d, label, version),
         pc[d] # "idle"
  PROVE  /\ OnlyJob(d) /\ pc'[d] = label
         /\ job'[d].token = job[d].token /\ job'[d].version = version
  <1>1. job[d] \in Job /\ job[d].token \in Token
    BY DEF DesktopTypes
  <1>2. [job[d] EXCEPT !.version = version] \in Job
    BY <1>1 DEF Job
  <1>3. job' = [job EXCEPT ![d] = [job[d] EXCEPT !.version = version]]
    BY DEF Goto
  <1>4. job' \in [Desktop -> Job] /\ pc' \in [Desktop -> Label]
    BY <1>2, <1>3 DEF DesktopTypes, Goto
  <1>5. job'[d] = [job[d] EXCEPT !.version = version] /\ pc'[d] = label
    BY <1>3 DEF DesktopTypes, Goto
  <1>6. job'[d].token = job[d].token /\ job'[d].version = version
    BY <1>1, <1>5 DEF Job
  <1> QED
    BY <1>1, <1>3, <1>4, <1>5, <1>6 DEF OnlyJob, Goto, DesktopTypes

LEMMA StopMoves ==
  ASSUME DesktopTypes, NEW d \in Desktop, Stop(d)
  PROVE  OnlyJob(d) /\ JobHolds(d)'
  <1>1. NoJob \in Job
    BY TeamAssumption DEF NoJob, Job
  <1>2. pc'[d] = "idle"
    BY DEF DesktopTypes, Stop
  <1> QED
    BY <1>1, <1>2 DEF OnlyJob, DesktopTypes, Stop, JobHolds, Label

(* A step of desktop d that leaves its binding alone.                      *)
LEMMA JobStepKeeps ==
  ASSUME DesktopInv, Lasting, Confirmed, NEW d \in Desktop,
         OnlyJob(d), JobHolds(d)', UNCHANGED <<paired, spent, binding>>,
         late' \subseteq Message, \A m \in late' : Sound(m)
  PROVE  DesktopInv'
  <1>1. DesktopTypes'
    BY DEF DesktopInv, DesktopTypes, OnlyJob
  <1>2. \A m \in late' : Sound(m)'
    BY DEF Sound
  <1>3. \A e \in Desktop : BindingHolds(e)'
    BY BindingLasts DEF DesktopInv
  <1>4. \A e \in Desktop : JobHolds(e)'
    <2> SUFFICES ASSUME NEW e \in Desktop, e # d
                 PROVE  JobHolds(e)'
      OBVIOUS
    <2>1. pc'[e] = pc[e] /\ job'[e] = job[e]
      BY DEF OnlyJob
    <2> QED
      BY <2>1, JobLasts DEF DesktopInv
  <1>5. MaterializedIsReal'
    BY RealLasts DEF DesktopInv
  <1> QED
    BY <1>1, <1>2, <1>3, <1>4, <1>5 DEF DesktopInv, PairedHere

LEMMA BeginKeeps ==
  ASSUME IInv, NEW d \in Desktop, Begin(d)
  PROVE  IInv'
  <1>1. TeamInv' /\ Lasting /\ Confirmed
    BY TeamRestKeeps DEF IInv, Begin, Confirmed
  <1>2. paired[d] \in Token /\ DesktopOf[paired[d]] = d
    BY DEF IInv, DesktopInv, DesktopTypes, PairedHere, Begin
  <1>3. job[d] \in Job
    BY DEF IInv, DesktopInv, DesktopTypes
  <1>4. [job[d] EXCEPT !.token = paired[d]] \in Job
    BY <1>2, <1>3 DEF Job
  <1>5. job' = [job EXCEPT ![d] = [job[d] EXCEPT !.token = paired[d]]]
    BY DEF Begin
  <1>6. pc'[d] = "listing" /\ job'[d].token = paired[d]
    BY <1>3, <1>5 DEF Begin, IInv, DesktopInv, DesktopTypes, Job
  <1>7. OnlyJob(d)
    BY <1>2, <1>4, <1>5, <1>6
       DEF OnlyJob, Begin, IInv, DesktopInv, DesktopTypes, Label
  <1>8. JobHolds(d)'
    BY <1>2, <1>6 DEF JobHolds
  <1>9. DesktopInv'
    BY <1>1, <1>7, <1>8, JobStepKeeps
       DEF IInv, Begin, DesktopInv, DesktopTypes
  <1> QED
    BY <1>1, <1>9 DEF IInv

LEMMA ListKeeps ==
  ASSUME IInv, NEW d \in Desktop, ListWorkRequests(d)
  PROVE  IInv'
  <1>1. TeamInv' /\ Lasting /\ Confirmed /\ request' = request
        /\ tombstones' = tombstones
    BY TeamRestKeeps
       DEF IInv, ListWorkRequests, Confirmed, teamVars, rowVars
  <1>2. /\ pc[d] = "listing" /\ DesktopOf[job[d].token] = d
        /\ DesktopTypes /\ request \in Row /\ RowNamesClaimant
        /\ request.version \in 0..MaxVersion /\ request.version >= 1
    BY TeamAssumption
       DEF IInv, DesktopInv, JobHolds, TeamInv, TeamTypes, Row,
           ListWorkRequests
  <1>3. OnlyJob(d) /\ JobHolds(d)'
    <2>1. CASE Stop(d)
      BY <1>2, <2>1, StopMoves
    <2>2. CASE request.status = "open" /\ Goto(d, "claiming", request.version)
      BY <1>2, <2>2, GotoMoves DEF Label, JobHolds
    <2>3. CASE /\ Visible(job[d].token) /\ request.status = "claim_pending"
               /\ Goto(d, "saving", request.version)
      <3>1. request.run = d
        BY <1>2, <2>3 DEF Visible, RowNamesClaimant
      <3> QED
        BY <1>1, <1>2, <2>3, <3>1, GotoMoves DEF Label, JobHolds, Claimed
    <2>4. CASE /\ Visible(job[d].token) /\ request.status = "materialized"
               /\ Goto(d, "acknowledging", request.version)
      <3>1. request.run = d
        BY <1>2, <2>4 DEF Visible, RowNamesClaimant
      <3> QED
        BY <1>1, <1>2, <2>4, <3>1, GotoMoves DEF Label, JobHolds
    <2> QED
      BY <2>1, <2>2, <2>3, <2>4 DEF ListWorkRequests, Visible
  <1>4. DesktopInv'
    BY <1>1, <1>3, JobStepKeeps
       DEF IInv, ListWorkRequests, DesktopInv, DesktopTypes
  <1> QED
    BY <1>1, <1>4 DEF IInv

(* What a desktop sends is sound.                                          *)
LEMMA RequestIsSound ==
  ASSUME DesktopInv, NEW d \in Desktop, Awaiting(d)
  PROVE  /\ Request(d) \in Message /\ Sound(Request(d))
         /\ Request(d).op # "upload" /\ Request(d).version >= 1
         /\ DesktopOf[Request(d).token] = d
  <1>1. /\ job[d].token \in Token /\ job[d].version \in 0..MaxVersion
        /\ job[d].version >= 1 /\ DesktopOf[job[d].token] = d
        /\ pc[d] = "confirming" => binding[d].version = job[d].version
    BY DEF DesktopInv, DesktopTypes, JobHolds, Awaiting, Job
  <1> QED
    BY <1>1 DEF Request, Message, Sound, Awaiting

(* A success the desktop is told of is true.                               *)
LEMMA GrantedHolds ==
  ASSUME DesktopInv, TeamInv', NEW d \in Desktop, Awaiting(d),
         Granted(Request(d)), NEW v \in Nat, v = job[d].version
  PROVE  /\ v + 1 \in 0..MaxVersion
         /\ pc[d] = "claiming" => Claimed(d, v + 1)'
         /\ pc[d] = "confirming" =>
              request'.status = "materialized" /\ request'.run = d
  <1>1. PICK a \in answers' : a = [key |-> Key(Request(d)), ok |-> TRUE]
    BY DEF Granted
  <1>2. /\ a.ok /\ a.key.version = v /\ a.key.run = d
        /\ a.key.op = IF pc[d] = "claiming" THEN "claim" ELSE "materialize"
    BY <1>1, RequestIsSound DEF Key, Request
  <1>3. AnswerHolds(a)'
    BY DEF TeamInv, AnswersHold
  <1>4. request'.version \in 0..MaxVersion
    BY TeamAssumption DEF TeamInv, TeamTypes, Row
  <1>5. v < request'.version
    BY <1>2, <1>3 DEF AnswerHolds
  <1>6. pc[d] = "claiming" => Claimed(d, v + 1)'
    BY <1>2, <1>3 DEF AnswerHolds
  <1>7. pc[d] = "confirming" =>
          request'.status = "materialized" /\ request'.run = d
    BY <1>2, <1>3, RequestIsSound DEF AnswerHolds, Awaiting
  <1> QED
    BY <1>4, <1>5, <1>6, <1>7, TeamAssumption

LEMMA AnswerKeeps ==
  ASSUME IInv, NEW d \in Desktop, Answer(d)
  PROVE  IInv'
  <1> DEFINE m == Request(d)
  <1>1. /\ m \in Message /\ Sound(m) /\ m.op # "upload" /\ m.version >= 1
        /\ Awaiting(d) /\ TeamHandles(m)
    BY RequestIsSound DEF IInv, Answer
  <1>2. TeamInv' /\ Lasting /\ Confirms(m)
    BY <1>1, HandledKeeps DEF IInv
  <1>3. Confirmed
    BY <1>1, <1>2, SoundConfirms DEF IInv, DesktopInv
  <1>4. /\ DesktopTypes /\ pc[d] \in {"claiming", "confirming"}
        /\ DesktopOf[job[d].token] = d /\ job[d].version >= 1
        /\ job[d].version \in Nat
    BY <1>1, TeamAssumption
       DEF IInv, DesktopInv, DesktopTypes, JobHolds, Awaiting, Job
  <1>5. OnlyJob(d) /\ JobHolds(d)'
    <2>1. CASE Granted(m)
      <3>0. PICK v \in Nat : v = job[d].version
        BY <1>4
      <3>1. /\ v + 1 \in 0..MaxVersion
            /\ pc[d] = "claiming" => Claimed(d, v + 1)'
            /\ pc[d] = "confirming" =>
                 request'.status = "materialized" /\ request'.run = d
        BY <1>1, <1>2, <2>1, <3>0, GrantedHolds DEF IInv
      <3>2. CASE pc[d] = "claiming"
        <4>1. Goto(d, "saving", v + 1)
          BY <2>1, <3>0, <3>2 DEF Answer
        <4>2. OnlyJob(d) /\ pc'[d] = "saving" /\ job'[d].token = job[d].token
              /\ job'[d].version = v + 1
          BY <1>4, <3>1, <4>1, GotoMoves DEF Label
        <4> QED
          BY <1>4, <3>1, <3>2, <4>2 DEF JobHolds, Claimed
      <3>3. CASE pc[d] = "confirming"
        <4>1. Goto(d, "acknowledging", v + 1)
          BY <2>1, <3>0, <3>3 DEF Answer
        <4>2. OnlyJob(d) /\ pc'[d] = "acknowledging"
              /\ job'[d].token = job[d].token
              /\ job'[d].version = v + 1
          BY <1>4, <3>1, <4>1, GotoMoves DEF Label
        <4> QED
          BY <1>4, <3>1, <3>3, <4>2 DEF JobHolds
      <3> QED
        BY <1>4, <3>2, <3>3
    <2>2. CASE ~Granted(m)
      BY <1>4, <2>2, StopMoves DEF Answer
    <2> QED
      BY <2>1, <2>2
  <1>6. DesktopInv'
    BY <1>2, <1>3, <1>5, JobStepKeeps
       DEF IInv, Answer, DesktopInv, DesktopTypes
  <1> QED
    BY <1>2, <1>6 DEF IInv

(* The run is created, or found to be this claim's, or left alone.         *)
LEMMA SaveKeeps ==
  ASSUME IInv, NEW d \in Desktop, MaterializeClaimedWorkRequest(d)
  PROVE  IInv'
  <1>1. TeamInv' /\ Lasting /\ Confirmed /\ request' = request
        /\ tombstones' = tombstones
    BY TeamRestKeeps
       DEF IInv, MaterializeClaimedWorkRequest, Confirmed, teamVars, rowVars
  <1>2. /\ pc[d] = "saving" /\ DesktopOf[job[d].token] = d /\ DesktopTypes
        /\ job[d].version >= 1 /\ job[d].version \in 0..MaxVersion
        /\ job[d].token \in Token /\ Claimed(d, job[d].version)
    BY DEF IInv, DesktopInv, DesktopTypes, JobHolds, Job,
           MaterializeClaimedWorkRequest
  <1>3. UNCHANGED <<paired, spent, late>>
    BY DEF MaterializeClaimedWorkRequest
  <1>4. CASE Stop(d) /\ UNCHANGED binding
    BY <1>1, <1>2, <1>3, <1>4, StopMoves, JobStepKeeps
       DEF IInv, DesktopInv, DesktopTypes
  <1>5. CASE /\ Goto(d, "confirming", job[d].version) /\ ReplaysBinding(d)
             /\ UNCHANGED binding
    <2>1. OnlyJob(d) /\ JobHolds(d)'
      BY <1>1, <1>2, <1>5, GotoMoves
         DEF Label, JobHolds, Claimed, ReplaysBinding, BoundTo
    <2> QED
      BY <1>1, <1>3, <1>5, <2>1, JobStepKeeps
         DEF IInv, DesktopInv, DesktopTypes
  <1>6. CASE /\ binding[d] = NoBinding
             /\ binding' = [binding EXCEPT
                              ![d] = [version |-> job[d].version,
                                      user |-> UserOf[job[d].token],
                                      acknowledged |-> FALSE]]
             /\ Goto(d, "confirming", job[d].version)
    <2> DEFINE b == [version |-> job[d].version,
                     user |-> UserOf[job[d].token], acknowledged |-> FALSE]
    <2>1. b \in Binding
      BY <1>2, TokenTypes DEF Binding
    <2>2. /\ binding'[d] = b
          /\ \A e \in Desktop \ {d} : binding'[e] = binding[e]
          /\ binding' \in [Desktop -> Binding]
      BY <1>2, <1>6, <2>1 DEF DesktopTypes
    <2>3. /\ b.version = job[d].version /\ b.acknowledged = FALSE
          /\ b # NoBinding
      BY <1>2 DEF NoBinding
    <2>4. binding[d].version = 0
      BY <1>6 DEF NoBinding
    <2> HIDE DEF b
    <2>5. OnlyJob(d) /\ JobHolds(d)'
      BY <1>1, <1>2, <1>6, <2>2, <2>3, GotoMoves
         DEF Label, JobHolds, Claimed
    <2>6. DesktopTypes' /\ PairedHere'
      BY <1>2, <1>3, <2>2, <2>5
         DEF IInv, DesktopInv, DesktopTypes, OnlyJob, PairedHere
    <2>7. \A e \in Desktop : BindingHolds(e)' /\ JobHolds(e)'
      <3>1. BindingHolds(d)'
        BY <1>1, <1>2, <2>2, <2>3 DEF BindingHolds, Claimed
      <3>2. ASSUME NEW e \in Desktop, e # d
            PROVE  BindingHolds(e)' /\ JobHolds(e)'
        <4>1. /\ pc'[e] = pc[e] /\ job'[e] = job[e]
              /\ binding'[e] = binding[e]
          BY <2>2, <2>5, <3>2 DEF OnlyJob
        <4> QED
          BY <1>1, <1>2, <4>1, JobLasts, BindingLasts DEF IInv, DesktopInv
      <3> QED
        BY <2>5, <3>1, <3>2
    <2>8. \A m \in late' : Sound(m)'
      <3> SUFFICES ASSUME NEW m \in late
                   PROVE  Sound(m)'
        BY <1>3
      <3>1. Sound(m) /\ m \in Message
        BY DEF IInv, DesktopInv, DesktopTypes
      <3>2. DesktopOf[m.token] \in Desktop
        BY <3>1, TokenTypes DEF Message
      <3>3. CASE DesktopOf[m.token] # d
        BY <2>2, <3>1, <3>2, <3>3 DEF Sound
      <3>4. CASE DesktopOf[m.token] = d
        BY <1>6, <2>2, <2>3, <2>4, <3>1, <3>4 DEF Sound
      <3> QED
        BY <3>3, <3>4
    <2>9. MaterializedIsReal'
      <3>1. request.status = "materialized" => request.run # d
        <4> SUFFICES ASSUME request.status = "materialized", request.run = d
                     PROVE  FALSE
          OBVIOUS
        <4>1. binding[d].version = request.version - 1
          BY DEF IInv, DesktopInv, MaterializedIsReal
        <4>2. request.version = 1
          BY <2>4, <4>1, TeamAssumption DEF IInv, TeamInv, TeamTypes, Row
        <4> QED
          BY <4>2 DEF IInv, TeamInv, RowNamesClaimant
      <3>2. request.status = "materialized" => request.run \in Desktop
        BY TokenTypes DEF IInv, TeamInv, RowNamesClaimant
      <3> QED
        BY <1>1, <2>2, <2>3, <3>1, <3>2
           DEF IInv, DesktopInv, MaterializedIsReal
    <2> QED
      BY <1>1, <2>6, <2>7, <2>8, <2>9 DEF IInv, DesktopInv
  <1> QED
    BY <1>4, <1>5, <1>6, <1>1 DEF MaterializeClaimedWorkRequest, IInv

LEMMA AcknowledgeKeeps ==
  ASSUME IInv, NEW d \in Desktop, MarkAcknowledged(d)
  PROVE  IInv'
  <1>1. TeamInv' /\ Lasting /\ Confirmed /\ request' = request
        /\ tombstones' = tombstones
    BY TeamRestKeeps DEF IInv, MarkAcknowledged, Confirmed, teamVars, rowVars
  <1>2. /\ DesktopTypes /\ UNCHANGED <<paired, spent, late>>
        /\ request.status = "materialized" /\ request.run = d
    BY DEF IInv, DesktopInv, JobHolds, MarkAcknowledged
  <1>3. OnlyJob(d) /\ JobHolds(d)'
    BY <1>2, StopMoves DEF MarkAcknowledged
  <1>4. CASE UNCHANGED binding
    BY <1>1, <1>2, <1>3, <1>4, JobStepKeeps DEF IInv, DesktopInv, DesktopTypes
  <1>5. CASE /\ binding' = [binding EXCEPT ![d].acknowledged = TRUE]
             /\ binding[d].version + 1 = job[d].version
    <2>1. binding[d] \in Binding /\ job[d].version >= 1
          /\ job[d].version \in Nat
      BY TeamAssumption DEF IInv, DesktopInv, DesktopTypes, JobHolds, Job,
                            MarkAcknowledged
    <2>2. /\ binding' \in [Desktop -> Binding]
          /\ binding'[d].version = binding[d].version
          /\ \A e \in Desktop \ {d} : binding'[e] = binding[e]
      BY <1>2, <1>5, <2>1 DEF DesktopTypes, Binding
    <2>3. \A e \in Desktop : binding'[e].version = binding[e].version
      BY <2>2
    <2>4. binding[d] # NoBinding
      <3>1. binding[request.run].version = request.version - 1
        BY <1>2 DEF IInv, DesktopInv, MaterializedIsReal
      <3>2. request.version >= 2 /\ request.version \in Nat
        BY <1>2, TeamAssumption
           DEF IInv, TeamInv, TeamTypes, Row, RowNamesClaimant
      <3> QED
        BY <1>2, <3>1, <3>2 DEF NoBinding
    <2>5. \A e \in Desktop : BindingHolds(e)' /\ JobHolds(e)'
      <3>1. BindingHolds(d)'
        <4>1. binding[d].version \in Nat /\ binding[d].version >= 1
              /\ Claimed(d, binding[d].version)
          BY <2>1, <2>4, TeamAssumption
             DEF IInv, DesktopInv, BindingHolds, Binding
        <4> QED
          BY <1>1, <2>2, <4>1 DEF BindingHolds, Claimed
      <3>2. ASSUME NEW e \in Desktop, e # d
            PROVE  BindingHolds(e)' /\ JobHolds(e)'
        <4>1. /\ pc'[e] = pc[e] /\ job'[e] = job[e]
              /\ binding'[e] = binding[e]
          BY <1>3, <2>2, <3>2 DEF OnlyJob
        <4> QED
          BY <1>1, <1>2, <4>1, JobLasts, BindingLasts DEF IInv, DesktopInv
      <3> QED
        BY <1>3, <3>1, <3>2
    <2>6. \A m \in late' : Sound(m)'
      <3> SUFFICES ASSUME NEW m \in late
                   PROVE  Sound(m)'
        BY <1>2
      <3>1. Sound(m) /\ DesktopOf[m.token] \in Desktop
        BY TokenTypes DEF IInv, DesktopInv, DesktopTypes, Message
      <3>2. /\ binding'[DesktopOf[m.token]].version
                 = binding[DesktopOf[m.token]].version
            /\ binding[DesktopOf[m.token]] # NoBinding =>
                 binding'[DesktopOf[m.token]] # NoBinding
        <4>1. binding'[d] # NoBinding
          <5>1. binding'[d].version # 0
            BY <2>2, <2>4, <2>1, TeamAssumption
               DEF IInv, DesktopInv, BindingHolds, Binding
          <5> QED
            BY <5>1 DEF NoBinding
        <4> QED
          BY <2>2, <2>3, <3>1, <4>1
      <3> QED
        BY <3>1, <3>2 DEF Sound
    <2>7. MaterializedIsReal'
      BY <1>1, <1>2, <2>2, <2>3 DEF IInv, DesktopInv, MaterializedIsReal
    <2>8. DesktopTypes' /\ PairedHere'
      BY <1>2, <1>3, <2>2
         DEF IInv, DesktopInv, DesktopTypes, OnlyJob, PairedHere
    <2> QED
      BY <1>1, <2>5, <2>6, <2>7, <2>8 DEF IInv, DesktopInv
  <1> QED
    BY <1>1, <1>4, <1>5 DEF MarkAcknowledged, IInv

LEMMA InterruptKeeps ==
  ASSUME IInv, NEW d \in Desktop, Interrupt(d)
  PROVE  IInv'
  <1>1. TeamInv' /\ Lasting /\ Confirmed
    BY TeamRestKeeps DEF IInv, Interrupt, Confirmed
  <1>2. OnlyJob(d) /\ JobHolds(d)'
    BY StopMoves DEF Interrupt, IInv, DesktopInv
  <1>3. late' \subseteq Message /\ \A m \in late' : Sound(m)
    BY RequestIsSound
       DEF IInv, DesktopInv, DesktopTypes, Interrupt, OnTheWire
  <1>4. DesktopInv'
    BY <1>1, <1>2, <1>3, JobStepKeeps DEF IInv, Interrupt
  <1> QED
    BY <1>1, <1>4 DEF IInv

(* What is under way changes, and nothing else does.                       *)
LEMMA LateChangeKeeps ==
  ASSUME DesktopInv, Lasting, Confirmed,
         UNCHANGED <<paired, spent, binding, pc, job>>,
         late' \subseteq Message, \A m \in late' : Sound(m)
  PROVE  DesktopInv'
  <1>1. DesktopTypes' /\ PairedHere' /\ \A m \in late' : Sound(m)'
    BY DEF DesktopInv, DesktopTypes, PairedHere, Sound
  <1>2. \A d \in Desktop : BindingHolds(d)' /\ JobHolds(d)'
    BY JobLasts, BindingLasts DEF DesktopInv
  <1>3. MaterializedIsReal'
    BY RealLasts DEF DesktopInv
  <1> QED
    BY <1>1, <1>2, <1>3 DEF DesktopInv

LEMMA UploadSent ==
  ASSUME IInv, NEW d \in Desktop, Upload(d)
  PROVE  IInv'
  <1> DEFINE m == [op |-> "upload", token |-> paired[d], version |-> 0]
  <1>1. TeamInv' /\ Lasting /\ Confirmed
    BY TeamRestKeeps DEF IInv, Upload, Confirmed
  <1>2. paired[d] \in Token /\ DesktopOf[paired[d]] = d
    BY DEF IInv, DesktopInv, DesktopTypes, PairedHere, Upload
  <1>3. m \in Message /\ Sound(m)
    BY <1>2, TeamAssumption DEF Message, Sound, Upload
  <1>4. late' \subseteq late \union {m}
    BY DEF Upload, OnTheWire
  <1>5. late' \subseteq Message /\ \A x \in late' : Sound(x)
    BY <1>3, <1>4 DEF IInv, DesktopInv, DesktopTypes
  <1>6. DesktopInv'
    BY <1>1, <1>5, LateChangeKeeps DEF IInv, Upload
  <1> QED
    BY <1>1, <1>6 DEF IInv

LEMMA HandleLateKeeps ==
  ASSUME IInv, NEW m \in late, HandleLate(m)
  PROVE  IInv'
  <1>1. m \in Message /\ Sound(m) /\ DesktopOf[m.token] \in Desktop
    BY TokenTypes DEF IInv, DesktopInv, DesktopTypes, Message
  <1>2. m.op = "upload" => \E v \in Nat : Claimed(DesktopOf[m.token], v)
    <2> SUFFICES ASSUME m.op = "upload"
                 PROVE  \E v \in Nat : Claimed(DesktopOf[m.token], v)
      OBVIOUS
    <2>1. binding[DesktopOf[m.token]] # NoBinding
      BY <1>1 DEF Sound
    <2>2. binding[DesktopOf[m.token]].version \in Nat
      BY <1>1, TeamAssumption DEF IInv, DesktopInv, DesktopTypes, Binding
    <2> QED
      BY <1>1, <2>1, <2>2 DEF IInv, DesktopInv, BindingHolds
  <1>3. TeamInv' /\ Lasting /\ Confirms(m)
    BY <1>1, <1>2, HandledKeeps DEF IInv, HandleLate, Sound
  <1>4. Confirmed
    BY <1>1, <1>3, SoundConfirms DEF IInv, DesktopInv
  <1>5. late' \subseteq Message /\ \A x \in late' : Sound(x)
    BY DEF IInv, DesktopInv, DesktopTypes, HandleLate
  <1>6. DesktopInv'
    BY <1>3, <1>4, <1>5, LateChangeKeeps DEF IInv, HandleLate
  <1> QED
    BY <1>3, <1>6 DEF IInv

LEMMA PairKeeps ==
  ASSUME IInv, NEW t \in Token, PairDesktop(t)
  PROVE  IInv'
  <1>1. TeamInv' /\ Lasting /\ Confirmed
    BY TeamRestKeeps DEF IInv, PairDesktop, Confirmed
  <1>2. DesktopTypes' /\ PairedHere'
    BY TokenTypes
       DEF IInv, DesktopInv, DesktopTypes, PairedHere, PairDesktop
  <1>3. \A d \in Desktop : BindingHolds(d)' /\ JobHolds(d)'
    BY <1>1, JobLasts, BindingLasts DEF IInv, DesktopInv, PairDesktop
  <1>4. MaterializedIsReal'
    BY <1>1, RealLasts DEF IInv, DesktopInv, PairDesktop
  <1>5. \A m \in late' : Sound(m)'
    BY DEF IInv, DesktopInv, PairDesktop, Sound
  <1> QED
    BY <1>1, <1>2, <1>3, <1>4, <1>5 DEF IInv, DesktopInv

-----------------------------------------------------------------------------
(* The invariant holds in every reachable state.                           *)

LEMMA InitHolds ==
  ASSUME Init
  PROVE  IInv
  <1>1. TeamInv
    <2>1. request \in Row /\ request.status = "open"
          /\ request.token = None /\ request.run = None
      BY TeamAssumption DEF Init, TeamInit, Row, Status
    <2> QED
      BY <2>1 DEF Init, TeamInit, TeamInv, TeamTypes, RowNamesClaimant,
                  AnswersHold, OneAnswerPerKey, OnlyClaimedRunIsShown
  <1>2. NoBinding \in Binding /\ NoJob \in Job
    BY TeamAssumption DEF NoBinding, NoJob, Binding, Job
  <1>3. DesktopTypes /\ PairedHere
    BY <1>2, DesktopAssumption
       DEF Init, DesktopTypes, PairedHere, Label
  <1>4. \A d \in Desktop : BindingHolds(d) /\ JobHolds(d)
    BY DEF Init, BindingHolds, JobHolds
  <1>5. MaterializedIsReal
    BY DEF Init, TeamInit, MaterializedIsReal, NoBinding
  <1> QED
    BY <1>1, <1>3, <1>4, <1>5 DEF IInv, DesktopInv, Init

LEMMA StepKeeps ==
  ASSUME IInv, [Next]_vars
  PROVE  IInv'
  <1>1. CASE TeamStep
    <2>1. TeamInv' /\ Lasting /\ Confirmed
      BY <1>1, TeamStepKeeps DEF IInv, Confirmed
    <2>2. UNCHANGED desktopVars
      BY <1>1 DEF TeamStep
    <2> QED
      BY <2>1, <2>2, DesktopsUndisturbed DEF IInv
  <1>2. ASSUME NEW d \in Desktop, DesktopStep(d)
        PROVE  IInv'
    BY <1>2, BeginKeeps, ListKeeps, AnswerKeeps, SaveKeeps, AcknowledgeKeeps,
       InterruptKeeps, UploadSent DEF DesktopStep
  <1>3. CASE \E m \in late : HandleLate(m)
    BY <1>3, HandleLateKeeps
  <1>4. CASE \E t \in Token : PairDesktop(t)
    BY <1>4, PairKeeps
  <1>5. CASE UNCHANGED vars
    <2>1. TeamInv' /\ Lasting /\ Confirmed
      BY <1>5, TeamRestKeeps DEF IInv, vars, Confirmed
    <2>2. UNCHANGED desktopVars
      BY <1>5 DEF vars
    <2> QED
      BY <2>1, <2>2, DesktopsUndisturbed DEF IInv
  <1> QED
    BY <1>1, <1>2, <1>3, <1>4, <1>5 DEF Next

LEMMA Invariance == Spec => []IInv
  <1>1. Init => IInv
    BY InitHolds
  <1>2. IInv /\ [Next]_vars => IInv'
    BY StepKeeps
  <1> QED
    BY <1>1, <1>2, PTL DEF Spec

-----------------------------------------------------------------------------
(* The theorems.                                                           *)

(* Every variable has its type, and the row names a claimant exactly while *)
(* the request is claimed.                                                 *)
THEOREM TypeCorrect == Spec => []TypeOK
  <1>1. IInv => TypeOK
    BY DEF IInv, TeamInv, TeamTypes, DesktopInv, DesktopTypes, TypeOK
  <1> QED
    BY <1>1, Invariance, PTL

(* A run that a desktop has created from the request belongs to the        *)
(* present claim or to one the Team knows to be released, whoever competes *)
(* and whatever answer was lost.                                           *)
THEOREM OnlyWinnersCreate == Spec => []RunNeedsClaim
  <1>1. IInv => RunNeedsClaim
    <2> SUFFICES ASSUME IInv, NEW d \in Desktop, binding[d] # NoBinding
                 PROVE  \/ /\ request.run = d
                           /\ request.version - binding[d].version \in {0, 1}
                        \/ d \in tombstones
      BY DEF RunNeedsClaim
    <2>1. Claimed(d, binding[d].version)
      BY DEF IInv, DesktopInv, BindingHolds
    <2>2. binding[d].version \in Nat /\ request.version \in Nat
      BY TeamAssumption DEF IInv, DesktopInv, DesktopTypes, Binding, TeamInv,
                            TeamTypes, Row
    <2> QED
      BY <2>1, <2>2 DEF Claimed
  <1> QED
    BY <1>1, Invariance, PTL

(* The Team never takes in a run of the request other than its claimant's. *)
THEOREM OnlyTheClaimantIsShown == Spec => []OnlyClaimedRunIsShown
  BY Invariance, PTL DEF IInv, TeamInv

(* A materialized request has its run on the claimant's desktop, and what  *)
(* a desktop has noted as confirmed stays confirmed.                       *)
THEOREM MaterializedHasRun == Spec => []MaterializedIsReal
  BY Invariance, PTL DEF IInv, DesktopInv

(* The answer stored under an idempotency key never gets a rival.          *)
THEOREM AnsweredOnce == Spec => []OneAnswerPerKey
  BY Invariance, PTL DEF IInv, TeamInv
=============================================================================
