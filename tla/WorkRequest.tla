---------------------------- MODULE WorkRequest ----------------------------
(***************************************************************************)
(* A work request on its way to becoming a local run: desktops list it,    *)
(* claim it, create the run together with its binding in one LocalStore    *)
(* transaction, confirm that to the Team and note the confirmation.  They  *)
(* compete, time out, die and are paired anew; leads release claims; what  *)
(* was sent may be handled late or never.                                  *)
(***************************************************************************)
EXTENDS WorkRequestTeam, FiniteSets

CONSTANTS
  FirstPaired,  \* [Desktop -> Token]: how the desktops are paired at first
  MaxLate       \* bound: requests under way that nobody waits for

ASSUME DesktopAssumption ==
  /\ FirstPaired \in [Desktop -> Token]
  /\ \A d \in Desktop : DesktopOf[FirstPaired[d]] = d
  /\ MaxLate \in Nat

VARIABLES
  paired,   \* [Desktop -> Token \union {None}]
  spent,    \* tokens that have been handed out
  binding,  \* [Desktop -> Binding]: the run and what it is bound to
  pc,       \* [Desktop -> Label]: where the materialization is
  job,      \* [Desktop -> Job]: the token it froze, the version it is at
  late      \* requests nobody waits for any more, and uploads of the run

desktopVars == <<paired, spent, binding, pc, job, late>>
vars == <<teamVars, desktopVars>>

Label == {"idle", "listing", "claiming", "saving", "confirming",
          "acknowledging"}
Binding == [version : 0..MaxVersion, user : User \union {None},
            acknowledged : BOOLEAN]
NoBinding == [version |-> 0, user |-> None, acknowledged |-> FALSE]
Job == [token : Token \union {None}, version : 0..MaxVersion]
NoJob == [token |-> None, version |-> 0]

Init ==
  /\ TeamInit
  /\ paired = FirstPaired
  /\ spent = {FirstPaired[d] : d \in Desktop}
  /\ binding = [d \in Desktop |-> NoBinding]
  /\ pc = [d \in Desktop |-> "idle"]
  /\ job = [d \in Desktop |-> NoJob]
  /\ late = {}

-----------------------------------------------------------------------------
(* The materialization of the request on desktop d.                        *)

Goto(d, label, version) ==
  /\ pc' = [pc EXCEPT ![d] = label]
  /\ job' = [job EXCEPT ![d].version = version]

Stop(d) ==
  /\ pc' = [pc EXCEPT ![d] = "idle"]
  /\ job' = [job EXCEPT ![d] = NoJob]

(* The pairing is read once and frozen.                                    *)
Begin(d) ==
  /\ pc[d] = "idle"
  /\ paired[d] # None
  /\ pc' = [pc EXCEPT ![d] = "listing"]
  /\ job' = [job EXCEPT ![d].token = paired[d]]
  /\ UNCHANGED <<teamVars, paired, spent, binding, late>>

(* Does the LocalStore hold the run of this very claim?                    *)
BoundTo(d, version) ==
  binding[d].version = version /\ binding[d].user = UserOf[job[d].token]

(* Mutant: the run is created before the Team has granted the claim.       *)
ListAndSave(d) ==
  /\ pc[d] = "listing"
  /\ IF Visible(job[d].token) /\ request.status # "materialized"
     THEN Goto(d, "saving", request.version)
     ELSE Stop(d)
  /\ UNCHANGED <<teamVars, paired, spent, binding, late>>

ListWorkRequests(d) ==
  /\ pc[d] = "listing"
  /\ CASE ~Visible(job[d].token) -> Stop(d)
       [] Visible(job[d].token) /\ request.status = "open" ->
            Goto(d, "claiming", request.version)
       [] Visible(job[d].token) /\ request.status = "claim_pending" ->
            Goto(d, "saving", request.version)
       [] Visible(job[d].token) /\ request.status = "materialized" ->
            IF BoundTo(d, request.version - 1) /\ ~binding[d].acknowledged
            THEN Goto(d, "acknowledging", request.version)
            ELSE Stop(d)
  /\ UNCHANGED <<teamVars, paired, spent, binding, late>>

Request(d) ==
  [op |-> IF pc[d] = "claiming" THEN "claim" ELSE "materialize",
   token |-> job[d].token, version |-> job[d].version]

Awaiting(d) == pc[d] \in {"claiming", "confirming"}

(* The Team's answer to a claim or a confirmation.                         *)
Answer(d) ==
  /\ Awaiting(d)
  /\ TeamHandles(Request(d))
  /\ IF Granted(Request(d))
     THEN Goto(d, IF pc[d] = "claiming" THEN "saving" ELSE "acknowledging",
               job[d].version + 1)
     ELSE Stop(d)
  /\ UNCHANGED <<paired, spent, binding, late>>

(* Mutant: the run of an earlier claim is taken for this one's.            *)
ReplayAnyBinding(d) == TRUE

ReplaysBinding(d) == BoundTo(d, job[d].version)

(* The pairing is looked at once more; a run that is there already must be *)
(* this claim's.                                                           *)
MaterializeClaimedWorkRequest(d) ==
  /\ pc[d] = "saving"
  /\ IF paired[d] # job[d].token
     THEN Stop(d) /\ UNCHANGED binding
     ELSE IF binding[d] = NoBinding
     THEN /\ binding' = [binding EXCEPT
                           ![d] = [version |-> job[d].version,
                                   user |-> UserOf[job[d].token],
                                   acknowledged |-> FALSE]]
          /\ Goto(d, "confirming", job[d].version)
     ELSE /\ IF ReplaysBinding(d)
             THEN Goto(d, "confirming", job[d].version)
             ELSE Stop(d)
          /\ UNCHANGED binding
  /\ UNCHANGED <<teamVars, paired, spent, late>>

(* Mutant: the confirmation counts as given when it has been sent.         *)
AcknowledgeOnceSent(d) ==
  /\ pc[d] \in {"confirming", "acknowledging"}
  /\ binding' = [binding EXCEPT ![d].acknowledged = TRUE]
  /\ Stop(d)
  /\ UNCHANGED <<teamVars, paired, spent, late>>

MarkAcknowledged(d) ==
  /\ pc[d] = "acknowledging"
  /\ binding' = IF /\ paired[d] = job[d].token
                   /\ binding[d].version + 1 = job[d].version
                THEN [binding EXCEPT ![d].acknowledged = TRUE]
                ELSE binding
  /\ Stop(d)
  /\ UNCHANGED <<teamVars, paired, spent, late>>

-----------------------------------------------------------------------------
(* Time-outs, crashes, late requests, uploads and pairings.                *)

(* What is too much for the bound is lost.                                 *)
OnTheWire(m) ==
  IF Cardinality(late) < MaxLate THEN late \union {m} ELSE late

(* The time limit runs out or the desktop dies: the request sent may still *)
(* be handled.                                                             *)
Interrupt(d) ==
  /\ pc[d] # "idle"
  /\ late' = IF Awaiting(d) THEN OnTheWire(Request(d)) ELSE late
  /\ Stop(d)
  /\ UNCHANGED <<teamVars, paired, spent, binding>>

(* The outbox uploads the run with the credential of the moment.           *)
Upload(d) ==
  /\ binding[d] # NoBinding
  /\ paired[d] # None
  /\ late' = OnTheWire([op |-> "upload", token |-> paired[d], version |-> 0])
  /\ UNCHANGED <<teamVars, paired, spent, binding, pc, job>>

HandleLate(m) ==
  /\ TeamHandles(m)
  /\ late' = late \ {m}
  /\ UNCHANGED <<paired, spent, binding, pc, job>>

PairDesktop(t) ==
  /\ t \in live \ spent
  /\ spent' = spent \union {t}
  /\ paired' = [paired EXCEPT ![DesktopOf[t]] = t]
  /\ UNCHANGED <<teamVars, binding, pc, job, late>>

DesktopStep(d) ==
  \/ Begin(d) \/ ListWorkRequests(d) \/ Answer(d)
  \/ MaterializeClaimedWorkRequest(d) \/ MarkAcknowledged(d)
  \/ Interrupt(d) \/ Upload(d)

TeamStep ==
  /\ \/ ReleaseWorkRequest \/ Lapse
     \/ \E d \in Desktop : DeleteRun(d)
     \/ \E t \in Token : RevokeDesktopToken(t)
     \/ \E u \in User : ChangeAccess(u)
  /\ UNCHANGED desktopVars

Next ==
  \/ TeamStep
  \/ \E d \in Desktop : DesktopStep(d)
  \/ \E m \in late : HandleLate(m)
  \/ \E t \in Token : PairDesktop(t)

Spec == Init /\ [][Next]_vars

-----------------------------------------------------------------------------
(* Properties.                                                             *)

(* Every variable has its type, and the row of the request names a         *)
(* claimant exactly while it is claimed.                                   *)
TypeOK ==
  /\ request \in Row
  /\ request.status \in {"open", "expired"}
       <=> request.token = None /\ request.run = None
  /\ tombstones \subseteq Desktop
  /\ projections \subseteq Desktop
  /\ overdue \in BOOLEAN
  /\ answers \subseteq AnswerType
  /\ live \subseteq Token
  /\ members \subseteq User
  /\ paired \in [Desktop -> Token \union {None}]
  /\ spent \subseteq Token
  /\ binding \in [Desktop -> Binding]
  /\ pc \in [Desktop -> Label]
  /\ job \in [Desktop -> Job]
  /\ \A d \in Desktop : pc[d] # "idle" => job[d].token \in Token
  /\ late \subseteq Message

(* No desktop makes a run of a request it was not granted: a local run     *)
(* belongs to the present claim, or to one the Team knows to be released.  *)
(* Of several desktops that compete, the losers create nothing.            *)
RunNeedsClaim ==
  \A d \in Desktop :
    binding[d] # NoBinding =>
      \/ request.run = d /\ request.version - binding[d].version \in {0, 1}
      \/ d \in tombstones

(* The Team never shows a run of the request other than its claimant's:    *)
(* not one of a released claim whose upload comes late, nor one of a       *)
(* desktop that lost.                                                      *)
OnlyClaimedRunIsShown == projections \subseteq {request.run}

(* A request is materialized only by a desktop that holds the run, and a   *)
(* desktop that has noted the confirmation is not deprived of the request. *)
MaterializedIsReal ==
  /\ request.status = "materialized" =>
       binding[request.run].version = request.version - 1
  /\ \A d \in Desktop :
       binding[d].acknowledged =>
         request.status = "materialized" /\ request.run = d

(* A request is asked for and answered once: no user of a desktop is told  *)
(* both that the desktop has won a version and that it has lost it.        *)
OneAnswerPerKey ==
  \A a, b \in answers : a.key = b.key => a = b
=============================================================================
