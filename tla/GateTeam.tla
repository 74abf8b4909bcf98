------------------------------ MODULE GateTeam ------------------------------
(***************************************************************************)
(* The Team API's side of the Gate Command protocol: the gate_commands,    *)
(* gate_command_receipts and gate_command_acknowledgements tables and the  *)
(* repository operations on them.  A Gate Command is a Web approver's      *)
(* approve or reject decision on the gate a run currently stands at; the   *)
(* paired desktop leases it with a receipt, decides it against its own     *)
(* state and acknowledges the outcome.                                     *)
(*                                                                         *)
(* Each repository operation is one database transaction holding row or    *)
(* advisory locks, so it is one action here.  An attempt number names a    *)
(* receipt: receipts[c][k] is the k-th receipt of command c.               *)
(***************************************************************************)
EXTENDS Integers, Sequences

CONSTANTS
  Command,      \* gate commands a Web approver may ever request
  None,         \* SQL null
  TTL,          \* lifetime of a command, GATE_COMMAND_MAX_TTL_MS
  LeaseLength,  \* length of a receipt lease, GATE_COMMAND_RECEIPT_MAX_LEASE_MS
  Revocable,    \* bound: commands whose requester's membership may change
  MaxTime       \* bound: the Team clock stops here

ASSUME TimesAssumption ==
  /\ TTL \in Nat \ {0}
  /\ LeaseLength \in Nat \ {0}
  /\ MaxTime \in Nat

ASSUME RevocableAssumption == Revocable \subseteq Command

VARIABLES
  clock,        \* the Team server's clock
  cmd,          \* gate_commands
  receipts,     \* gate_command_receipts, by command and attempt
  teamAck,      \* gate_command_acknowledgements: what the desktop reported
  live,         \* commands whose requester is still a member with the role
  projection    \* workflow_runs row: the run as the Team last heard of it

teamVars == <<clock, cmd, receipts, teamAck, live, projection>>

-----------------------------------------------------------------------------
Action == {"approve", "reject"}
Active == {"pending", "delivering"}
Status == Active \union {"none", "refused", "applied", "rejected", "expired"}

(* The outcome codes a desktop may report.  "evidence_blocked" stands for  *)
(* every refusal by local material: stale_policy, blockers_changed,        *)
(* authorization_denied and evidence_blocked itself.                       *)
Outcome ==
  {"applied", "human_rejected", "evidence_blocked", "stale_run", "expired"}

(* A decision as the desktop stores and reports it, under which receipt,   *)
(* with the run's version before and after it.                             *)
Decisions == [attempt : Nat, outcome : Outcome, before : Nat, after : Nat,
              evaluatedAt : Int]

ASSUME NoneAssumption ==
  /\ None \notin Nat /\ None \notin Decisions
  /\ None \notin Outcome \union {"requester_revoked"}

NoCommand ==
  [status |-> "none", outcome |-> None, action |-> "reject",
   expected |-> 0, expiresAt |-> 0]

TeamInit ==
  /\ clock = 0
  /\ cmd = [c \in Command |-> NoCommand]
  /\ receipts = [c \in Command |-> <<>>]
  /\ teamAck = [c \in Command |-> None]
  /\ live = Command
  /\ projection = [version |-> 1, atGate |-> TRUE]

Commands == [status : Status, action : Action, expected : Nat, expiresAt : Nat,
             outcome : Outcome \union {None, "requester_revoked"}]
Receipts == [leasedAt : Nat, leaseExpires : Nat, ackedAt : Nat \union {None}]
RunStates == [version : Nat, atGate : BOOLEAN]

(* The Team's tables keep their shape.                                     *)
TeamTypeOK ==
  /\ clock \in Nat
  /\ cmd \in [Command -> Commands]
  /\ receipts \in [Command -> Seq(Receipts)]
  /\ teamAck \in [Command -> Decisions \union {None}]
  /\ live \subseteq Command
  /\ projection \in RunStates

-----------------------------------------------------------------------------
(* Expiry and revocation are lazy: every operation that meets such a       *)
(* command terminates it on the way.                                       *)

IsActive(c) == cmd[c].status \in Active
(* Mutant: the expiry sweep forgets to look at the status.                 *)
OverdueInAnyStatus(c) ==
  cmd[c].status # "none" /\ cmd[c].expiresAt <= clock

Overdue(c) == IsActive(c) /\ cmd[c].expiresAt <= clock
Disowned(c) == IsActive(c) /\ ~Overdue(c) /\ c \notin live
Deliverable(c) == IsActive(c) /\ ~Overdue(c) /\ c \in live

Expire(c) == [cmd[c] EXCEPT !.status = "expired", !.outcome = "expired"]
Revoke(c) ==
  [cmd[c] EXCEPT !.status = "rejected", !.outcome = "requester_revoked"]

(* Mutant: listing no longer expires commands.                             *)
RevokeObserved ==
  [c \in Command |-> IF Disowned(c) THEN Revoke(c) ELSE cmd[c]]

TerminalizeObserved ==
  [c \in Command |-> IF Overdue(c) THEN Expire(c)
                     ELSE IF Disowned(c) THEN Revoke(c)
                     ELSE cmd[c]]

(* Listing commands, for a Web page or for the desktop's inbox.            *)
ListGateCommands ==
  /\ cmd' = TerminalizeObserved
  /\ UNCHANGED <<clock, receipts, teamAck, live, projection>>

-----------------------------------------------------------------------------
(* Creating a command.  The snapshot it is bound to, the run version and   *)
(* the gate, is the tuple on which at most one command may be active.      *)

Rivals(v) == {d \in Command : IsActive(d) /\ cmd[d].expected = v}

ExpireTuple(v) ==
  [d \in Command |-> IF d \in Rivals(v) /\ Overdue(d) THEN Expire(d)
                     ELSE cmd[d]]

(* Mutant: the active-read looks for pending commands only.                *)
TupleHasNoPending(v) ==
  \A d \in Rivals(v) : Overdue(d) \/ cmd[d].status = "delivering"

TupleIsFree(v) == \A d \in Rivals(v) : Overdue(d)

(* The checks that precede the insert: the approver is a live member and   *)
(* the version and the node asked for are the projection's.                *)
CreateAllowed(c) ==
  /\ cmd[c].status = "none"
  /\ c \in live
  /\ projection.atGate
  /\ clock + TTL <= MaxTime             \* bound: every command can expire

CreateGateCommand(c, a) ==
  LET v == projection.version IN
  /\ CreateAllowed(c)
  /\ TupleIsFree(v)
  /\ cmd' = [ExpireTuple(v) EXCEPT
               ![c] = [status |-> "pending", outcome |-> None, action |-> a,
                       expected |-> v, expiresAt |-> clock + TTL]]
  /\ UNCHANGED <<clock, receipts, teamAck, live, projection>>

(* active_command_conflict: the refusal is stored under the idempotency    *)
(* key, so that key can never become a command.                            *)
RefuseActiveConflict(c) ==
  LET v == projection.version IN
  /\ CreateAllowed(c)
  /\ ~TupleIsFree(v)
  /\ cmd' = [ExpireTuple(v) EXCEPT ![c].status = "refused"]
  /\ UNCHANGED <<clock, receipts, teamAck, live, projection>>

(* stale_run, node_not_current or a preflight refusal, stored likewise.    *)
RefuseCreate(c) ==
  /\ cmd[c].status = "none"
  /\ cmd' = [cmd EXCEPT ![c].status = "refused"]
  /\ UNCHANGED <<clock, receipts, teamAck, live, projection>>

-----------------------------------------------------------------------------
(* Receipts: leases on a command, never longer than the command lives.     *)

LatestReceipt(c) == receipts[c][Len(receipts[c])]

(* Mutant: the lease is compared by its start, not its end.                *)
HasLeaseFromNow(c) ==
  /\ receipts[c] # <<>>
  /\ LatestReceipt(c).ackedAt = None
  /\ LatestReceipt(c).leasedAt >= clock

HasLease(c) ==
  /\ receipts[c] # <<>>
  /\ LatestReceipt(c).ackedAt = None
  /\ LatestReceipt(c).leaseExpires > clock

NewReceipt(c) ==
  [leasedAt |-> clock,
   leaseExpires |-> IF clock + LeaseLength < cmd[c].expiresAt
                    THEN clock + LeaseLength
                    ELSE cmd[c].expiresAt,
   ackedAt |-> None]

LeaseReceipt(c) ==
  /\ Deliverable(c)
  /\ teamAck[c] = None
  /\ ~HasLease(c)
  /\ cmd' = [cmd EXCEPT ![c].status = "delivering"]
  /\ receipts' = [receipts EXCEPT ![c] = Append(@, NewReceipt(c))]
  /\ UNCHANGED <<clock, teamAck, live, projection>>

ReplayReceipt(c) ==
  /\ Deliverable(c)
  /\ teamAck[c] = None
  /\ HasLease(c)
  /\ UNCHANGED teamVars

RefuseReceipt(c) ==
  /\ \/ ~Deliverable(c)
     \/ teamAck[c] # None
  /\ cmd' = [cmd EXCEPT ![c] = IF Overdue(c) THEN Expire(c)
                               ELSE IF Disowned(c) THEN Revoke(c)
                               ELSE @]
  /\ UNCHANGED <<clock, receipts, teamAck, live, projection>>

CreateGateCommandReceipt(c) ==
  \/ LeaseReceipt(c)
  \/ ReplayReceipt(c)
  \/ RefuseReceipt(c)

-----------------------------------------------------------------------------
(* Acknowledgements: ack is what the desktop decided, under receipt        *)
(* receipts[c][ack.attempt].                                               *)

WellFormed(c, ack) ==
  /\ (ack.outcome = "stale_run") <=> (ack.before # cmd[c].expected)
  /\ ack.outcome = "applied" => cmd[c].action = "approve"
  /\ ack.outcome = "human_rejected" => cmd[c].action = "reject"

(* The decision was taken under the lease and before the command expired,  *)
(* give or take a desktop clock ahead of ours by at most one lease; an     *)
(* "expired" decision is believed only once our own clock agrees.          *)
InWindow(c, ack) ==
  LET r == receipts[c][ack.attempt] IN
  /\ ack.evaluatedAt >= r.leasedAt
  /\ IF ack.outcome = "expired"
     THEN cmd[c].expiresAt <= ack.evaluatedAt /\ ack.evaluatedAt <= clock
     ELSE /\ ack.evaluatedAt < r.leaseExpires
          /\ ack.evaluatedAt < cmd[c].expiresAt
          /\ ack.evaluatedAt <= clock + (r.leaseExpires - r.leasedAt)

(* Mutant: any command may still be acknowledged.                          *)
AcceptableInAnyStatus(c, ack) ==
  /\ WellFormed(c, ack)
  /\ teamAck[c] = None
  /\ receipts[c][ack.attempt].ackedAt = None
  /\ InWindow(c, ack)

(* Mutant: no acknowledgement counts once the command has expired.         *)
AcceptableWhileDelivering(c, ack) ==
  /\ AcceptableInAnyStatus(c, ack)
  /\ cmd[c].status = "delivering"

Acceptable(c, ack) ==
  /\ WellFormed(c, ack)
  /\ teamAck[c] = None
  /\ receipts[c][ack.attempt].ackedAt = None
  /\ cmd[c].status \in {"delivering", "expired"}
  /\ InWindow(c, ack)

Repeated(c, ack) == WellFormed(c, ack) /\ teamAck[c] = ack

TerminalStatus(outcome) ==
  CASE outcome \in {"applied", "human_rejected"} -> "applied"
    [] outcome = "expired" -> "expired"
    [] OTHER -> "rejected"

AcceptAck(c, ack) ==
  /\ Acceptable(c, ack)
  /\ cmd' = [cmd EXCEPT ![c].status = TerminalStatus(ack.outcome),
                        ![c].outcome = ack.outcome]
  /\ teamAck' = [teamAck EXCEPT ![c] = ack]
  /\ receipts' = [receipts EXCEPT ![c][ack.attempt].ackedAt = clock]
  /\ UNCHANGED <<clock, live, projection>>

ReplayOrRefuseAck(c, ack) ==
  /\ ~Acceptable(c, ack)
  /\ UNCHANGED teamVars

AcknowledgeGateCommand(c, ack) ==
  \/ AcceptAck(c, ack)
  \/ ReplayOrRefuseAck(c, ack)

-----------------------------------------------------------------------------
(* What else moves the Team's tables.                                      *)

(* An administrator removes or demotes a requester, or reinstates them.    *)
ChangeMembership(c) ==
  /\ c \in Revocable
  /\ live' = IF c \in live THEN live \ {c} ELSE live \union {c}
  /\ UNCHANGED <<clock, cmd, receipts, teamAck, projection>>

(* A desktop's run summary reaches the Team: only a newer version counts.  *)
UploadRunSummary(summary) ==
  /\ summary.version > projection.version
  /\ projection' = summary
  /\ UNCHANGED <<clock, cmd, receipts, teamAck, live>>

Tick ==
  /\ clock < MaxTime
  /\ clock' = clock + 1
  /\ UNCHANGED <<cmd, receipts, teamAck, live, projection>>
=============================================================================
