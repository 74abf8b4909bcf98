----------------------------- MODULE OutboxStore ----------------------------
(***************************************************************************)
(* The remote sync outbox in LocalStore: one operation per run and per     *)
(* piece of evidence or runtime state that hangs on it, written in the     *)
(* same transaction as the entity itself.  An operation holds no payload;  *)
(* what is sent is read from the entity when it is sent.                   *)
(*                                                                         *)
(* One workflow run with its children; the desktop may be paired with a    *)
(* Team project for this local project, for another one, or not at all.    *)
(* Times are abstract: an operation waits for its back-off or its lease.   *)
(***************************************************************************)
EXTENDS Naturals

CONSTANTS
  Run,          \* the workflow run
  Evidence,     \* its test, review and coding summaries
  Runtimes,     \* its agent runtime and coordination summaries
  Team,         \* the Team projects the desktop can be paired with
  None,         \* no Team project
  Elsewhere,    \* paired, for another local project
  FirstPairing, \* the pairing at the start
  MaxVersion,   \* bound: how often an entity is saved
  MaxRetries    \* bound: how often the user retries an operation by hand

Entity == {Run} \union Evidence \union Runtimes
Scope == Team \union {None}
Pairing == Scope \union {Elsewhere}

ASSUME EntitiesAssumption ==
  /\ Run \notin Evidence \union Runtimes
  /\ Evidence \intersect Runtimes = {}
ASSUME PairingAssumption ==
  /\ None \notin Team
  /\ Elsewhere \notin Scope
  /\ FirstPairing \in Pairing
ASSUME BoundsAssumption == MaxVersion \in Nat /\ MaxRetries \in Nat

VARIABLES
  version,      \* [Entity -> Nat]: the saved version, 0 before the first
  authority,    \* [Runtimes -> Nat]: the run's version they act under
  alive,        \* the run has not been deleted
  op,           \* [Entity -> Operation]: remote_sync_outbox
  pairing,      \* the pairing credential
  retries       \* manual retries so far

entityVars == <<version, authority, alive>>
storeVars == <<entityVars, op, pairing, retries>>

Status == {"absent", "pending", "sending", "retry-scheduled", "completed",
           "terminal"}
Code == {"none", "pairing_required", "scope_mismatch", "conflict",
         "canonical_run_required", "max_attempts", "network", "unauthorized",
         "entity_missing"}
Operation == [status : Status, generation : Nat, attempts : Nat,
              scope : Scope, code : Code, waiting : BOOLEAN]

NoOperation == [status |-> "absent", generation |-> 0, attempts |-> 0,
                scope |-> None, code |-> "none", waiting |-> FALSE]

StoreInit ==
  /\ version = [e \in Entity |-> 0]
  /\ authority = [e \in Runtimes |-> 0]
  /\ alive = TRUE
  /\ op = [e \in Entity |-> NoOperation]
  /\ pairing = FirstPairing
  /\ retries = 0

-----------------------------------------------------------------------------
(* Writing an operation.                                                   *)

Anew(o) ==
  [o EXCEPT !.status = "pending", !.generation = @ + 1, !.attempts = 0,
            !.code = "none", !.waiting = FALSE]

Ended(o, code) ==
  [o EXCEPT !.status = "terminal", !.code = code, !.waiting = FALSE]

Bound == IF pairing \in Team THEN pairing ELSE None

(* Mutant: an operation takes the scope of the latest pairing.             *)
EnqueuedInNewScope(o) ==
  [Anew(o) EXCEPT !.scope = IF Bound = None THEN @ ELSE Bound]

(* Saved again: one more generation of the same operation, unless it is    *)
(* bound to another Team project than the desktop is paired with now.      *)
Enqueued(o) ==
  IF o.scope # None /\ Bound # None /\ o.scope # Bound
  THEN [Ended(o, "scope_mismatch") EXCEPT !.generation = @ + 1]
  ELSE [Anew(o) EXCEPT !.scope = IF @ = None THEN Bound ELSE @]

(* A run exists before its children.  Runtimes act for one Team project,   *)
(* the one paired when they began, and under one version of the run.       *)
Savable(e) ==
  /\ alive
  /\ version[e] < MaxVersion
  /\ e # Run => version[Run] > 0
  /\ e \in Runtimes =>
       /\ pairing \in Team
       /\ version[e] > 0 => /\ pairing = op[e].scope
                            /\ authority[e] = version[Run]

Save(e) ==
  /\ Savable(e)
  /\ version' = [version EXCEPT ![e] = @ + 1]
  /\ authority' = IF e \in Runtimes
                  THEN [authority EXCEPT ![e] = version[Run]]
                  ELSE authority
  /\ op' = [op EXCEPT ![e] = Enqueued(@)]
  /\ UNCHANGED <<alive, pairing, retries>>

DeleteRun ==
  /\ alive
  /\ version[Run] > 0
  /\ \A e \in Runtimes : version[e] = 0
  /\ alive' = FALSE
  /\ op' = [e \in Entity |-> NoOperation]
  /\ UNCHANGED <<version, authority, pairing, retries>>

RetryRemoteSyncOperation(e) ==
  /\ op[e].status = "terminal"
  /\ retries < MaxRetries
  /\ retries' = retries + 1
  /\ op' = [op EXCEPT ![e] = Anew(@)]
  /\ UNCHANGED <<entityVars, pairing>>

-----------------------------------------------------------------------------
(* The processor's transactions.                                           *)

Claimable(e) ==
  /\ op[e].status \in {"pending", "retry-scheduled"}
  /\ ~op[e].waiting

Claimed(o) ==
  [o EXCEPT !.status = "sending", !.attempts = @ + 1, !.waiting = TRUE]

Interrupted(o) == o.status = "sending" /\ ~o.waiting

(* The attempts of an interrupted operation stay counted.                  *)
Recovered(o) ==
  IF Interrupted(o) THEN [Anew(o) EXCEPT !.attempts = o.attempts,
                                         !.code = o.code]
                    ELSE o

(* Mutant: a result is applied whatever has been saved in the meantime.    *)
HeldInAnyGeneration(e, generation) ==
  op[e].status \in {"sending", "pending"}

(* The operation is still the one that was claimed.                        *)
Held(e, generation) ==
  /\ op[e].status = "sending"
  /\ op[e].generation = generation

(* Mutant: the back-off of an operation never passes.                      *)
LeaseRunsOut(e) ==
  /\ op[e].waiting
  /\ op[e].status = "sending"
  /\ op' = [op EXCEPT ![e].waiting = FALSE]
  /\ UNCHANGED <<entityVars, pairing, retries>>

(* The back-off or the lease of an operation runs out.                     *)
TimePasses(e) ==
  /\ op[e].waiting
  /\ op' = [op EXCEPT ![e].waiting = FALSE]
  /\ UNCHANGED <<entityVars, pairing, retries>>

-----------------------------------------------------------------------------
(* Pairing: the credential is saved first, then the operations that ended  *)
(* for want of one are put back.                                           *)

SavePairing(p) ==
  /\ pairing' = p
  /\ UNCHANGED <<entityVars, op, retries>>

Unbound(o) == o.status # "absent" /\ o.scope = None

Requeued(o) ==
  IF Unbound(o) /\ o.status = "terminal" /\ o.code = "pairing_required"
  THEN Anew(o) ELSE o
=============================================================================
