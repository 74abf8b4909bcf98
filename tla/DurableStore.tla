---------------------------- MODULE DurableStore ----------------------------
(***************************************************************************)
(* LocalStore's persistence: an SQLite database held in memory, one queue  *)
(* of durable mutations, a snapshot to go back to when one of them or its  *)
(* disk write fails, and a file that is replaced by renaming a complete    *)
(* image over it.  "Direct" methods read the memory at any moment.         *)
(*                                                                         *)
(* The content of a database is the number of rows it holds of every call. *)
(***************************************************************************)
EXTENDS Naturals, Sequences

CONSTANTS
  Call,         \* invocations of durable methods
  Parts,        \* how many rows each of them writes
  MaxCrashes    \* bound: how often the desktop dies

ASSUME PartsAssumption == Parts \in [Call -> Nat]
ASSUME CrashesAssumption == MaxCrashes \in Nat

VARIABLES
  queue,        \* Seq(Call): mutationQueue, the running call first
  phase,        \* where the running call is, "idle" when none runs
  mem,          \* the database in memory
  disk,         \* the database file
  temp,         \* the temporary file, once it is complete
  snapshot,     \* the memory as it was before the running call
  dirty,        \* durableMutationDirty
  outcome,      \* what became of each call
  revision,     \* persistedRevision
  sample,       \* a reader's earlier look: the revision and the file then
  crashes       \* crashes so far

memoryVars == <<mem, snapshot, dirty>>
fileVars == <<disk, temp>>
vars == <<queue, phase, memoryVars, fileVars, outcome, revision, sample,
          crashes>>

Content == {rows \in [Call -> Nat] : \A c \in Call : rows[c] <= Parts[c]}
Empty == [c \in Call |-> 0]
Running == Head(queue)

Init ==
  /\ queue = <<>>
  /\ phase = "idle"
  /\ mem = Empty
  /\ disk = Empty
  /\ temp = Empty
  /\ snapshot = Empty
  /\ dirty = FALSE
  /\ outcome = [c \in Call |-> "new"]
  /\ revision = 0
  /\ sample = [revision |-> 0, disk |-> Empty]
  /\ crashes = 0

-----------------------------------------------------------------------------
(* Calls.                                                                  *)

Invoke(c) ==
  /\ outcome[c] = "new"
  /\ outcome' = [outcome EXCEPT ![c] = "queued"]
  /\ queue' = Append(queue, c)
  /\ UNCHANGED <<phase, memoryVars, fileVars, revision, sample, crashes>>

(* Mutant: the queue waits for ever behind a call that threw.              *)
SettleUncaught(answer) ==
  /\ outcome' = [outcome EXCEPT ![Running] = answer]
  /\ queue' = Tail(queue)
  /\ phase' = IF answer = "rejected" THEN "stuck" ELSE "idle"

(* The running call is answered and the next one may start.                *)
Settle(answer) ==
  /\ outcome' = [outcome EXCEPT ![Running] = answer]
  /\ queue' = Tail(queue)
  /\ phase' = "idle"

(* Mutant: the snapshot is taken once per process instead of once per call.*)
BeginOnOldSnapshot ==
  /\ phase = "idle"
  /\ queue # <<>>
  /\ phase' = "mutating"
  /\ UNCHANGED <<queue, memoryVars, fileVars, outcome, revision, sample,
                 crashes>>

Begin ==
  /\ phase = "idle"
  /\ queue # <<>>
  /\ phase' = "mutating"
  /\ snapshot' = mem
  /\ UNCHANGED <<queue, mem, dirty, fileVars, outcome, revision, sample,
                 crashes>>

(* Mutant: inner methods publish the memory instead of marking it dirty.   *)
PublishAtOnce == dirty' = TRUE /\ disk' = mem' /\ UNCHANGED temp

(* A row is written and its persistence requested; with the call still     *)
(* running that only marks the memory dirty.                               *)
RequestPersist == dirty' = TRUE /\ UNCHANGED fileVars

Write ==
  /\ phase = "mutating"
  /\ mem[Running] < Parts[Running]
  /\ mem' = [mem EXCEPT ![Running] = @ + 1]
  /\ RequestPersist
  /\ UNCHANGED <<queue, phase, snapshot, outcome, revision, sample, crashes>>

(* Mutant: a failed disk write does not put the memory back.               *)
KeepMemory == UNCHANGED mem

Restore == mem' = snapshot

(* The method throws, or the disk write fails.                             *)
Fail ==
  /\ phase \in {"mutating", "persisting", "renaming"}
  /\ Restore
  /\ dirty' = FALSE
  /\ Settle("rejected")
  /\ UNCHANGED <<snapshot, fileVars, revision, sample, crashes>>

FinishClean ==
  /\ phase = "mutating"
  /\ mem[Running] = Parts[Running]
  /\ ~dirty
  /\ Settle("resolved")
  /\ UNCHANGED <<memoryVars, fileVars, revision, sample, crashes>>

(* Mutant: the disk write is started and not awaited.                      *)
FinishUnawaited ==
  /\ phase = "mutating"
  /\ mem[Running] = Parts[Running]
  /\ dirty
  /\ dirty' = FALSE
  /\ Settle("resolved")
  /\ UNCHANGED <<mem, snapshot, fileVars, revision, sample, crashes>>

FinishDirty ==
  /\ phase = "mutating"
  /\ mem[Running] = Parts[Running]
  /\ dirty
  /\ dirty' = FALSE
  /\ phase' = "persisting"
  /\ UNCHANGED <<queue, mem, snapshot, fileVars, outcome, revision, sample,
                 crashes>>

-----------------------------------------------------------------------------
(* persistDatabaseSnapshot.                                                *)

WriteTemporary ==
  /\ phase = "persisting"
  /\ phase' = "renaming"
  /\ temp' = mem
  /\ UNCHANGED <<queue, memoryVars, disk, outcome, revision, sample, crashes>>

Rename ==
  /\ phase = "renaming"
  /\ phase' = "renamed"
  /\ disk' = temp
  /\ UNCHANGED <<queue, memoryVars, temp, outcome, revision, sample, crashes>>

(* Mutant: the revision is not counted up after a write.                   *)
ReturnUncounted ==
  /\ phase = "renamed"
  /\ Settle("resolved")
  /\ UNCHANGED <<memoryVars, fileVars, revision, sample, crashes>>

Return ==
  /\ phase = "renamed"
  /\ revision' = revision + 1
  /\ Settle("resolved")
  /\ UNCHANGED <<memoryVars, fileVars, sample, crashes>>

-----------------------------------------------------------------------------
(* The rest of the process.                                                *)

(* A reader remembers the revision, to skip a broadcast if it stays.       *)
Sample ==
  /\ sample' = [revision |-> revision, disk |-> disk]
  /\ UNCHANGED <<queue, phase, memoryVars, fileVars, outcome, revision,
                 crashes>>

(* The process dies at any point and starts again from the file.           *)
Crash ==
  /\ crashes < MaxCrashes
  /\ crashes' = crashes + 1
  /\ queue' = <<>>
  /\ phase' = "idle"
  /\ mem' = disk
  /\ snapshot' = disk
  /\ dirty' = FALSE
  /\ outcome' = [c \in Call |->
                   IF outcome[c] = "queued" THEN "lost" ELSE outcome[c]]
  /\ revision' = 0
  /\ sample' = [revision |-> 0, disk |-> disk]
  /\ UNCHANGED fileVars

Work == Begin \/ Write \/ Fail \/ FinishClean \/ FinishDirty
          \/ WriteTemporary \/ Rename \/ Return

Next == Work \/ Sample \/ Crash \/ \E c \in Call : Invoke(c)

Spec == Init /\ [][Next]_vars

(* The promise chain and the file system get on; which way is open.        *)
FairSpec == Spec /\ WF_vars(Work)

-----------------------------------------------------------------------------
(* Properties.                                                             *)

(* Every variable has its shape: no call writes more rows than it has, and *)
(* a call runs exactly while it heads a queue of calls not yet answered.   *)
Phases == {"idle", "mutating", "persisting", "renaming", "renamed"}

TypeOK ==
  /\ queue \in Seq(Call)
  /\ \A i \in DOMAIN queue : outcome[queue[i]] = "queued"
  /\ phase \in Phases
  /\ phase = "idle" \/ queue # <<>>
  /\ {mem, disk, temp, snapshot, sample.disk} \subseteq Content
  /\ dirty \in BOOLEAN
  /\ outcome \in [Call -> {"new", "queued", "resolved", "rejected", "lost"}]
  /\ {revision, sample.revision, crashes} \subseteq Nat

(* Whatever the moment at which the process dies, the file holds every     *)
(* durable mutation completely or not at all, composite ones included.     *)
AllOrNothing == \A c \in Call : disk[c] \in {0, Parts[c]}

(* A call that resolved is in the file and stays there, past later calls   *)
(* that fail, snapshots that are put back, and crashes; one that was       *)
(* rejected left nothing, neither there nor in memory.                     *)
AnswersAreTrue ==
  \A c \in Call :
    /\ outcome[c] = "resolved" => disk[c] = Parts[c]
    /\ outcome[c] = "rejected" => disk[c] = 0 /\ mem[c] = 0

(* Direct methods read the memory without waiting for the queue: what they *)
(* may see and a crash or a failure may still take back is never more than *)
(* the rows of the one running call.                                       *)
AheadOnlyByRunning ==
  \A c \in Call :
    mem[c] # disk[c] =>
      /\ phase \in {"mutating", "persisting", "renaming"}
      /\ c = Running

(* As long as the revision stays what a reader found, so does the file,    *)
(* but for a rename whose call has not returned yet: the desktop skips the *)
(* broadcast of its state on that ground.                                  *)
RevisionTellsChange ==
  revision = sample.revision /\ phase # "renamed" => disk = sample.disk

(* LocalStore implements the atomic store: the renaming is the step that   *)
(* takes effect, everything before it is invisible to it.                  *)
AnswerOf(status) == IF status \in {"new", "queued"} THEN "none" ELSE status

Atomic == INSTANCE AtomicStore WITH
  content <- disk,
  answer <- [c \in Call |-> AnswerOf(outcome[c])]

ImplementsAtomicStore == Atomic!Spec

(* Every call comes to an end: a failing one does not hold up the queue.   *)
CallsEnd == \A c \in Call : outcome[c] = "queued" ~> outcome[c] # "queued"
=============================================================================
