------------------------- MODULE DurableStoreProofs -------------------------
(***************************************************************************)
(* Proofs about LocalStore's persistence, for any calls, any number of     *)
(* rows each of them writes and any number of crashes.                     *)
(***************************************************************************)
EXTENDS DurableStore, TLAPS

-----------------------------------------------------------------------------
(* The inductive invariant.                                                *)

(* No call waits twice.                                                    *)
QueueDistinct ==
  \A i, j \in DOMAIN queue : queue[i] = queue[j] => i = j

(* How the memory, the snapshot, the temporary file and the file relate    *)
(* at each phase of the running call.                                      *)
PhaseLinks ==
  /\ phase = "idle" => mem = disk
  /\ phase \in {"mutating", "persisting", "renaming"} =>
       /\ snapshot = disk
       /\ disk[Running] = 0
       /\ \A c \in Call \ {Running} : mem[c] = disk[c]
  /\ dirty <=> phase = "mutating" /\ mem[Running] # 0
  /\ phase \in {"persisting", "renaming", "renamed"} =>
       mem[Running] = Parts[Running]
  /\ phase = "renaming" => temp = mem
  /\ phase = "renamed" => disk = mem

(* What the file holds of each call, by what became of the call.           *)
FileLinks ==
  \A c \in Call :
    /\ outcome[c] \in {"new", "rejected"} => disk[c] = 0
    /\ outcome[c] = "queued" =>
         disk[c] = 0 \/ (phase = "renamed" /\ c = Running)
    /\ outcome[c] = "resolved" => disk[c] = Parts[c]
    /\ outcome[c] = "lost" => disk[c] \in {0, Parts[c]}

(* A sample is never ahead of the revision.                                *)
SampleLinks ==
  /\ sample.revision <= revision
  /\ RevisionTellsChange

IInv == TypeOK /\ QueueDistinct /\ PhaseLinks /\ FileLinks /\ SampleLinks

-----------------------------------------------------------------------------
(* The invariant holds initially and every action keeps it.                *)

LEMMA EmptyIsContent == Empty \in Content
  BY PartsAssumption DEF Empty, Content

LEMMA InitHolds == Init => IInv
<1> SUFFICES ASSUME Init PROVE IInv
  OBVIOUS
<1>1. TypeOK
  <2>1. queue \in Seq(Call) /\ \A i \in DOMAIN queue : outcome[queue[i]] = "queued"
    BY DEF Init
  <2>2. {mem, disk, temp, snapshot, sample.disk} \subseteq Content
    BY EmptyIsContent DEF Init
  <2>3. /\ outcome \in [Call -> {"new", "queued", "resolved", "rejected", "lost"}]
        /\ {revision, sample.revision, crashes} \subseteq Nat
    BY DEF Init
  <2> QED
    BY <2>1, <2>2, <2>3 DEF Init, TypeOK, Phases
<1>2. QueueDistinct /\ PhaseLinks /\ FileLinks /\ SampleLinks
  BY DEF Init, QueueDistinct, PhaseLinks, FileLinks, SampleLinks,
         RevisionTellsChange, Empty
<1> QED
  BY <1>1, <1>2 DEF IInv

(* What the queue looks like once its first call has been answered.        *)
LEMMA TailOfQueue ==
  ASSUME queue \in Seq(Call), queue # <<>>, QueueDistinct
  PROVE  /\ Running \in Call
         /\ Tail(queue) \in Seq(Call)
         /\ \A i \in DOMAIN Tail(queue) :
              /\ i + 1 \in DOMAIN queue
              /\ Tail(queue)[i] = queue[i + 1]
              /\ Tail(queue)[i] # Running
         /\ \A i, j \in DOMAIN Tail(queue) :
              Tail(queue)[i] = Tail(queue)[j] => i = j
<1>1. Running \in Call /\ Tail(queue) \in Seq(Call)
  BY DEF Running
<1>2. \A i \in DOMAIN Tail(queue) :
        i \in Nat /\ i + 1 \in DOMAIN queue /\ Tail(queue)[i] = queue[i + 1]
  OBVIOUS
<1>3. Running = queue[1] /\ 1 \in DOMAIN queue
  BY DEF Running
<1>4. \A i \in DOMAIN Tail(queue) : Tail(queue)[i] # Running
  BY <1>2, <1>3 DEF QueueDistinct
<1>5. \A i, j \in DOMAIN Tail(queue) :
        Tail(queue)[i] = Tail(queue)[j] => i = j
  <2> SUFFICES ASSUME NEW i \in DOMAIN Tail(queue),
                      NEW j \in DOMAIN Tail(queue),
                      Tail(queue)[i] = Tail(queue)[j]
               PROVE  i = j
    OBVIOUS
  <2>1. i + 1 = j + 1
    BY <1>2 DEF QueueDistinct
  <2> QED
    BY <1>2, <2>1
<1> QED
  BY <1>1, <1>2, <1>4, <1>5

(* Answering the running call keeps the queue and the outcomes in step.    *)
LEMMA SettleKeepsQueue ==
  ASSUME TypeOK, QueueDistinct, queue # <<>>,
         NEW a \in {"resolved", "rejected"}, Settle(a)
  PROVE  /\ QueueDistinct'
         /\ queue' \in Seq(Call)
         /\ \A i \in DOMAIN queue' : outcome'[queue'[i]] = "queued"
         /\ outcome' \in [Call -> {"new", "queued", "resolved", "rejected",
                                   "lost"}]
         /\ phase' = "idle"
         /\ Running \in Call
         /\ outcome[Running] = "queued"
         /\ outcome'[Running] = a
         /\ \A c \in Call \ {Running} : outcome'[c] = outcome[c]
<1>1. queue \in Seq(Call) /\ queue' = Tail(queue)
  BY DEF TypeOK, Settle
<1>2. outcome[Running] = "queued"
  BY <1>1 DEF TypeOK, Running
<1>3. /\ Running \in Call
      /\ outcome'[Running] = a
      /\ \A c \in Call \ {Running} : outcome'[c] = outcome[c]
      /\ outcome' \in [Call -> {"new", "queued", "resolved", "rejected",
                                "lost"}]
  BY <1>1, TailOfQueue DEF TypeOK, Settle
<1>4. \A i \in DOMAIN queue' : queue'[i] \in Call
  BY <1>1, TailOfQueue
<1>5. \A i \in DOMAIN queue' : outcome'[queue'[i]] = "queued"
  BY <1>1, <1>3, <1>4, TailOfQueue DEF TypeOK
<1>6. QueueDistinct' /\ queue' \in Seq(Call)
  BY <1>1, TailOfQueue DEF QueueDistinct
<1> QED
  BY <1>2, <1>3, <1>5, <1>6 DEF Settle

-----------------------------------------------------------------------------
LEMMA InvokeStep ==
  ASSUME IInv, NEW c \in Call, Invoke(c)
  PROVE  IInv'
<1>1. queue \in Seq(Call) /\ queue' = Append(queue, c) /\ queue' \in Seq(Call)
  BY DEF IInv, TypeOK, Invoke
<1>2. \A i \in DOMAIN queue' :
        \/ i \in DOMAIN queue /\ queue'[i] = queue[i]
        \/ i = Len(queue) + 1 /\ queue'[i] = c
  BY <1>1
<1>3. \A i \in DOMAIN queue : queue[i] # c
  BY DEF IInv, TypeOK, Invoke
<1>4. queue # <<>> => Running' = Running
  BY <1>1 DEF Running
<1>5. QueueDistinct'
  BY <1>2, <1>3 DEF IInv, QueueDistinct
<1>6. \A i \in DOMAIN queue' : outcome'[queue'[i]] = "queued"
  BY <1>1, <1>2, <1>3 DEF IInv, TypeOK, Invoke
<1>7. TypeOK'
  <2>1. {mem, disk, temp, snapshot, sample.disk}' \subseteq Content
    BY DEF IInv, TypeOK, Invoke, memoryVars, fileVars
  <2>2. outcome' \in [Call -> {"new", "queued", "resolved", "rejected", "lost"}]
    BY DEF IInv, TypeOK, Invoke
  <2>3. queue' # <<>>
    BY <1>1
  <2> QED
    BY <1>1, <1>6, <2>1, <2>2, <2>3
       DEF IInv, TypeOK, Invoke, memoryVars, fileVars
<1>8. PhaseLinks' /\ FileLinks' /\ SampleLinks'
  BY <1>4 DEF IInv, TypeOK, PhaseLinks, FileLinks, SampleLinks,
              RevisionTellsChange, Invoke, memoryVars, fileVars
<1> QED
  BY <1>5, <1>7, <1>8 DEF IInv

(* The steps that leave the queue alone leave the running call alone.      *)
LEMMA BeginStep ==
  ASSUME IInv, Begin
  PROVE  IInv'
<1>1. /\ Running \in Call
      /\ Running' = Running
      /\ outcome[Running] = "queued"
  BY TailOfQueue DEF IInv, TypeOK, Begin, Running
<1>2. TypeOK'
  BY DEF IInv, TypeOK, Begin, fileVars, Phases
<1>3. QueueDistinct' /\ PhaseLinks' /\ FileLinks' /\ SampleLinks'
  BY <1>1 DEF IInv, TypeOK, Begin, fileVars, QueueDistinct, PhaseLinks,
              FileLinks, SampleLinks, RevisionTellsChange
<1> QED
  BY <1>2, <1>3 DEF IInv

LEMMA WriteStep ==
  ASSUME IInv, Write
  PROVE  IInv'
<1>1. queue # <<>> /\ Running \in Call /\ Running' = Running
  BY TailOfQueue DEF IInv, TypeOK, Write, Running
<1>2. mem \in [Call -> Nat] /\ Parts \in [Call -> Nat]
  BY PartsAssumption DEF IInv, TypeOK, Content
<1>3. mem' \in Content /\ mem'[Running] # 0
  <2>1. mem' = [mem EXCEPT ![Running] = mem[Running] + 1]
    BY DEF Write
  <2>2. mem' \in [Call -> Nat] /\ mem'[Running] = mem[Running] + 1
    BY <1>1, <1>2, <2>1
  <2>3. \A c \in Call : mem[c] <= Parts[c]
    BY DEF IInv, TypeOK, Content
  <2>4. mem[Running] < Parts[Running]
    BY DEF Write
  <2>5. \A c \in Call : mem'[c] <= Parts[c]
    BY <1>1, <1>2, <2>1, <2>3, <2>4
  <2> QED
    BY <1>1, <1>2, <2>2, <2>5 DEF Content
<1>4. TypeOK'
  BY <1>1, <1>3 DEF IInv, TypeOK, Write, RequestPersist, fileVars
<1>5. PhaseLinks'
  BY <1>1, <1>2, <1>3
     DEF IInv, Write, RequestPersist, fileVars, PhaseLinks
<1>6. QueueDistinct' /\ FileLinks' /\ SampleLinks'
  BY <1>1 DEF IInv, Write, RequestPersist, fileVars, QueueDistinct, FileLinks,
              SampleLinks, RevisionTellsChange
<1> QED
  BY <1>4, <1>5, <1>6 DEF IInv

LEMMA FinishDirtyStep ==
  ASSUME IInv, FinishDirty
  PROVE  IInv'
<1>1. queue # <<>> /\ Running' = Running
  BY DEF IInv, TypeOK, FinishDirty, Running
<1>2. TypeOK'
  BY <1>1 DEF IInv, TypeOK, FinishDirty, fileVars, Phases
<1>3. QueueDistinct' /\ PhaseLinks' /\ FileLinks' /\ SampleLinks'
  BY <1>1 DEF IInv, FinishDirty, fileVars, QueueDistinct, PhaseLinks, FileLinks,
              SampleLinks, RevisionTellsChange
<1> QED
  BY <1>2, <1>3 DEF IInv

LEMMA WriteTemporaryStep ==
  ASSUME IInv, WriteTemporary
  PROVE  IInv'
<1>1. queue # <<>> /\ Running' = Running
  BY DEF IInv, TypeOK, WriteTemporary, Running
<1>2. TypeOK'
  BY <1>1 DEF IInv, TypeOK, WriteTemporary, memoryVars, Phases
<1>3. QueueDistinct' /\ PhaseLinks' /\ FileLinks' /\ SampleLinks'
  BY <1>1 DEF IInv, WriteTemporary, memoryVars, QueueDistinct, PhaseLinks,
              FileLinks, SampleLinks, RevisionTellsChange
<1> QED
  BY <1>2, <1>3 DEF IInv

(* The renaming changes the file by the rows of the running call only.     *)
LEMMA RenameChangesRunning ==
  ASSUME IInv, Rename
  PROVE  /\ queue # <<>> /\ Running \in Call /\ Running' = Running
         /\ outcome[Running] = "queued"
         /\ disk[Running] = 0
         /\ disk' = mem
         /\ disk'[Running] = Parts[Running]
         /\ \A c \in Call \ {Running} : disk'[c] = disk[c]
<1>1. /\ queue # <<>> /\ Running \in Call /\ Running' = Running
      /\ outcome[Running] = "queued"
  BY TailOfQueue DEF IInv, TypeOK, Rename, Running
<1> QED
  BY <1>1 DEF IInv, Rename, PhaseLinks

LEMMA RenameStep ==
  ASSUME IInv, Rename
  PROVE  IInv'
<1>1. TypeOK'
  BY RenameChangesRunning DEF IInv, TypeOK, Rename, memoryVars, Phases
<1>2. FileLinks'
  BY RenameChangesRunning DEF IInv, Rename, FileLinks
<1>3. QueueDistinct' /\ PhaseLinks' /\ SampleLinks'
  BY RenameChangesRunning
     DEF IInv, Rename, memoryVars, QueueDistinct, PhaseLinks, SampleLinks,
         RevisionTellsChange
<1> QED
  BY <1>1, <1>2, <1>3 DEF IInv

(* The steps that answer the running call.                                 *)
LEMMA FailStep ==
  ASSUME IInv, Fail
  PROVE  IInv'
<1>1. /\ queue # <<>> /\ disk[Running] = 0 /\ mem' = disk
      /\ disk' = disk
  BY DEF IInv, TypeOK, PhaseLinks, Fail, Restore, fileVars, Phases
<1>2. /\ QueueDistinct'
      /\ queue' \in Seq(Call)
      /\ \A i \in DOMAIN queue' : outcome'[queue'[i]] = "queued"
      /\ outcome' \in [Call -> {"new", "queued", "resolved", "rejected", "lost"}]
      /\ phase' = "idle"
      /\ Running \in Call
      /\ outcome'[Running] = "rejected"
      /\ \A c \in Call \ {Running} : outcome'[c] = outcome[c]
  BY <1>1, SettleKeepsQueue DEF IInv, Fail
<1>3. TypeOK'
  <2>1. {mem, disk, temp, snapshot, sample.disk}' \subseteq Content
    BY <1>1 DEF IInv, TypeOK, Fail, fileVars
  <2>2. dirty' \in BOOLEAN /\ {revision, sample.revision, crashes}' \subseteq Nat
    BY DEF IInv, TypeOK, Fail
  <2> QED
    BY <1>2, <2>1, <2>2 DEF TypeOK, Phases
<1>4. FileLinks'
  BY <1>1, <1>2 DEF IInv, Fail, FileLinks, PhaseLinks
<1>5. PhaseLinks' /\ SampleLinks'
  BY <1>1, <1>2 DEF IInv, Fail, fileVars, PhaseLinks, SampleLinks,
                    RevisionTellsChange
<1> QED
  BY <1>2, <1>3, <1>4, <1>5 DEF IInv

LEMMA FinishCleanStep ==
  ASSUME IInv, FinishClean
  PROVE  IInv'
<1>1. /\ queue # <<>> /\ disk[Running] = 0 /\ Parts[Running] = 0
      /\ mem' = mem /\ disk' = disk
  BY DEF IInv, TypeOK, PhaseLinks, FinishClean, memoryVars, fileVars
<1>2. /\ QueueDistinct'
      /\ queue' \in Seq(Call)
      /\ \A i \in DOMAIN queue' : outcome'[queue'[i]] = "queued"
      /\ outcome' \in [Call -> {"new", "queued", "resolved", "rejected", "lost"}]
      /\ phase' = "idle"
      /\ Running \in Call
      /\ outcome'[Running] = "resolved"
      /\ \A c \in Call \ {Running} : outcome'[c] = outcome[c]
  BY <1>1, SettleKeepsQueue DEF IInv, FinishClean
<1>3. mem = disk
  <2>1. mem \in [Call -> Nat] /\ disk \in [Call -> Nat]
    BY DEF IInv, TypeOK, Content
  <2>2. \A c \in Call : mem[c] = disk[c]
    BY <1>1 DEF IInv, PhaseLinks, FinishClean
  <2> QED
    BY <2>1, <2>2
<1>4. TypeOK'
  BY <1>1, <1>2 DEF IInv, TypeOK, FinishClean, memoryVars, fileVars, Phases
<1>5. FileLinks'
  BY <1>1, <1>2 DEF IInv, FinishClean, FileLinks, PhaseLinks
<1>6. PhaseLinks' /\ SampleLinks'
  BY <1>1, <1>2, <1>3
     DEF IInv, FinishClean, memoryVars, fileVars, PhaseLinks, SampleLinks,
         RevisionTellsChange
<1> QED
  BY <1>2, <1>4, <1>5, <1>6 DEF IInv

LEMMA ReturnStep ==
  ASSUME IInv, Return
  PROVE  IInv'
<1>1. /\ queue # <<>> /\ mem = disk /\ disk[Running] = Parts[Running]
      /\ mem' = mem /\ disk' = disk /\ ~dirty'
      /\ revision' = revision + 1 /\ revision' \in Nat
  BY DEF IInv, TypeOK, PhaseLinks, Return, memoryVars, fileVars
<1>2. /\ QueueDistinct'
      /\ queue' \in Seq(Call)
      /\ \A i \in DOMAIN queue' : outcome'[queue'[i]] = "queued"
      /\ outcome' \in [Call -> {"new", "queued", "resolved", "rejected", "lost"}]
      /\ phase' = "idle"
      /\ Running \in Call
      /\ outcome'[Running] = "resolved"
      /\ \A c \in Call \ {Running} : outcome'[c] = outcome[c]
  BY <1>1, SettleKeepsQueue DEF IInv, Return
<1>3. TypeOK'
  BY <1>1, <1>2 DEF IInv, TypeOK, Return, memoryVars, fileVars, Phases
<1>4. FileLinks'
  BY <1>1, <1>2 DEF IInv, Return, FileLinks, PhaseLinks
<1>5. PhaseLinks'
  BY <1>1, <1>2 DEF PhaseLinks
<1>6. SampleLinks'
  BY <1>1, <1>2 DEF IInv, TypeOK, Return, SampleLinks, RevisionTellsChange
<1> QED
  BY <1>2, <1>3, <1>4, <1>5, <1>6 DEF IInv

LEMMA SampleStep ==
  ASSUME IInv, Sample
  PROVE  IInv'
<1>1. Running' = Running
  BY DEF Sample, Running
<1>2. sample'.disk \in Content /\ sample'.revision = revision
  BY DEF IInv, TypeOK, Sample
<1>3. TypeOK'
  BY <1>2 DEF IInv, TypeOK, Sample, memoryVars, fileVars
<1>4. QueueDistinct' /\ PhaseLinks' /\ FileLinks' /\ SampleLinks'
  BY <1>1 DEF IInv, TypeOK, Sample, memoryVars, fileVars, QueueDistinct,
              PhaseLinks, FileLinks, SampleLinks, RevisionTellsChange
<1> QED
  BY <1>3, <1>4 DEF IInv

LEMMA CrashStep ==
  ASSUME IInv, Crash
  PROVE  IInv'
<1>1. disk' = disk /\ mem' = disk /\ temp' = temp /\ snapshot' = disk
  BY DEF Crash, fileVars
<1>2. \A c \in Call :
        outcome'[c] = IF outcome[c] = "queued" THEN "lost" ELSE outcome[c]
  BY DEF Crash
<1>3. \A c \in Call : outcome[c] = "queued" => disk[c] \in {0, Parts[c]}
  BY DEF IInv, FileLinks, PhaseLinks
<1>4. outcome' \in [Call -> {"new", "queued", "resolved", "rejected", "lost"}]
  BY DEF IInv, TypeOK, Crash
<1>5. queue' \in Seq(Call) /\ DOMAIN queue' = {}
  BY DEF Crash
<1>6. sample' = [revision |-> 0, disk |-> disk] /\ revision' = 0
  BY DEF Crash
<1>7. TypeOK'
  <2>1. {mem, disk, temp, snapshot, sample.disk}' \subseteq Content
    BY <1>1, <1>6 DEF IInv, TypeOK
  <2>2. {revision, sample.revision, crashes}' \subseteq Nat
    BY <1>6 DEF IInv, TypeOK, Crash
  <2> QED
    BY <1>4, <1>5, <2>1, <2>2 DEF TypeOK, Crash, Phases
<1>8. FileLinks'
  BY <1>1, <1>2, <1>3 DEF IInv, FileLinks, TypeOK, Crash
<1>9. QueueDistinct' /\ PhaseLinks' /\ SampleLinks'
  BY <1>1, <1>5, <1>6 DEF QueueDistinct, PhaseLinks, SampleLinks,
                          RevisionTellsChange, Crash
<1> QED
  BY <1>7, <1>8, <1>9 DEF IInv

LEMMA StutterStep ==
  ASSUME IInv, UNCHANGED vars
  PROVE  IInv'
  BY DEF IInv, TypeOK, QueueDistinct, PhaseLinks, FileLinks, SampleLinks,
         RevisionTellsChange, Running, vars, memoryVars, fileVars

LEMMA NextKeeps == IInv /\ [Next]_vars => IInv'
  BY InvokeStep, BeginStep, WriteStep, FinishDirtyStep, WriteTemporaryStep,
     RenameStep, FailStep, FinishCleanStep, ReturnStep, SampleStep, CrashStep,
     StutterStep
     DEF Next, Work

(* The inductive invariant holds at every reachable state.                 *)
THEOREM StoreInvariant == Spec => []IInv
<1>1. Init => IInv
  BY InitHolds
<1>2. IInv /\ [Next]_vars => IInv'
  BY NextKeeps
<1> QED
  BY <1>1, <1>2, PTL DEF Spec

-----------------------------------------------------------------------------
(* What follows from it.                                                   *)

(* LocalStore's queue, memory, snapshot and files keep their shape.        *)
THEOREM StoreTypeCorrect == Spec => []TypeOK
<1>1. IInv => TypeOK
  BY DEF IInv
<1> QED
  BY <1>1, StoreInvariant, PTL

(* The file never holds a part of a durable mutation.                      *)
THEOREM NeverPartial == Spec => []AllOrNothing
<1>1. IInv => AllOrNothing
  BY DEF IInv, AllOrNothing, FileLinks, PhaseLinks, TypeOK
<1> QED
  BY <1>1, StoreInvariant, PTL

(* A resolved call is in the file, a rejected one in no place.             *)
THEOREM AnswersHold == Spec => []AnswersAreTrue
<1>1. IInv => AnswersAreTrue
  <2> SUFFICES ASSUME IInv, NEW c \in Call, outcome[c] = "rejected"
               PROVE  mem[c] = 0
    BY DEF IInv, AnswersAreTrue, FileLinks
  <2>1. disk[c] = 0
    BY DEF IInv, FileLinks
  <2>2. queue # <<>> => Running # c
    BY TailOfQueue DEF IInv, TypeOK, Running
  <2> QED
    BY <2>1, <2>2 DEF IInv, TypeOK, Phases, PhaseLinks
<1> QED
  BY <1>1, StoreInvariant, PTL

(* The memory is ahead of the file by the running call only.               *)
THEOREM ReadsAhead == Spec => []AheadOnlyByRunning
<1>1. IInv => AheadOnlyByRunning
  BY DEF IInv, TypeOK, Phases, PhaseLinks, AheadOnlyByRunning
<1> QED
  BY <1>1, StoreInvariant, PTL

(* An unchanged revision means an unchanged file.                          *)
THEOREM RevisionHolds == Spec => []RevisionTellsChange
<1>1. IInv => RevisionTellsChange
  BY DEF IInv, SampleLinks
<1> QED
  BY <1>1, StoreInvariant, PTL

-----------------------------------------------------------------------------
(* The store implements the atomic store.                                  *)

LEMMA AbstractInit == Init => Atomic!Init
  BY DEF Init, Atomic!Init, Empty, AnswerOf

(* The steps before the renaming, and the reader's, change nothing abstract. *)
LEMMA HiddenStep ==
  ASSUME IInv, disk' = disk,
         \/ outcome' = outcome
         \/ \E c \in Call : Invoke(c)
  PROVE  UNCHANGED Atomic!vars
<1>1. \A c \in Call : AnswerOf(outcome'[c]) = AnswerOf(outcome[c])
  BY DEF AnswerOf, Invoke, IInv, TypeOK
<1>2. [c \in Call |-> AnswerOf(outcome[c])]'
        = [c \in Call |-> AnswerOf(outcome[c])]
  BY <1>1
<1> QED
  BY <1>2 DEF Atomic!vars

(* Answering the running call is the abstract answer.                      *)
LEMMA SettleIsAnswer ==
  ASSUME IInv, queue # <<>>, disk' = disk,
         NEW a \in {"resolved", "rejected"}, Settle(a),
         a = "resolved" => disk[Running] = Parts[Running],
         a = "rejected" => disk[Running] = 0
  PROVE  Atomic!Next
<1>1. /\ Running \in Call
      /\ outcome[Running] = "queued"
      /\ outcome'[Running] = a
      /\ \A c \in Call \ {Running} : outcome'[c] = outcome[c]
  BY SettleKeepsQueue DEF IInv
<1>2. [c \in Call |-> AnswerOf(outcome[c])]'
        = [[c \in Call |-> AnswerOf(outcome[c])] EXCEPT ![Running] = a]
  BY <1>1 DEF AnswerOf
<1>3. [c \in Call |-> AnswerOf(outcome[c])][Running] = "none"
  BY <1>1 DEF AnswerOf
<1>4. CASE a = "resolved"
  BY <1>1, <1>2, <1>3, <1>4 DEF Atomic!Next, Atomic!Resolve
<1>5. CASE a = "rejected"
  BY <1>1, <1>2, <1>3, <1>5 DEF Atomic!Next, Atomic!Reject
<1> QED
  BY <1>4, <1>5

LEMMA RenameTakesEffect ==
  ASSUME IInv, Rename
  PROVE  Atomic!Next
<1>1. disk' = [disk EXCEPT ![Running] = Parts[Running]]
  BY RenameChangesRunning DEF IInv, TypeOK, Content
<1>2. [c \in Call |-> AnswerOf(outcome[c])]'
        = [c \in Call |-> AnswerOf(outcome[c])]
  BY DEF Rename
<1>3. [c \in Call |-> AnswerOf(outcome[c])][Running] = "none"
  BY RenameChangesRunning DEF AnswerOf
<1> QED
  BY <1>1, <1>2, <1>3, RenameChangesRunning
     DEF Atomic!Next, Atomic!TakeEffect

LEMMA CrashLoses ==
  ASSUME IInv, Crash
  PROVE  Atomic!Next
<1> DEFINE answer == [c \in Call |-> AnswerOf(outcome[c])]
           lost == {c \in Call : outcome[c] = "queued"}
<1>1. disk' = disk
  BY DEF Crash, fileVars
<1>2. lost \in SUBSET {c \in Call : answer[c] = "none"}
  BY DEF AnswerOf
<1>3. answer' = [c \in Call |-> IF c \in lost THEN "lost" ELSE answer[c]]
  BY DEF AnswerOf, Crash
<1> QED
  BY <1>1, <1>2, <1>3 DEF Atomic!Next, Atomic!Lose

LEMMA AbstractStep == IInv /\ [Next]_vars => [Atomic!Next]_(Atomic!vars)
<1> SUFFICES ASSUME IInv, [Next]_vars
             PROVE  Atomic!Next \/ UNCHANGED Atomic!vars
  OBVIOUS
<1>1. CASE Begin \/ Write \/ FinishDirty \/ WriteTemporary \/ Sample
  BY <1>1, HiddenStep DEF Begin, Write, RequestPersist, FinishDirty,
                          WriteTemporary, Sample, fileVars
<1>2. CASE \E c \in Call : Invoke(c)
  BY <1>2, HiddenStep DEF Invoke, fileVars
<1>3. CASE UNCHANGED vars
  BY <1>3, HiddenStep DEF vars, fileVars
<1>4. CASE Fail
  <2>1. queue # <<>> /\ disk' = disk /\ disk[Running] = 0
    BY <1>4 DEF Fail, IInv, TypeOK, PhaseLinks, fileVars
  <2> QED
    BY <1>4, <2>1, SettleIsAnswer DEF Fail
<1>5. CASE FinishClean
  <2>1. /\ queue # <<>> /\ disk' = disk
        /\ disk[Running] = 0 /\ Parts[Running] = 0
    BY <1>5 DEF FinishClean, IInv, TypeOK, PhaseLinks, fileVars
  <2> QED
    BY <1>5, <2>1, SettleIsAnswer DEF FinishClean
<1>6. CASE Return
  <2>1. /\ queue # <<>> /\ disk' = disk
        /\ disk[Running] = Parts[Running]
    BY <1>6 DEF Return, IInv, TypeOK, PhaseLinks, fileVars
  <2> QED
    BY <1>6, <2>1, SettleIsAnswer DEF Return
<1>7. CASE Rename
  BY <1>7, RenameTakesEffect
<1>8. CASE Crash
  BY <1>8, CrashLoses
<1> QED
  BY <1>1, <1>2, <1>3, <1>4, <1>5, <1>6, <1>7, <1>8 DEF Next, Work

(* To its callers LocalStore is the atomic store, whatever fails and       *)
(* whenever the desktop dies.                                              *)
THEOREM Implements == Spec => ImplementsAtomicStore
<1>1. Init => Atomic!Init
  BY AbstractInit
<1>2. IInv /\ [Next]_vars => [Atomic!Next]_(Atomic!vars)
  BY AbstractStep
<1> QED
  BY <1>1, <1>2, StoreInvariant, PTL
     DEF Spec, ImplementsAtomicStore, Atomic!Spec
=============================================================================
