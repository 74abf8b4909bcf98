----------------------------- MODULE AtomicStore ----------------------------
(***************************************************************************)
(* What a caller of LocalStore relies on: a durable method takes effect in *)
(* one step, on disk, or not at all.  It is answered "resolved" only after *)
(* that step and "rejected" only if the step never happens; a caller whose *)
(* desktop dies before the answer cannot tell which of the two it was.     *)
(***************************************************************************)
EXTENDS Naturals

CONSTANTS
  Call,         \* invocations of durable methods
  Parts         \* how many rows each of them writes

VARIABLES
  content,      \* [Call -> Nat]: how many of each call's rows are on disk
  answer        \* [Call -> {"none", "resolved", "rejected", "lost"}]

vars == <<content, answer>>

Init ==
  /\ content = [c \in Call |-> 0]
  /\ answer = [c \in Call |-> "none"]

TakeEffect(c) ==
  /\ answer[c] = "none"
  /\ content[c] = 0
  /\ content' = [content EXCEPT ![c] = Parts[c]]
  /\ UNCHANGED answer

Resolve(c) ==
  /\ answer[c] = "none"
  /\ content[c] = Parts[c]
  /\ answer' = [answer EXCEPT ![c] = "resolved"]
  /\ UNCHANGED content

Reject(c) ==
  /\ answer[c] = "none"
  /\ content[c] = 0
  /\ answer' = [answer EXCEPT ![c] = "rejected"]
  /\ UNCHANGED content

(* The desktop dies: some of the unanswered calls are never answered.      *)
Lose ==
  /\ \E lost \in SUBSET {c \in Call : answer[c] = "none"} :
       answer' = [c \in Call |-> IF c \in lost THEN "lost" ELSE answer[c]]
  /\ UNCHANGED content

Next ==
  \/ Lose
  \/ \E c \in Call : TakeEffect(c) \/ Resolve(c) \/ Reject(c)

Spec == Init /\ [][Next]_vars
=============================================================================
