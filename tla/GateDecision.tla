---------------------------- MODULE GateDecision ----------------------------
(***************************************************************************)
(* What the Gate Command protocol promises, with no leases, requests or    *)
(* acknowledgements in sight: every command issued against a run version   *)
(* is decided at most once, an approval moves the run exactly one version  *)
(* on from the one it was issued for, and what the Team publishes as the   *)
(* outcome is that decision, or that there was none in time.               *)
(***************************************************************************)
EXTENDS Integers

CONSTANTS Command, Undecided

VARIABLES
  issued,       \* the run version a command was issued for, 0 if not issued
  verdict,      \* the desktop's decision
  published,    \* the Team's: "open", "lapsed", "withdrawn" or the verdict
  version       \* of the run on the desktop

dvars == <<issued, verdict, published, version>>

Init ==
  /\ issued = [c \in Command |-> 0]
  /\ verdict = [c \in Command |-> Undecided]
  /\ published = [c \in Command |-> "open"]
  /\ version = 1

(* Open commands run out of time or lose their requester.                  *)
Closes(next) ==
  \A c \in Command :
    \/ next[c] = published[c]
    \/ /\ issued[c] # 0 /\ published[c] = "open"
       /\ next[c] \in {"lapsed", "withdrawn"}

Close ==
  /\ published' \in [Command -> {published[c] : c \in Command}
                                 \union {"lapsed", "withdrawn"}]
  /\ Closes(published')
  /\ UNCHANGED <<issued, verdict, version>>

(* A new command may find earlier ones out of time.                        *)
Issue(c, v) ==
  /\ issued[c] = 0
  /\ issued' = [issued EXCEPT ![c] = v]
  /\ published' \in [Command -> {published[d] : d \in Command}
                                 \union {"lapsed", "withdrawn"}]
  /\ Closes(published')
  /\ published'[c] = "open"
  /\ UNCHANGED <<verdict, version>>

Apply(c) ==
  /\ issued[c] = version
  /\ verdict[c] = Undecided
  /\ verdict' = [verdict EXCEPT ![c] = "applied"]
  /\ version' = version + 1
  /\ UNCHANGED <<issued, published>>

Decline(c, why) ==
  /\ issued[c] # 0
  /\ why \in {"human_rejected", "evidence_blocked", "stale_run", "expired"}
  /\ (why = "stale_run") => (version # issued[c])
  /\ (why \in {"human_rejected", "evidence_blocked"}) => (version = issued[c])
  /\ verdict[c] = Undecided
  /\ verdict' = [verdict EXCEPT ![c] = why]
  /\ UNCHANGED <<issued, published, version>>

(* A late report still replaces "lapsed", never "withdrawn".               *)
Report(c) ==
  /\ verdict[c] # Undecided
  /\ published[c] \in {"open", "lapsed"}
  /\ published' = [published EXCEPT ![c] = verdict[c]]
  /\ UNCHANGED <<issued, verdict, version>>

OtherWork ==
  /\ version' = version + 1
  /\ UNCHANGED <<issued, verdict, published>>

Next ==
  \/ Close
  \/ \E c \in Command :
       \/ \E v \in 1..version : Issue(c, v)
       \/ Apply(c)
       \/ \E why \in {"human_rejected", "evidence_blocked", "stale_run",
                      "expired"} : Decline(c, why)
       \/ Report(c)
  \/ OtherWork

Spec == Init /\ [][Next]_dvars
=============================================================================
