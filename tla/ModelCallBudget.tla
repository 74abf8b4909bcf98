--------------------------- MODULE ModelCallBudget ---------------------------
(***************************************************************************)
(* Model calls of one desktop under the Team's budget: reserve, note the   *)
(* start in LocalStore, call the provider, note the result, settle it at   *)
(* the Team, forget it.  Any of these may fail, time out or die with the   *)
(* desktop; results noted but not settled are sent again later.            *)
(***************************************************************************)
EXTENDS CostLedger

CONSTANTS
  MaxFaults,  \* bound on answers lost, writes failed and crashes
  MaxLate     \* bound on the requests under way nobody waits for

ASSUME BoundsAssumption == {MaxFaults, MaxLate} \subseteq Nat

VARIABLES
  pc,        \* [Call -> Label]
  charge,    \* [Call -> Nat]: what the provider charges, known to nobody
  result,    \* [Call -> Settlement \union {None}]: what came of the call
  record,    \* [Call -> Record]: its row in model_call_settlements
  asks,      \* [Call -> card id]: the card its user looks at
  accepted,  \* the card accepted for the operation under way
  retrying,  \* the call being settled once more
  draft,     \* the correction a lead is about to submit
  late,      \* requests nobody waits for
  faults

callerVars == <<pc, charge, result, record, asks, accepted, retrying,
                 draft, late, faults>>
vars == <<teamVars, callerVars>>

Label == {"new", "reserving", "preparing", "asking", "resuming", "starting",
          "sent", "finishing", "settling", "over"}
Record == {"none", "started", "final", "conflict"}
Init ==
  /\ LedgerInit
  /\ pc = [c \in Call |-> "new"]
  /\ charge = [c \in Call |-> 0]
  /\ result = [c \in Call |-> None]
  /\ record = [c \in Call |-> "none"]
  /\ asks = [c \in Call |-> None]
  /\ accepted = None
  /\ retrying = None
  /\ draft = None
  /\ late = {}
  /\ faults = 0

Goto(c, label) == pc' = [pc EXCEPT ![c] = label]

(* The call is over: nobody looks at its card any more.                    *)
End(c) == Goto(c, "over") /\ asks' = [asks EXCEPT ![c] = None]

(* A fault, as far as the bound goes.                                      *)
Fault == faults < MaxFaults /\ faults' = faults + 1

-----------------------------------------------------------------------------
(* Admission: at first with the card accepted for the operation, if any.   *)

Begin(c) ==
  /\ pc[c] = "new"
  /\ Goto(c, "reserving")
  /\ asks' = [asks EXCEPT ![c] = IF c \in Bounded THEN accepted ELSE None]
  /\ UNCHANGED <<teamVars, charge, result, record, accepted, retrying,
                 draft, late, faults>>

Admitted(c) == ~Known(c) /\ attempt'[c].state = "reserved"

(* A call with a verified bound that is refused offers a card, once.       *)
ReserveAnswer(c) ==
  /\ pc[c] \in {"reserving", "resuming"}
  /\ ReserveModelCall(c, asks[c])
  /\ asks' = [asks EXCEPT ![c] = None]
  /\ Goto(c, IF Admitted(c) THEN "starting"
             ELSE IF pc[c] = "reserving" /\ c \in Bounded THEN "preparing"
             ELSE "over")
  /\ UNCHANGED <<charge, result, record, accepted, retrying, draft, late,
                 faults>>

(* Two calls do not wait for the same card.                                *)
PrepareAnswer(c) ==
  /\ pc[c] = "preparing"
  /\ IF CanPrepare(c) THEN PrepareContinuation(c) ELSE UNCHANGED teamVars
  /\ IF CanPrepare(c) /\ \A x \in Call : pc[x] = "asking" => asks[x] # CardFor(c)
     THEN Goto(c, "asking") /\ asks' = [asks EXCEPT ![c] = CardFor(c)]
     ELSE End(c)
  /\ UNCHANGED <<charge, result, record, accepted, retrying, draft, late,
                 faults>>

(* The lead has confirmed the card at the Team.                            *)
Resume(c) ==
  /\ pc[c] = "asking"
  /\ \E k \in cards : k.id = asks[c] /\ k.confirmed
  /\ accepted' = asks[c]
  /\ Goto(c, "resuming")
  /\ UNCHANGED <<teamVars, charge, result, record, asks, retrying, draft,
                 late, faults>>

(* The user says no, or the card has expired.                              *)
Cancel(c) ==
  /\ pc[c] = "asking"
  /\ End(c)
  /\ UNCHANGED <<teamVars, charge, result, record, accepted, retrying, draft,
                 late, faults>>

-----------------------------------------------------------------------------
(* The call itself.                                                        *)

(* At worst: the provider keeps to a verified bound, not to an estimate.   *)
Charge(c) == IF c \in Bounded THEN Price[c] ELSE Price[c] + 1

NoteStart(c) == record' = [record EXCEPT ![c] = "started"]

(* The start is noted and the call sent, unless it is called off.  If the  *)
(* start cannot be noted, nothing is sent and that is settled.             *)
Send(c) ==
  /\ pc[c] = "starting"
  /\ \/ /\ Fault
        /\ result' = [result EXCEPT ![c] = NotSent]
        /\ Goto(c, "settling")
        /\ UNCHANGED <<record, charge>>
     \/ /\ NoteStart(c)
        /\ \/ /\ result' = [result EXCEPT ![c] = NotSent]
              /\ Goto(c, "finishing")
              /\ UNCHANGED charge
           \/ /\ charge' = [charge EXCEPT ![c] = Charge(c)]
              /\ Goto(c, "sent")
              /\ UNCHANGED result
        /\ UNCHANGED faults
  /\ UNCHANGED <<teamVars, asks, accepted, retrying, draft, late>>

(* Mutant: a call that fails counts as not sent.                           *)
ReturnFailedUnsent(c) ==
  /\ pc[c] = "sent"
  /\ result' = [result EXCEPT ![c] = NotSent]
  /\ Goto(c, "finishing")
  /\ UNCHANGED <<teamVars, charge, record, asks, accepted, retrying,
                 draft, late, faults>>

(* An answer, with its full usage or without, or an error without; one     *)
(* that shows the usage is booked like an answer.                          *)
Return(c) ==
  /\ pc[c] = "sent"
  /\ \E r \in {[state |-> "completed", cost |-> charge[c]],
               [state |-> "completed", cost |-> Unknown],
               [state |-> "failed", cost |-> Unknown]} :
       result' = [result EXCEPT ![c] = r]
  /\ Goto(c, "finishing")
  /\ UNCHANGED <<teamVars, charge, record, asks, accepted, retrying,
                 draft, late, faults>>

NoteResult(c) ==
  /\ pc[c] = "finishing"
  /\ \/ /\ record' = [record EXCEPT ![c] = "final"]
        /\ Goto(c, "settling")
        /\ UNCHANGED faults
     \/ /\ Fault
        /\ Goto(c, "over")
        /\ UNCHANGED record
  /\ UNCHANGED <<teamVars, charge, result, asks, accepted, retrying,
                 draft, late>>

-----------------------------------------------------------------------------
(* Settlement: by the call itself, or once more.                           *)

(* Mutant: what has been settled by hand is forgotten here.                *)
ForgetAlways(c) == record' = [record EXCEPT ![c] = "none"]

(* What is left of the local row after the Team's answer.                  *)
Forget(c) ==
  record' = [record EXCEPT ![c] =
               IF Receipt(c) = "conflict" /\ @ # "none" THEN "conflict"
               ELSE "none"]

SettleAnswer(c) ==
  /\ pc[c] = "settling"
  /\ SettleModelCall(c, result[c])
  /\ Forget(c)
  /\ Goto(c, "over")
  /\ UNCHANGED <<charge, result, asks, accepted, retrying, draft, late,
                 faults>>

(* At the next call, or when the user asks for it.                         *)
Retry(c) ==
  /\ retrying = None
  /\ record[c] = "final"
  /\ retrying' = c
  /\ UNCHANGED <<teamVars, pc, charge, result, record, asks, accepted,
                 draft, late, faults>>

RetryAnswer ==
  /\ retrying # None
  /\ SettleModelCall(retrying, result[retrying])
  /\ Forget(retrying)
  /\ retrying' = None
  /\ UNCHANGED <<pc, charge, result, asks, accepted, draft, late,
                 faults>>

-----------------------------------------------------------------------------
(* Faults: answers that do not come in time, crashes, late requests.       *)

Reservation(c) == [op |-> "reserve", call |-> c, card |-> asks[c]]
Settling(c) == [op |-> "settle", call |-> c, card |-> None]

InFlight ==
  {Reservation(c) : c \in {x \in Call : pc[x] \in {"reserving", "resuming"}}}
  \union
  {Settling(c) : c \in {x \in Call : pc[x] = "settling" \/ x = retrying}}

OnTheWire(messages) ==
  /\ late' = late \union messages
  /\ Cardinality(late') <= MaxLate

(* Mutant: a settlement counts as done when it has been sent.              *)
GiveUpAndForget(c) ==
  /\ Fault
  /\ pc[c] = "settling"
  /\ record' = [record EXCEPT ![c] = "none"]
  /\ Goto(c, "over")
  /\ UNCHANGED <<teamVars, charge, result, asks, accepted, retrying,
                 draft, late>>

GiveUp(c) ==
  /\ Fault
  /\ pc[c] \in {"reserving", "resuming", "settling"}
  /\ \E lost \in SUBSET {m \in InFlight : m.call = c} : OnTheWire(lost)
  /\ End(c)
  /\ UNCHANGED <<teamVars, charge, result, record, accepted, retrying, draft>>

GiveUpRetry ==
  /\ Fault
  /\ retrying # None
  /\ \E lost \in SUBSET {Settling(retrying)} : OnTheWire(lost)
  /\ retrying' = None
  /\ UNCHANGED <<teamVars, pc, charge, result, record, asks, accepted,
                 draft>>

Crash ==
  /\ Fault
  /\ \E lost \in SUBSET InFlight : OnTheWire(lost)
  /\ pc' = [c \in Call |-> IF pc[c] = "new" THEN "new" ELSE "over"]
  /\ asks' = [c \in Call |-> None]
  /\ accepted' = None
  /\ retrying' = None
  /\ UNCHANGED <<teamVars, charge, result, record, draft>>

HandleLate(m) ==
  /\ IF m.op = "reserve" THEN ReserveModelCall(m.call, m.card)
     ELSE SettleModelCall(m.call, result[m.call])
  /\ late' = late \ {m}
  /\ UNCHANGED <<pc, charge, result, record, asks, accepted, retrying,
                 draft, faults>>

-----------------------------------------------------------------------------
(* Leads.                                                                  *)

(* A lead looks at a record and writes down what is thought to be true.    *)
Look(c) ==
  /\ draft = None
  /\ Known(c) /\ edits[c] < MaxEdits
  /\ \E notSent \in BOOLEAN :
       draft' = [seen |-> Version(c), notSent |-> notSent,
                 cost |-> IF notSent THEN 0 ELSE Price[c]]
  /\ UNCHANGED <<teamVars, pc, charge, result, record, asks, accepted,
                 retrying, late, faults>>

(* Refused if the record has changed, or if the call is a young one.       *)
Submit ==
  /\ draft # None
  /\ ReconcileModelCost(draft) \/ UNCHANGED teamVars
  /\ draft' = None
  /\ UNCHANGED <<pc, charge, result, record, asks, accepted, retrying,
                 late, faults>>

TeamStep ==
  /\ \/ GrantApproval \/ ExpireApproval \/ NextMonth
     \/ \E k \in cards : ConfirmContinuation(k) \/ ExpireCard(k)
  /\ UNCHANGED callerVars

CallStep(c) ==
  \/ Begin(c) \/ ReserveAnswer(c) \/ PrepareAnswer(c) \/ Resume(c)
  \/ Cancel(c) \/ Send(c) \/ Return(c) \/ NoteResult(c)
  \/ SettleAnswer(c) \/ Retry(c) \/ GiveUp(c) \/ Look(c)

Next ==
  \/ \E c \in Call : CallStep(c)
  \/ RetryAnswer \/ GiveUpRetry \/ Crash \/ Submit
  \/ TeamStep
  \/ \E m \in late : HandleLate(m)

Spec == Init /\ [][Next]_vars

-----------------------------------------------------------------------------
(* Properties.                                                             *)

Ref == [call : Call, state : State, edits : 0..MaxEdits + 1]
CardId == [records : SUBSET Ref, month : 1..MaxMonth, bound : 1..MaxPrice]

(* Every variable has its type; an attempt is settled with a known state   *)
(* and cost, and nothing waits for a card that does not exist.             *)
TypeOK ==
  /\ \A c \in Call :
       /\ attempt[c].state \in State
       /\ attempt[c].cost \in Cost
       /\ attempt[c].month \in 0..MaxMonth
       /\ attempt[c].card \in {k.id : k \in cards} \union {None}
       /\ correction[c].cost \in Cost
       /\ edits[c] \in 0..MaxEdits + 1
       /\ record[c] = "final" => result[c] \in Settlement
       /\ asks[c] \in {k.id : k \in cards} \union {None}
       /\ charge[c] \in {0, Charge(c)}
  /\ event \in [Call -> Event]
  /\ superseded \union overruled \subseteq Call
  /\ \A k \in cards : k.id.records \subseteq Ref
  /\ pc \in [Call -> Label]
  /\ record \in [Call -> Record]
  /\ retrying \in Call \union {None}
  /\ \A m \in late : m.op \in {"reserve", "settle"} /\ m.call \in Call

(* The part of a call's charge that its admission vouches for.             *)
Vouched(c) == Min({charge[c], Price[c]})

(* What a card allows.                                                     *)
CardSum(k) == MaxUses * k.id.bound

(* The calls of a month cost no more than the budget and what leads have   *)
(* allowed beyond it, in whatever order calls are admitted, sent, lost and *)
(* settled: as far as prices hold and no lead has put in another cost.     *)
NeverOverspent ==
  \A m \in 1..MaxMonth :
    LET own == {c \in Call : attempt[c].month = m /\ ~Corrected(c)}
    IN MapThenSumSet(Vouched, own) <=
         Limit + (IF approval = "none" THEN 0 ELSE Allowance)
         + MapThenSumSet(CardSum,
                         {k \in cards : k.confirmed /\ k.id.month = m})

(* Whatever is lost on the way, the Team counts every call that has been   *)
(* sent: with its charge or more, as unknown, or as a lead has put it.     *)
EveryCallIsBooked ==
  \A c \in Call :
    charge[c] > 0 =>
      /\ Known(c)
      /\ \/ Corrected(c)
         \/ BudgetCost(c) = Unknown
         \/ BudgetCost(c) >= charge[c]

(* The desktop forgets the result of a call only when the Team has it, and *)
(* keeps the row of one whose result a lead contradicts.                   *)
ForgottenMeansSettled ==
  \A c \in Call :
    result[c] # None /\ result[c] # NotSent /\ record[c] \in {"none", "conflict"} =>
      /\ attempt[c].state = result[c].state
      /\ attempt[c].cost = result[c].cost
      /\ record[c] = "none" => event[c] # "conflict"

(* A lead's correction stands against the cost the Team was told of only   *)
(* if the lead knew of it; otherwise it is a conflict for leads to solve.  *)
LeadsOverruleKnowingly ==
  \A c \in Call :
    attempt[c].cost # Unknown /\ c \notin overruled =>
      CostOf(c) \in {attempt[c].cost, Unknown}
=============================================================================
