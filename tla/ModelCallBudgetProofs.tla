----------------------- MODULE ModelCallBudgetProofs -----------------------
(***************************************************************************)
(* Proofs about model calls and the Team's ledger of them, for any calls,  *)
(* prices and budgets, and any number of faults, late requests and cards.  *)
(* First what holds of each call; then sums over sets of calls, and that   *)
(* no month costs more than leads have allowed.                            *)
(***************************************************************************)
EXTENDS ModelCallBudget, FiniteSetTheorems, TLAPS

-----------------------------------------------------------------------------
(* The inductive invariant.                                                *)

AnyCost == Nat \union {Unknown}
AnyRef == [call : Call, state : State, edits : Nat]
AnyCard == [records : SUBSET AnyRef, month : Nat, bound : Nat] \union {None}

LedgerTypes ==
  /\ attempt \in [Call -> [state : State, cost : AnyCost, month : Nat,
                           approved : BOOLEAN, card : AnyCard]]
  /\ correction \in [Call -> [cost : AnyCost, notSent : BOOLEAN]]
  /\ event \in [Call -> Event]
  /\ superseded \subseteq Call
  /\ edits \in [Call -> Nat]
  /\ overruled \subseteq Call
  /\ month \in Nat

Results == [state : {"completed", "failed", "not_sent"}, cost : AnyCost]

CallerTypes ==
  /\ pc \in [Call -> Label]
  /\ charge \in [Call -> Nat]
  /\ result \in [Call -> Results \union {None}]
  /\ record \in [Call -> Record]
  /\ asks \in [Call -> AnyCard]
  /\ accepted \in AnyCard
  /\ retrying \in Call \union {None}
  /\ draft = None \/ draft \in [seen : AnyRef, notSent : BOOLEAN, cost : Nat]
  /\ draft # None => draft.seen.state # "none"
  /\ late \subseteq [op : {"reserve", "settle"}, call : Call, card : AnyCard]

Types == LedgerTypes /\ CallerTypes

Settled(c) == attempt[c].state \in {"completed", "failed", "not_sent"}
Early == {"new", "reserving", "preparing", "asking", "resuming"}

(* What came of a call says its charge, or nothing about it.               *)
ResultHolds(c) ==
  /\ charge[c] \in {0, Charge(c)}
  /\ pc[c] \in Early \union {"starting"} => charge[c] = 0 /\ result[c] = None
  /\ pc[c] = "sent" => result[c] = None /\ record[c] = "started"
  /\ pc[c] \in {"starting", "sent"} \/ charge[c] > 0 \/ result[c] # None =>
       Known(c)
  /\ pc[c] \in {"finishing", "settling"} => result[c] # None
  /\ result[c] # None =>
       /\ result[c].cost \in {charge[c], Unknown}
       /\ result[c].state = "not_sent" => result[c] = NotSent

(* The Team has a result as it was, or none; who is about to settle has    *)
(* one.                                                                    *)
SettlementHolds(c) ==
  /\ Settled(c) =>
       /\ result[c] # None
       /\ attempt[c].state = result[c].state
       /\ attempt[c].cost = result[c].cost
  /\ ~Settled(c) => attempt[c].cost = Unknown /\ event[c] = "none"
  /\ record[c] = "final" \/ retrying = c => result[c] # None
  /\ \A m \in late : m.op = "settle" /\ m.call = c => result[c] # None

(* A lead who corrects after the settlement has seen it.                   *)
CorrectionHolds(c) ==
  /\ Corrected(c) => Known(c)
  /\ c \in superseded => c \in overruled
  /\ event[c] # "none" /\ c \notin overruled =>
       /\ Corrected(c)
       /\ event[c] = "confirmed" =>
            attempt[c].cost \in {Unknown, correction[c].cost}
  /\ Corrected(c) /\ Settled(c) /\ event[c] = "none" => c \in overruled

(* What the desktop has forgotten, the Team knows.                         *)
ForgottenHolds(c) ==
  result[c] # None /\ result[c] # NotSent
  /\ record[c] \in {"none", "conflict"} =>
    /\ attempt[c].state = result[c].state
    /\ attempt[c].cost = result[c].cost
    /\ record[c] = "none" => event[c] # "conflict"

CallHolds(c) ==
  /\ ResultHolds(c)
  /\ SettlementHolds(c)
  /\ CorrectionHolds(c)
  /\ ForgottenHolds(c)

IInv == Types /\ \A c \in Call : CallHolds(c)

-----------------------------------------------------------------------------
(* What keeps a call's invariant.                                          *)

(* The ledger leaves call x alone, or admits it.                           *)
LedgerRests(x) ==
  /\ \/ attempt'[x] = attempt[x]
     \/ /\ ~Known(x)
        /\ attempt'[x].state = "reserved" /\ attempt'[x].cost = Unknown
  /\ correction'[x] = correction[x] /\ event'[x] = event[x]
  /\ x \in superseded' <=> x \in superseded
  /\ x \in overruled' <=> x \in overruled

(* The call goes on before it is sent, or is given up.                     *)
CallerRests(x) ==
  /\ \/ pc'[x] \in {pc[x], "over"}
     \/ {pc[x], pc'[x]} \subseteq Early
     \/ /\ pc[x] \in Early /\ pc'[x] = "starting"
        /\ attempt'[x].state = "reserved"
  /\ charge'[x] = charge[x] /\ result'[x] = result[x]
  /\ record'[x] = record[x]

(* Nobody settles call x without a result.                                 *)
NoEarlySettlement(x) ==
  result[x] # None
  \/ /\ retrying' # x
     /\ \A m \in late' : m.op = "settle" => m.call # x

LEMMA CallRests ==
  ASSUME Types, NEW x \in Call, CallHolds(x), LedgerRests(x),
         CallerRests(x), NoEarlySettlement(x)
  PROVE  CallHolds(x)'
  <1>1. ResultHolds(x)'
    BY DEF CallHolds, ResultHolds, LedgerRests, CallerRests, Known, Early,
           Charge
  <1>2. SettlementHolds(x)'
    BY DEF CallHolds, ResultHolds, SettlementHolds, LedgerRests,
           CallerRests, NoEarlySettlement, Known, Settled
  <1>3. CorrectionHolds(x)'
    BY DEF CallHolds, SettlementHolds, CorrectionHolds, LedgerRests, Known,
           Settled, Corrected
  <1>4. ForgottenHolds(x)'
    BY DEF CallHolds, ForgottenHolds, ResultHolds, LedgerRests, CallerRests,
           Known
  <1> QED
    BY <1>1, <1>2, <1>3, <1>4 DEF CallHolds

(* The Team handles a settlement, the first or once more; the row of the   *)
(* call stays or is treated by what the Team answers.                      *)
LEMMA SettlingHolds ==
  ASSUME Types, NEW c \in Call, CallHolds(c), result[c] # None,
         SettleModelCall(c, result[c]), Types',
         pc'[c] \in {pc[c], "over"},
         charge' = charge, result' = result,
         record' = record \/ Forget(c)
  PROVE  CallHolds(c)'
  <1>1. Known(c) /\ result[c] \in Results
    BY DEF CallHolds, ResultHolds, Types, CallerTypes
  <1>2. UNCHANGED <<correction, superseded, overruled>>
    BY DEF SettleModelCall
  <1>3. /\ attempt'[c].state = result[c].state
        /\ attempt'[c].cost = result[c].cost
        /\ Settled(c) => event'[c] = event[c]
        /\ ~Settled(c) =>
             event'[c] = IF ~Corrected(c) THEN "none"
                         ELSE IF Agrees(c, result[c]) THEN "confirmed"
                         ELSE "conflict"
    <2>1. CASE attempt[c].state = "reserved"
      <3>1. attempt' = [attempt EXCEPT ![c] =
               [attempt[c] EXCEPT !.state = result[c].state,
                                  !.cost = result[c].cost]]
        BY <2>1 DEF SettleModelCall
      <3>2. attempt'[c] = [attempt[c] EXCEPT !.state = result[c].state,
                                             !.cost = result[c].cost]
        BY <3>1 DEF Types, LedgerTypes
      <3>3. attempt[c] \in [state : State, cost : AnyCost, month : Nat,
                            approved : BOOLEAN, card : AnyCard]
        BY DEF Types, LedgerTypes
      <3>4. /\ attempt'[c].state = result[c].state
            /\ attempt'[c].cost = result[c].cost
        BY <3>2, <3>3
      <3>5. event[c] = "none"
        BY <2>1 DEF CallHolds, SettlementHolds, Settled
      <3> QED
        BY <2>1, <3>4, <3>5
           DEF SettleModelCall, Settled, Types, LedgerTypes
    <2>2. CASE attempt[c].state # "reserved"
      <3>1. Settled(c)
        BY <1>1, <2>2 DEF Types, LedgerTypes, State, Known, Settled
      <3>2. attempt' = attempt /\ event' = event
        BY <2>2 DEF SettleModelCall
      <3>3. /\ attempt[c].state = result[c].state
            /\ attempt[c].cost = result[c].cost
        BY <3>1 DEF CallHolds, SettlementHolds
      <3> QED
        BY <3>1, <3>2, <3>3
    <2> QED
      BY <2>1, <2>2
  <1>4. Settled(c)' /\ Known(c)'
    BY <1>1, <1>3 DEF Results, Settled, Known
  <1>5. record'[c] = record[c]
        \/ record'[c] = IF event'[c] = "conflict" /\ record[c] # "none"
                        THEN "conflict" ELSE "none"
    BY DEF Forget, Receipt, Types, CallerTypes, LedgerTypes
  <1>6. record'[c] # "final" \/ record[c] = "final"
    BY <1>5
  <1>7. ResultHolds(c)'
    <2>1. pc'[c] # "sent"
      BY DEF CallHolds, ResultHolds
    <2>2. pc'[c] \notin Early \union {"starting"}
      BY DEF CallHolds, ResultHolds, Early
    <2> QED
      BY <1>4, <2>1, <2>2 DEF CallHolds, ResultHolds, Charge
  <1>8. SettlementHolds(c)'
    BY <1>3, <1>4 DEF SettlementHolds
  <1>9. CorrectionHolds(c)'
    <2>1. Corrected(c)' <=> Corrected(c)
      BY <1>2 DEF Corrected
    <2>2. CASE Settled(c)
      <3>1. event'[c] = event[c] /\ attempt'[c].cost = attempt[c].cost
        BY <1>3, <2>2 DEF CallHolds, SettlementHolds
      <3> QED
        BY <1>2, <1>4, <2>1, <2>2, <3>1 DEF CallHolds, CorrectionHolds
    <2>3. CASE ~Settled(c)
      BY <1>2, <1>3, <1>4, <2>1, <2>3
         DEF CallHolds, CorrectionHolds, Agrees
    <2> QED
      BY <2>2, <2>3
  <1>10. ForgottenHolds(c)'
    <2> SUFFICES ASSUME result[c] # NotSent, record'[c] = "none"
                 PROVE  event'[c] # "conflict"
      BY <1>3 DEF ForgottenHolds
    <2>1. CASE record[c] # "none"
      BY <1>5, <2>1
    <2>2. CASE record[c] = "none"
      <3>1. event[c] # "conflict" /\ Settled(c)
        BY <1>1, <2>2 DEF CallHolds, ForgottenHolds, Settled, Results
      <3> QED
        BY <1>3, <3>1
    <2> QED
      BY <2>1, <2>2
  <1> QED
    BY <1>7, <1>8, <1>9, <1>10 DEF CallHolds

-----------------------------------------------------------------------------
(* The Team's operations keep their types and, for each call, what they    *)
(* are relied on for.                                                      *)

LEMMA AmountTypes ==
  ASSUME NEW c \in Call
  PROVE  Price[c] \in Nat /\ Price[c] > 0 /\ Charge(c) \in Nat
         /\ Charge(c) >= Price[c] /\ (c \in Bounded => Charge(c) = Price[c])
  BY LedgerAssumption DEF Charge

LEMMA CardForType ==
  ASSUME Types, NEW c \in Call
  PROVE  CardFor(c) \in AnyCard
  <1>1. \A x \in Call : Version(x) \in AnyRef
    BY DEF Types, LedgerTypes, Version, AnyRef
  <1>2. {Version(x) : x \in Pending} \subseteq AnyRef
    BY <1>1 DEF Pending
  <1> QED
    BY <1>2, AmountTypes DEF CardFor, AnyCard, Types, LedgerTypes

LEMMA ReserveEffect ==
  ASSUME Types, NEW c \in Call, NEW card \in AnyCard,
         ReserveModelCall(c, card)
  PROVE  /\ LedgerTypes'
         /\ \A x \in Call : LedgerRests(x)
         /\ \A x \in Call \ {c} : attempt'[x] = attempt[x]
  <1> DEFINE new == [state |-> "reserved", cost |-> Unknown,
                     month |-> month, approved |-> approval # "none",
                     card |-> card]
  <1>1. new \in [state : State, cost : AnyCost, month : Nat,
                 approved : BOOLEAN, card : AnyCard]
    BY DEF State, AnyCost, Types, LedgerTypes
  <1>2. UNCHANGED <<correction, event, superseded, edits, overruled, month>>
    BY DEF ReserveModelCall
  <1>3. new.state = "reserved" /\ new.cost = Unknown
    OBVIOUS
  <1>4. \/ attempt' = attempt
        \/ ~Known(c) /\ attempt' = [attempt EXCEPT ![c] = new]
    BY DEF ReserveModelCall
  <1> HIDE DEF new
  <1> QED
    BY <1>1, <1>2, <1>3, <1>4 DEF Types, LedgerTypes, LedgerRests

LEMMA SettleEffect ==
  ASSUME Types, NEW c \in Call, NEW s \in Results, SettleModelCall(c, s)
  PROVE  /\ LedgerTypes'
         /\ \A x \in Call \ {c} : LedgerRests(x)
         /\ \A x \in Call : correction'[x] = correction[x]
  <1> DEFINE new == [attempt[c] EXCEPT !.state = s.state, !.cost = s.cost]
  <1>1. new \in [state : State, cost : AnyCost, month : Nat,
                 approved : BOOLEAN, card : AnyCard]
    BY DEF Types, LedgerTypes, State, Results
  <1>2. UNCHANGED <<correction, superseded, overruled, month>>
    BY DEF SettleModelCall
  <1>3. attempt' \in {attempt, [attempt EXCEPT ![c] = new]}
    BY DEF SettleModelCall
  <1>4. /\ event' \in [Call -> Event]
        /\ \A x \in Call \ {c} : event'[x] = event[x]
    BY DEF SettleModelCall, Types, LedgerTypes, Event
  <1>5. edits' \in [Call -> Nat]
    BY DEF SettleModelCall, Types, LedgerTypes
  <1> HIDE DEF new
  <1> QED
    BY <1>1, <1>2, <1>3, <1>4, <1>5 DEF Types, LedgerTypes, LedgerRests

(* Who corrects a call has seen its record as it is.                       *)
LEMMA ReconcileEffect ==
  ASSUME Types, draft # None, ReconcileModelCost(draft),
         NEW c \in Call, c = draft.seen.call
  PROVE  /\ LedgerTypes'
         /\ \A x \in Call \ {c} : LedgerRests(x)
         /\ attempt' = attempt /\ event' = event
         /\ Known(c) /\ Corrected(c)'
         /\ attempt[c].state # "reserved" => c \in overruled'
         /\ c \in superseded' => c \in superseded \/ event[c] # "none"
         /\ overruled \subseteq overruled'
  <1>1. draft \in [seen : AnyRef, notSent : BOOLEAN, cost : Nat]
        /\ draft.seen.state # "none"
    BY DEF Types, CallerTypes
  <1>2. draft.seen.state = attempt[c].state
    BY DEF ReconcileModelCost, CanReconcile, Version
  <1>3. correction' = [correction EXCEPT ![c] =
                         [cost |-> draft.cost, notSent |-> draft.notSent]]
    BY DEF ReconcileModelCost
  <1>4. /\ attempt' = attempt /\ event' = event /\ month' = month
        /\ edits' = [edits EXCEPT ![c] = edits[c] + 1]
        /\ superseded' = IF event[c] # "none" THEN superseded \union {c}
                         ELSE superseded
        /\ overruled' = IF draft.seen.state # "reserved"
                        THEN overruled \union {c} ELSE overruled
    BY DEF ReconcileModelCost
  <1>5. draft.cost \in Nat /\ draft.notSent \in BOOLEAN /\ draft.cost # Unknown
    BY <1>1, LedgerAssumption
  <1>6. LedgerTypes'
    BY <1>3, <1>4, <1>5 DEF Types, LedgerTypes, AnyCost
  <1>7. \A x \in Call \ {c} : LedgerRests(x)
    BY <1>3, <1>4 DEF Types, LedgerTypes, LedgerRests
  <1>8. Corrected(c)'
    <2>1. correction'[c] = [cost |-> draft.cost, notSent |-> draft.notSent]
      BY <1>3 DEF Types, LedgerTypes
    <2>2. correction'[c].cost = draft.cost
      BY <2>1
    <2> QED
      BY <1>5, <2>2 DEF Corrected, NoCorrection
  <1> QED
    BY <1>1, <1>2, <1>4, <1>6, <1>7, <1>8 DEF Known

LEMMA RestEffect ==
  ASSUME Types, UNCHANGED callVars, month' \in Nat
  PROVE  LedgerTypes' /\ \A x \in Call : LedgerRests(x)
  BY DEF Types, LedgerTypes, LedgerRests, callVars

LEMMA TeamUnchanged ==
  ASSUME Types, UNCHANGED teamVars
  PROVE  LedgerTypes' /\ \A x \in Call : LedgerRests(x)
  BY RestEffect DEF teamVars, Types, LedgerTypes

-----------------------------------------------------------------------------
(* The steps, most of them before a call is sent or after it is over.      *)

LEMMA BeginKeeps ==
  ASSUME IInv, NEW c \in Call, Begin(c)
  PROVE  IInv'
  <1>1. LedgerTypes' /\ \A x \in Call : LedgerRests(x)
    BY TeamUnchanged DEF IInv, Begin
  <1>2. CallerTypes'
    BY DEF IInv, Types, CallerTypes, Begin, Goto, Label, AnyCard
  <1>3. \A x \in Call : CallerRests(x) /\ NoEarlySettlement(x)
    BY DEF IInv, Types, CallerTypes, Begin, Goto, CallerRests, Early,
           NoEarlySettlement, CallHolds, SettlementHolds
  <1> QED
    BY <1>1, <1>2, <1>3, CallRests DEF IInv, Types

LEMMA ReserveKeeps ==
  ASSUME IInv, NEW c \in Call, ReserveAnswer(c)
  PROVE  IInv'
  <1>1. /\ LedgerTypes' /\ \A x \in Call : LedgerRests(x)
        /\ \A x \in Call \ {c} : attempt'[x] = attempt[x]
    BY ReserveEffect DEF IInv, Types, CallerTypes, ReserveAnswer
  <1>2. CallerTypes'
    BY DEF IInv, Types, CallerTypes, ReserveAnswer, Goto, Label, AnyCard
  <1>3. \A x \in Call : CallerRests(x) /\ NoEarlySettlement(x)
    BY DEF IInv, Types, CallerTypes, ReserveAnswer, Goto, CallerRests, Early,
           NoEarlySettlement, CallHolds, SettlementHolds, Admitted
  <1> QED
    BY <1>1, <1>2, <1>3, CallRests DEF IInv, Types

LEMMA PrepareKeeps ==
  ASSUME IInv, NEW c \in Call, PrepareAnswer(c)
  PROVE  IInv'
  <1>1. LedgerTypes' /\ \A x \in Call : LedgerRests(x)
    BY TeamUnchanged, RestEffect
       DEF IInv, PrepareAnswer, PrepareContinuation, Types, LedgerTypes
  <1>2. CallerTypes'
    BY CardForType
       DEF IInv, Types, CallerTypes, PrepareAnswer, End, Goto, Label, AnyCard
  <1>3. \A x \in Call : CallerRests(x) /\ NoEarlySettlement(x)
    BY DEF IInv, Types, CallerTypes, PrepareAnswer, End, Goto, CallerRests,
           Early, NoEarlySettlement, CallHolds, SettlementHolds
  <1> QED
    BY <1>1, <1>2, <1>3, CallRests DEF IInv, Types

LEMMA ResumeKeeps ==
  ASSUME IInv, NEW c \in Call, Resume(c) \/ Cancel(c)
  PROVE  IInv'
  <1>1. LedgerTypes' /\ \A x \in Call : LedgerRests(x)
    BY TeamUnchanged DEF IInv, Resume, Cancel
  <1>2. CallerTypes'
    BY DEF IInv, Types, CallerTypes, Resume, Cancel, End, Goto, Label, AnyCard
  <1>3. \A x \in Call : CallerRests(x) /\ NoEarlySettlement(x)
    BY DEF IInv, Types, CallerTypes, Resume, Cancel, End, Goto, CallerRests,
           Early, NoEarlySettlement, CallHolds, SettlementHolds
  <1> QED
    BY <1>1, <1>2, <1>3, CallRests DEF IInv, Types

(* A step of call c leaves the other calls alone.                          *)
LEMMA OthersRest ==
  ASSUME IInv, NEW c \in Call,
         \A x \in Call \ {c} :
           /\ LedgerRests(x)
           /\ pc'[x] = pc[x] /\ charge'[x] = charge[x]
           /\ result'[x] = result[x] /\ record'[x] = record[x],
         retrying' \in {retrying, None}, late' \subseteq late
  PROVE  \A x \in Call \ {c} : CallHolds(x)'
  <1> SUFFICES ASSUME NEW x \in Call, x # c
               PROVE  CallHolds(x)'
    OBVIOUS
  <1>1. CallerRests(x)
    BY DEF CallerRests
  <1>2. NoEarlySettlement(x)
    BY NoneAssumption DEF IInv, CallHolds, SettlementHolds, NoEarlySettlement
  <1> QED
    BY <1>1, <1>2, CallRests DEF IInv

LEMMA NotSentType == NotSent \in Results /\ NotSent # None /\ None \notin Results
  BY NoneAssumption DEF NotSent, Results, AnyCost, State

LEMMA SendKeeps ==
  ASSUME IInv, NEW c \in Call, Send(c)
  PROVE  IInv'
  <1>1. LedgerTypes' /\ \A x \in Call : LedgerRests(x)
    BY TeamUnchanged DEF IInv, Send
  <1>2. UNCHANGED <<attempt, correction, event, superseded, overruled>>
    BY DEF Send, teamVars, callVars
  <1>3. /\ pc[c] = "starting" /\ UNCHANGED <<asks, accepted, retrying, draft, late>>
        /\ Types /\ CallHolds(c) /\ charge[c] = 0 /\ result[c] = None /\ Known(c)
    BY DEF Send, IInv, CallHolds, ResultHolds
  <1>4. CASE /\ result' = [result EXCEPT ![c] = NotSent]
             /\ pc' = [pc EXCEPT ![c] = "settling"]
             /\ UNCHANGED <<record, charge>>
    <2>1. CallerTypes'
      BY <1>3, <1>4, NotSentType DEF Types, CallerTypes, Label
    <2>2. /\ pc'[c] = "settling" /\ result'[c] = NotSent /\ charge'[c] = 0
          /\ record'[c] = record[c]
      BY <1>3, <1>4 DEF Types, CallerTypes
    <2>3. CallHolds(c)'
      BY <1>2, <1>3, <2>2, NotSentType
         DEF CallHolds, ResultHolds, SettlementHolds, CorrectionHolds,
             ForgottenHolds, Known, Settled, Corrected, Early, NotSent
    <2>4. \A x \in Call \ {c} : CallHolds(x)'
      BY <1>1, <1>3, <1>4, OthersRest DEF Types, CallerTypes
    <2> QED
      BY <1>1, <2>1, <2>3, <2>4 DEF IInv, Types
  <1>5. CASE /\ record' = [record EXCEPT ![c] = "started"]
             /\ result' = [result EXCEPT ![c] = NotSent]
             /\ pc' = [pc EXCEPT ![c] = "finishing"]
             /\ UNCHANGED charge
    <2>1. CallerTypes'
      BY <1>3, <1>5, NotSentType DEF Types, CallerTypes, Label, Record
    <2>2. /\ pc'[c] = "finishing" /\ result'[c] = NotSent /\ charge'[c] = 0
          /\ record'[c] = "started"
      BY <1>3, <1>5 DEF Types, CallerTypes
    <2>3. CallHolds(c)'
      BY <1>2, <1>3, <2>2, NotSentType
         DEF CallHolds, ResultHolds, SettlementHolds, CorrectionHolds,
             ForgottenHolds, Known, Settled, Corrected, Early, NotSent
    <2>4. \A x \in Call \ {c} : CallHolds(x)'
      BY <1>1, <1>3, <1>5, OthersRest DEF Types, CallerTypes
    <2> QED
      BY <1>1, <2>1, <2>3, <2>4 DEF IInv, Types
  <1>6. CASE /\ record' = [record EXCEPT ![c] = "started"]
             /\ charge' = [charge EXCEPT ![c] = Charge(c)]
             /\ pc' = [pc EXCEPT ![c] = "sent"]
             /\ UNCHANGED result
    <2>1. CallerTypes'
      BY <1>3, <1>6, AmountTypes DEF Types, CallerTypes, Label, Record
    <2>2. /\ pc'[c] = "sent" /\ result'[c] = None /\ charge'[c] = Charge(c)
          /\ record'[c] = "started"
      BY <1>3, <1>6 DEF Types, CallerTypes
    <2>3. CallHolds(c)'
      BY <1>2, <1>3, <2>2
         DEF CallHolds, ResultHolds, SettlementHolds, CorrectionHolds,
             ForgottenHolds, Known, Settled, Corrected, Early, Charge
    <2>4. \A x \in Call \ {c} : CallHolds(x)'
      BY <1>1, <1>3, <1>6, OthersRest DEF Types, CallerTypes
    <2> QED
      BY <1>1, <2>1, <2>3, <2>4 DEF IInv, Types
  <1> QED
    BY <1>4, <1>5, <1>6 DEF Send, NoteStart, Goto

LEMMA ReturnKeeps ==
  ASSUME IInv, NEW c \in Call, Return(c)
  PROVE  IInv'
  <1>1. LedgerTypes' /\ \A x \in Call : LedgerRests(x)
    BY TeamUnchanged DEF IInv, Return
  <1>2. UNCHANGED <<attempt, correction, event, superseded, overruled>>
    BY DEF Return, teamVars, callVars
  <1>3. PICK r \in {[state |-> "completed", cost |-> charge[c]],
                    [state |-> "completed", cost |-> Unknown],
                    [state |-> "failed", cost |-> Unknown]} :
          result' = [result EXCEPT ![c] = r]
    BY DEF Return
  <1>4. /\ r \in Results /\ r # None /\ r.cost \in {charge[c], Unknown}
        /\ r.state # "not_sent" /\ r # NotSent
    BY NotSentType DEF IInv, Types, CallerTypes, Results, AnyCost, NotSent
  <1>5. /\ pc[c] = "sent" /\ Types /\ CallHolds(c) /\ Known(c)
        /\ UNCHANGED <<charge, record, asks, accepted, retrying, draft, late>>
        /\ pc' = [pc EXCEPT ![c] = "finishing"]
        /\ record[c] = "started"
    BY DEF Return, Goto, IInv, CallHolds, ResultHolds
  <1>6. CallerTypes'
    BY <1>3, <1>4, <1>5 DEF Types, CallerTypes, Label
  <1>7. pc'[c] = "finishing" /\ result'[c] = r
    BY <1>3, <1>5 DEF Types, CallerTypes
  <1>8. CallHolds(c)'
    BY <1>2, <1>4, <1>5, <1>7
       DEF CallHolds, ResultHolds, SettlementHolds, CorrectionHolds,
           ForgottenHolds, Known, Settled, Corrected, Early, Charge
  <1>9. \A x \in Call \ {c} : CallHolds(x)'
    BY <1>1, <1>3, <1>5, OthersRest DEF Types, CallerTypes
  <1> QED
    BY <1>1, <1>6, <1>8, <1>9 DEF IInv, Types

LEMMA NoteResultKeeps ==
  ASSUME IInv, NEW c \in Call, NoteResult(c)
  PROVE  IInv'
  <1>1. LedgerTypes' /\ \A x \in Call : LedgerRests(x)
    BY TeamUnchanged DEF IInv, NoteResult
  <1>2. UNCHANGED <<attempt, correction, event, superseded, overruled>>
    BY DEF NoteResult, teamVars, callVars
  <1>3. /\ pc[c] = "finishing" /\ Types /\ CallHolds(c) /\ result[c] # None
        /\ UNCHANGED <<charge, result, asks, accepted, retrying, draft, late>>
    BY DEF NoteResult, IInv, CallHolds, ResultHolds
  <1>4. /\ pc'[c] \in {"settling", "over"} /\ record'[c] \in {"final", record[c]}
        /\ \A x \in Call \ {c} : pc'[x] = pc[x] /\ record'[x] = record[x]
        /\ CallerTypes'
    BY <1>3 DEF Types, CallerTypes, NoteResult, Goto, Label, Record
  <1>5. CallHolds(c)'
    BY <1>2, <1>3, <1>4
       DEF CallHolds, ResultHolds, SettlementHolds, CorrectionHolds,
           ForgottenHolds, Known, Settled, Corrected, Early, Charge
  <1>6. \A x \in Call \ {c} : CallHolds(x)'
    BY <1>1, <1>3, <1>4, OthersRest
  <1> QED
    BY <1>1, <1>4, <1>5, <1>6 DEF IInv, Types

(* The Team settles call c, whoever asked for it.                          *)
LEMMA SettlingKeeps ==
  ASSUME IInv, NEW c \in Call, result[c] # None,
         SettleModelCall(c, result[c]),
         pc' \in {pc, [pc EXCEPT ![c] = "over"]},
         record' = record \/ Forget(c),
         retrying' \in {retrying, None}, late' \subseteq late,
         UNCHANGED <<charge, result, asks, accepted, draft>>
  PROVE  IInv'
  <1>1. /\ LedgerTypes' /\ \A x \in Call \ {c} : LedgerRests(x)
    BY SettleEffect DEF IInv, Types, CallerTypes
  <1>2. /\ CallerTypes' /\ pc'[c] \in {pc[c], "over"}
        /\ \A x \in Call \ {c} : pc'[x] = pc[x] /\ record'[x] = record[x]
    BY DEF IInv, Types, CallerTypes, Label, Forget, Record
  <1>3. CallHolds(c)'
    BY <1>1, <1>2, SettlingHolds DEF IInv, Types
  <1>4. \A x \in Call \ {c} : CallHolds(x)'
    BY <1>1, <1>2, OthersRest
  <1> QED
    BY <1>1, <1>2, <1>3, <1>4 DEF IInv, Types

LEMMA SettleKeeps ==
  ASSUME IInv, NEW c \in Call, SettleAnswer(c)
  PROVE  IInv'
  <1>1. result[c] # None
    BY DEF SettleAnswer, IInv, CallHolds, ResultHolds
  <1> QED
    BY <1>1, SettlingKeeps DEF SettleAnswer, Goto

LEMMA RetryAnswerKeeps ==
  ASSUME IInv, RetryAnswer
  PROVE  IInv'
  <1>1. retrying \in Call
    BY DEF RetryAnswer, IInv, Types, CallerTypes
  <1>2. result[retrying] # None
    BY <1>1 DEF IInv, CallHolds, SettlementHolds
  <1>3. PICK c \in Call : c = retrying
    BY <1>1
  <1> QED
    BY <1>2, <1>3, SettlingKeeps DEF RetryAnswer

LEMMA HandleLateKeeps ==
  ASSUME IInv, NEW m \in late, HandleLate(m)
  PROVE  IInv'
  <1>1. /\ m.call \in Call /\ m.card \in AnyCard
        /\ m.op \in {"reserve", "settle"} /\ late' \subseteq late
        /\ UNCHANGED <<pc, charge, result, record, asks, accepted, retrying,
                       draft>>
    BY DEF IInv, Types, CallerTypes, HandleLate
  <1>2. CASE m.op = "reserve"
    <2>1. LedgerTypes' /\ \A x \in Call : LedgerRests(x)
      BY <1>1, <1>2, ReserveEffect DEF IInv, HandleLate
    <2>2. CallerTypes'
      BY <1>1 DEF IInv, Types, CallerTypes
    <2>3. \A x \in Call : CallerRests(x) /\ NoEarlySettlement(x)
      BY <1>1 DEF IInv, CallerRests, NoEarlySettlement, CallHolds,
                  SettlementHolds
    <2> QED
      BY <2>1, <2>2, <2>3, CallRests DEF IInv, Types
  <1>3. CASE m.op = "settle"
    <2>1. result[m.call] # None /\ SettleModelCall(m.call, result[m.call])
      BY <1>1, <1>3 DEF IInv, CallHolds, SettlementHolds, HandleLate
    <2> QED
      BY <1>1, <2>1, SettlingKeeps
  <1> QED
    BY <1>1, <1>2, <1>3

(* What is left on the wire is a request that was being made.              *)
LEMMA InFlightHolds ==
  ASSUME IInv, NEW m \in InFlight
  PROVE  /\ m \in [op : {"reserve", "settle"}, call : Call, card : AnyCard]
         /\ m.op = "settle" => result[m.call] # None
  <1>1. CASE \E c \in Call : m = Reservation(c)
    BY <1>1 DEF Reservation, IInv, Types, CallerTypes
  <1>2. CASE \E c \in Call : m = Settling(c) /\ (pc[c] = "settling" \/ c = retrying)
    <2>1. PICK c \in Call : m = Settling(c)
                            /\ (pc[c] = "settling" \/ c = retrying)
      BY <1>2
    <2>2. result[c] # None
      BY <2>1 DEF IInv, CallHolds, ResultHolds, SettlementHolds
    <2> QED
      BY <2>1, <2>2 DEF Settling, AnyCard
  <1> QED
    BY <1>1, <1>2 DEF InFlight

LEMMA GivingUpKeeps ==
  ASSUME IInv, UNCHANGED teamVars,
         pc' \in [Call -> Label],
         \A x \in Call : pc'[x] \in {pc[x], "over"},
         UNCHANGED <<charge, result, record, draft>>,
         asks' \in [Call -> AnyCard], accepted' \in AnyCard,
         retrying' \in {retrying, None},
         late' \subseteq late \union InFlight
  PROVE  IInv'
  <1>1. LedgerTypes' /\ \A x \in Call : LedgerRests(x)
    BY TeamUnchanged DEF IInv
  <1>2. CallerTypes'
    BY InFlightHolds DEF IInv, Types, CallerTypes
  <1>3. \A x \in Call : CallerRests(x) /\ NoEarlySettlement(x)
    BY InFlightHolds, NoneAssumption
       DEF IInv, CallerRests, NoEarlySettlement, CallHolds, SettlementHolds
  <1> QED
    BY <1>1, <1>2, <1>3, CallRests DEF IInv, Types

LEMMA GiveUpKeeps ==
  ASSUME IInv, NEW c \in Call, GiveUp(c)
  PROVE  IInv'
  BY GivingUpKeeps
     DEF GiveUp, OnTheWire, End, Goto, IInv, Types, CallerTypes, Label, AnyCard

LEMMA GiveUpRetryKeeps ==
  ASSUME IInv, GiveUpRetry
  PROVE  IInv'
  <1>1. Settling(retrying) \in InFlight
    BY DEF GiveUpRetry, IInv, Types, CallerTypes, InFlight
  <1> QED
    BY <1>1, GivingUpKeeps
       DEF GiveUpRetry, OnTheWire, IInv, Types, CallerTypes

LEMMA CrashKeeps ==
  ASSUME IInv, Crash
  PROVE  IInv'
  BY GivingUpKeeps
     DEF Crash, OnTheWire, IInv, Types, CallerTypes, Label, AnyCard

(* Starting a retry or a correction, and what leads and time do.           *)
LEMMA RetryKeeps ==
  ASSUME IInv, NEW c \in Call, Retry(c)
  PROVE  IInv'
  <1>1. LedgerTypes' /\ \A x \in Call : LedgerRests(x)
    BY TeamUnchanged DEF IInv, Retry
  <1>2. CallerTypes'
    BY DEF IInv, Types, CallerTypes, Retry
  <1>3. \A x \in Call : CallerRests(x) /\ NoEarlySettlement(x)
    BY DEF IInv, CallerRests, NoEarlySettlement, CallHolds, SettlementHolds,
           Retry
  <1> QED
    BY <1>1, <1>2, <1>3, CallRests DEF IInv, Types

LEMMA LookKeeps ==
  ASSUME IInv, NEW c \in Call, Look(c)
  PROVE  IInv'
  <1>1. LedgerTypes' /\ \A x \in Call : LedgerRests(x)
    BY TeamUnchanged DEF IInv, Look
  <1>2. PICK notSent \in BOOLEAN :
          draft' = [seen |-> Version(c), notSent |-> notSent,
                    cost |-> IF notSent THEN 0 ELSE Price[c]]
    BY DEF Look
  <1>3. Version(c) \in AnyRef /\ Version(c).state # "none"
    BY DEF Look, Known, Version, AnyRef, IInv, Types, LedgerTypes
  <1>4. CallerTypes'
    BY <1>2, <1>3, AmountTypes DEF IInv, Types, CallerTypes, Look
  <1>5. \A x \in Call : CallerRests(x) /\ NoEarlySettlement(x)
    BY DEF IInv, CallerRests, NoEarlySettlement, CallHolds, SettlementHolds,
           Look
  <1> QED
    BY <1>1, <1>4, <1>5, CallRests DEF IInv, Types

LEMMA SubmitKeeps ==
  ASSUME IInv, Submit
  PROVE  IInv'
  <1>1. /\ CallerTypes' /\ \A x \in Call : CallerRests(x) /\ NoEarlySettlement(x)
    BY DEF IInv, Types, CallerTypes, Submit, CallerRests, NoEarlySettlement,
           CallHolds, SettlementHolds
  <1>2. CASE UNCHANGED teamVars
    BY <1>1, <1>2, TeamUnchanged, CallRests DEF IInv, Types
  <1>3. CASE ReconcileModelCost(draft)
    <2>1. draft # None /\ draft.seen \in AnyRef
      BY DEF Submit, IInv, Types, CallerTypes
    <2>2. PICK c \in Call : c = draft.seen.call
      BY <2>1 DEF AnyRef
    <2>3. /\ LedgerTypes'
          /\ \A x \in Call \ {c} : LedgerRests(x)
          /\ attempt' = attempt /\ event' = event
          /\ Known(c) /\ Corrected(c)'
          /\ attempt[c].state # "reserved" => c \in overruled'
          /\ c \in superseded' => c \in superseded \/ event[c] # "none"
          /\ overruled \subseteq overruled'
      BY <1>3, <2>1, <2>2, ReconcileEffect DEF IInv
    <2>4. UNCHANGED <<pc, charge, result, record, retrying, late>>
      BY DEF Submit
    <2>5. Settled(c) => c \in overruled'
      BY <2>3 DEF Settled
    <2>6. CallHolds(c)'
      BY <2>3, <2>4, <2>5
         DEF IInv, CallHolds, ResultHolds, SettlementHolds, CorrectionHolds,
             ForgottenHolds, Known, Settled, Charge
    <2>7. \A x \in Call \ {c} : CallHolds(x)'
      BY <1>1, <2>3, CallRests DEF IInv
    <2> QED
      BY <1>1, <2>3, <2>6, <2>7 DEF IInv, Types
  <1> QED
    BY <1>2, <1>3 DEF Submit

LEMMA TeamStepKeeps ==
  ASSUME IInv, TeamStep \/ UNCHANGED vars
  PROVE  IInv'
  <1>1. UNCHANGED callVars /\ month' \in Nat /\ UNCHANGED callerVars
    BY DEF TeamStep, GrantApproval, ExpireApproval, NextMonth,
           ConfirmContinuation, ExpireCard, vars, teamVars, IInv, Types,
           LedgerTypes
  <1>2. LedgerTypes' /\ \A x \in Call : LedgerRests(x)
    BY <1>1, RestEffect DEF IInv
  <1>3. CallerTypes'
    BY <1>1 DEF IInv, Types, CallerTypes, callerVars
  <1>4. \A x \in Call : CallerRests(x) /\ NoEarlySettlement(x)
    BY <1>1 DEF IInv, CallerRests, NoEarlySettlement, CallHolds,
                SettlementHolds, callerVars
  <1> QED
    BY <1>2, <1>3, <1>4, CallRests DEF IInv, Types

-----------------------------------------------------------------------------
(* The invariant holds in every reachable state.                           *)

LEMMA InitHolds ==
  ASSUME Init
  PROVE  IInv
  <1>1. NoAttempt \in [state : State, cost : AnyCost, month : Nat,
                       approved : BOOLEAN, card : AnyCard]
        /\ NoCorrection \in [cost : AnyCost, notSent : BOOLEAN]
    BY DEF NoAttempt, NoCorrection, State, AnyCost, AnyCard
  <1>2. LedgerTypes
    BY <1>1 DEF Init, LedgerInit, LedgerTypes, Event
  <1>3. CallerTypes
    BY DEF Init, CallerTypes, Label, Record, AnyCard
  <1>4. \A c \in Call : CallHolds(c)
    BY NoneAssumption
       DEF Init, LedgerInit, CallHolds, ResultHolds, SettlementHolds,
           CorrectionHolds, ForgottenHolds, Early, Settled, Corrected,
           NoAttempt, NoCorrection
  <1> QED
    BY <1>2, <1>3, <1>4 DEF IInv, Types

LEMMA StepKeeps ==
  ASSUME IInv, [Next]_vars
  PROVE  IInv'
  <1>1. ASSUME NEW c \in Call, CallStep(c)
        PROVE  IInv'
    BY <1>1, BeginKeeps, ReserveKeeps, PrepareKeeps, ResumeKeeps, SendKeeps,
       ReturnKeeps, NoteResultKeeps, SettleKeeps, RetryKeeps, GiveUpKeeps,
       LookKeeps DEF CallStep
  <1>2. CASE RetryAnswer \/ GiveUpRetry \/ Crash \/ Submit
    BY <1>2, RetryAnswerKeeps, GiveUpRetryKeeps, CrashKeeps, SubmitKeeps
  <1>3. CASE TeamStep \/ UNCHANGED vars
    BY <1>3, TeamStepKeeps
  <1>4. CASE \E m \in late : HandleLate(m)
    BY <1>4, HandleLateKeeps
  <1> QED
    BY <1>1, <1>2, <1>3, <1>4 DEF Next

LEMMA Invariance == Spec => []IInv
  <1>1. Init => IInv
    BY InitHolds
  <1>2. IInv /\ [Next]_vars => IInv'
    BY StepKeeps
  <1> QED
    BY <1>1, <1>2, PTL DEF Spec

-----------------------------------------------------------------------------
(* The theorems.                                                           *)

(* Every call that was sent is in the ledger with its charge or more, as   *)
(* unknown, or as a lead has put it, whatever was lost on the way.         *)
THEOREM Booked == Spec => []EveryCallIsBooked
  <1>1. IInv => EveryCallIsBooked
    <2> SUFFICES ASSUME IInv, NEW c \in Call, charge[c] > 0,
                        ~Corrected(c), BudgetCost(c) # Unknown
                 PROVE  Known(c) /\ BudgetCost(c) >= charge[c]
      <3>1. \A c \in Call : IInv /\ charge[c] > 0 => Known(c)
        BY DEF IInv, CallHolds, ResultHolds
      <3> QED
        BY <3>1 DEF EveryCallIsBooked
    <2>1. Known(c) /\ charge[c] = Charge(c) /\ charge[c] \in Nat
      BY DEF IInv, CallHolds, ResultHolds, Types, CallerTypes
    <2>2. attempt[c].cost \in {charge[c], Unknown}
      BY DEF IInv, CallHolds, ResultHolds, SettlementHolds
    <2>3. CASE CostOf(c) = Unknown
      <3>1. c \in Bounded /\ BudgetCost(c) = Price[c]
        BY <2>3 DEF BudgetCost
      <3> QED
        BY <2>1, <3>1, AmountTypes
    <2>4. CASE CostOf(c) # Unknown
      <3>1. CostOf(c) = attempt[c].cost
        BY <2>4 DEF CostOf
      <3>2. BudgetCost(c) = charge[c]
        BY <2>2, <2>4, <3>1 DEF BudgetCost
      <3> QED
        BY <2>1, <3>2
    <2> QED
      BY <2>3, <2>4
  <1> QED
    BY <1>1, Invariance, PTL

(* The desktop forgets the result of a call only when the Team has it.     *)
THEOREM ForgottenIsSettled == Spec => []ForgottenMeansSettled
  <1>1. IInv => ForgottenMeansSettled
    BY DEF IInv, CallHolds, ForgottenHolds, ForgottenMeansSettled
  <1> QED
    BY <1>1, Invariance, PTL

(* A correction made without knowing the settlement never hides it.        *)
THEOREM OverruledKnowingly == Spec => []LeadsOverruleKnowingly
  <1>1. IInv => LeadsOverruleKnowingly
    <2> SUFFICES ASSUME IInv, NEW c \in Call, attempt[c].cost # Unknown,
                        c \notin overruled
                 PROVE  CostOf(c) \in {attempt[c].cost, Unknown}
      BY DEF LeadsOverruleKnowingly
    <2>1. Settled(c) /\ c \notin superseded
      BY DEF IInv, CallHolds, SettlementHolds, CorrectionHolds
    <2>2. CASE event[c] = "conflict"
      BY <2>1, <2>2 DEF CostOf, InConflict
    <2>3. CASE event[c] = "confirmed"
      BY <2>3 DEF IInv, CallHolds, CorrectionHolds, CostOf, InConflict
    <2>4. CASE event[c] = "none"
      BY <2>1, <2>4 DEF IInv, CallHolds, CorrectionHolds, CostOf, InConflict
    <2> QED
      BY <2>2, <2>3, <2>4 DEF IInv, Types, LedgerTypes, Event
  <1> QED
    BY <1>1, Invariance, PTL

-----------------------------------------------------------------------------
(***************************************************************************)
(* Sums over finite sets.  g sums f over the subsets of S.                 *)
(***************************************************************************)
Sums(g, f, S) ==
  /\ g \in [SUBSET S -> Nat]
  /\ g[{}] = 0
  /\ \A t \in SUBSET S : \A x \in t : g[t] = f[x] + g[t \ {x}]

SumOver(f, S) == (CHOOSE g : Sums(g, f, S))[S]

Amounts(f, S) == \A x \in S : f[x] \in Nat

(* What a subset has whenever each of its subsets with one element less    *)
(* has it, every subset of a finite set has: a least one without it would  *)
(* contradict that.                                                        *)
LEMMA SubsetInduction ==
  ASSUME NEW S, IsFiniteSet(S), NEW Q \in SUBSET (SUBSET S),
         \A t \in SUBSET S : (\A x \in t : t \ {x} \in Q) => t \in Q
  PROVE  Q = SUBSET S
  <1>1. IsWellFoundedOn(StrictSubsetOrdering(S), SUBSET S)
    BY FS_StrictSubsetOrderingWellFounded, FS_FiniteSubsetsOfFinite
  <1> SUFFICES ASSUME (SUBSET S) \ Q # {}
               PROVE  FALSE
    OBVIOUS
  <1>2. PICK bad : bad = (SUBSET S) \ Q
    OBVIOUS
  <1>3. \E t \in bad : \A u \in bad : ~ (<<u, t>> \in StrictSubsetOrdering(S))
    <2>1. bad \subseteq SUBSET S /\ bad # {}
      BY <1>2
    <2> QED
      BY <1>1, <2>1, WFMin
  <1>4. PICK t \in (SUBSET S) \ Q :
          \A u \in (SUBSET S) \ Q : ~ (<<u, t>> \in StrictSubsetOrdering(S))
    BY <1>2, <1>3
  <1>5. ASSUME NEW x \in t
        PROVE  t \ {x} \in Q
    <2>1. <<t \ {x}, t>> \in StrictSubsetOrdering(S)
      BY <1>4, <1>5 DEF StrictSubsetOrdering
    <2> QED
      BY <1>4, <2>1
  <1> QED
    BY <1>4, <1>5

(* Two that sum the same amounts are equal.                                *)
LEMMA SumsAgree ==
  ASSUME NEW S, IsFiniteSet(S), NEW f, NEW g, NEW e, NEW h,
         Sums(g, f, S), Sums(h, e, S), \A x \in S : e[x] = f[x]
  PROVE  g = h
  <1> DEFINE Q == {t \in SUBSET S : g[t] = h[t]}
  <1>1. ASSUME NEW t \in SUBSET S, \A x \in t : t \ {x} \in Q
        PROVE  t \in Q
    <2>1. CASE t = {}
      BY <2>1 DEF Sums
    <2>2. ASSUME NEW x \in t
          PROVE  t \in Q
      <3>1. g[t \ {x}] = h[t \ {x}]
        BY <1>1, <2>2
      <3>2. g[t] = f[x] + g[t \ {x}] /\ h[t] = e[x] + h[t \ {x}]
        BY <2>2 DEF Sums
      <3> QED
        BY <3>1, <3>2
    <2> QED
      BY <2>1, <2>2
  <1>2. Q \in SUBSET (SUBSET S)
    OBVIOUS
  <1> HIDE DEF Q
  <1>3. Q = SUBSET S
    BY <1>1, <1>2, SubsetInduction
  <1> QED
    BY <1>3 DEF Sums, Q

(* What sums over a set sums over its subsets.                             *)
LEMMA SumsOfPart ==
  ASSUME NEW S, NEW T \in SUBSET S, NEW f, NEW g, Sums(g, f, S),
         NEW h, h = [t \in SUBSET T |-> g[t]]
  PROVE  Sums(h, f, T)
  <1>1. \A t \in SUBSET T : t \in SUBSET S /\ h[t] = g[t]
    OBVIOUS
  <1>2. h \in [SUBSET T -> Nat]
    BY <1>1 DEF Sums
  <1>3. h[{}] = 0
    BY <1>1 DEF Sums
  <1>4. ASSUME NEW t \in SUBSET T, NEW x \in t
        PROVE  h[t] = f[x] + h[t \ {x}]
    <2>1. t \ {x} \in SUBSET T
      OBVIOUS
    <2> QED
      BY <1>1, <2>1 DEF Sums
  <1> QED
    BY <1>2, <1>3, <1>4 DEF Sums

(* One element more.                                                       *)
LEMMA SumsExtend ==
  ASSUME NEW S, IsFiniteSet(S), NEW y, y \notin S, NEW f,
         Amounts(f, S \union {y}), NEW g, Sums(g, f, S)
  PROVE  \E h : Sums(h, f, S \union {y})
  <1> DEFINE T == S \union {y}
             h == [t \in SUBSET T |->
                     IF y \in t THEN f[y] + g[t \ {y}] ELSE g[t]]
  <1>1. \A t \in SUBSET T : t \ {y} \in SUBSET S /\ (y \notin t => t \in SUBSET S)
    OBVIOUS
  <1>2. h \in [SUBSET T -> Nat]
    BY <1>1 DEF Sums, Amounts
  <1>3. h[{}] = 0
    BY DEF Sums
  <1>4. ASSUME NEW t \in SUBSET T, NEW x \in t
        PROVE  h[t] = f[x] + h[t \ {x}]
    <2>1. t \ {x} \in SUBSET T
      OBVIOUS
    <2>2. CASE x = y
      BY <2>1, <2>2
    <2>3. CASE x # y /\ y \in t
      <3>1. PICK u : u = t \ {y}
        OBVIOUS
      <3>2. u \in SUBSET S /\ x \in u
        BY <3>1, <2>3
      <3>3. g[u] = f[x] + g[u \ {x}]
        BY <3>2 DEF Sums
      <3>4. (t \ {x}) \ {y} = u \ {x} /\ y \in t \ {x}
        BY <3>1, <2>3
      <3>5. h[t] = f[y] + g[u] /\ h[t \ {x}] = f[y] + g[u \ {x}]
        BY <2>1, <2>3, <3>1, <3>4
      <3>6. f[x] \in Nat /\ f[y] \in Nat
        BY DEF Amounts
      <3>7. g[u] \in Nat /\ g[u \ {x}] \in Nat
        BY <3>2 DEF Sums
      <3> HIDE DEF h
      <3> QED
        BY <3>3, <3>5, <3>6, <3>7
    <2>4. CASE y \notin t
      <3>1. t \in SUBSET S /\ y \notin t \ {x}
        BY <2>4
      <3> QED
        BY <2>1, <2>4, <3>1 DEF Sums
    <2> QED
      BY <2>2, <2>3, <2>4
  <1> HIDE DEF h
  <1> QED
    BY <1>2, <1>3, <1>4 DEF Sums

LEMMA SumsExist ==
  ASSUME NEW S, IsFiniteSet(S), NEW f, Amounts(f, S)
  PROVE  \E g : Sums(g, f, S)
  <1> DEFINE Q == {t \in SUBSET S : \E g : Sums(g, f, t)}
  <1>1. ASSUME NEW t \in SUBSET S, \A x \in t : t \ {x} \in Q
        PROVE  t \in Q
    <2>1. CASE t = {}
      <3>1. Sums([u \in {{}} |-> 0], f, t)
        BY <2>1 DEF Sums
      <3> QED
        BY <3>1
    <2>2. ASSUME NEW x \in t
          PROVE  t \in Q
      <3>1. PICK u : u = t \ {x}
        OBVIOUS
      <3>2. u \union {x} = t /\ x \notin u
        BY <2>2, <3>1
      <3>3. IsFiniteSet(u)
        BY <3>1, FS_Subset
      <3>4. PICK g : Sums(g, f, u)
        BY <1>1, <2>2, <3>1
      <3>5. Amounts(f, u \union {x})
        BY <3>2 DEF Amounts
      <3>6. \E h : Sums(h, f, u \union {x})
        BY <3>2, <3>3, <3>4, <3>5, SumsExtend
      <3> QED
        BY <3>2, <3>6
    <2> QED
      BY <2>1, <2>2
  <1>2. Q \in SUBSET (SUBSET S)
    OBVIOUS
  <1> HIDE DEF Q
  <1>3. Q = SUBSET S
    BY <1>1, <1>2, SubsetInduction
  <1>4. S \in Q
    BY <1>3
  <1> QED
    BY <1>4 DEF Q

(* The sum over a set, from whatever sums over a larger one.               *)
LEMMA SumOverPart ==
  ASSUME NEW S, IsFiniteSet(S), NEW T \in SUBSET S, NEW f, NEW g,
         Sums(g, f, S)
  PROVE  SumOver(f, T) = g[T]
  <1>1. IsFiniteSet(T)
    BY FS_Subset
  <1>2. PICK h : h = [t \in SUBSET T |-> g[t]]
    OBVIOUS
  <1>3. Sums(h, f, T)
    BY <1>2, SumsOfPart
  <1>4. PICK e : e = CHOOSE d : Sums(d, f, T)
    OBVIOUS
  <1>5. Sums(e, f, T)
    BY <1>3, <1>4
  <1>6. e = h
    BY <1>1, <1>3, <1>5, SumsAgree
  <1>7. SumOver(f, T) = e[T]
    BY <1>4 DEF SumOver
  <1> QED
    BY <1>2, <1>6, <1>7

LEMMA SumOverNone ==
  ASSUME NEW f
  PROVE  SumOver(f, {}) = 0
  <1>1. PICK g : Sums(g, f, {})
    <2>1. IsFiniteSet({}) /\ Amounts(f, {})
      BY FS_EmptySet DEF Amounts
    <2> QED
      BY <2>1, SumsExist
  <1>2. SumOver(f, {}) = g[{}]
    BY <1>1, FS_EmptySet, SumOverPart
  <1> QED
    BY <1>1, <1>2 DEF Sums

LEMMA SumOverType ==
  ASSUME NEW S, IsFiniteSet(S), NEW f, Amounts(f, S)
  PROVE  SumOver(f, S) \in Nat
  <1>1. PICK g : Sums(g, f, S)
    BY SumsExist
  <1>2. SumOver(f, S) = g[S]
    BY <1>1, SumOverPart
  <1> QED
    BY <1>1, <1>2 DEF Sums

LEMMA SumOverRemoved ==
  ASSUME NEW S, IsFiniteSet(S), NEW f, Amounts(f, S), NEW x \in S
  PROVE  SumOver(f, S) = f[x] + SumOver(f, S \ {x})
  <1>1. PICK g : Sums(g, f, S)
    BY SumsExist
  <1>2. SumOver(f, S) = g[S] /\ SumOver(f, S \ {x}) = g[S \ {x}]
    BY <1>1, SumOverPart
  <1> QED
    BY <1>1, <1>2 DEF Sums

(* A sum grows with its amounts and its set.                               *)
LEMMA SumOverGrows ==
  ASSUME NEW S, IsFiniteSet(S), NEW T \in SUBSET S, NEW f, NEW e,
         Amounts(f, T), Amounts(e, S), \A x \in T : f[x] <= e[x]
  PROVE  SumOver(f, T) <= SumOver(e, S)
  <1> DEFINE Q == {t \in SUBSET S : SumOver(f, T \intersect t) <= SumOver(e, t)}
  <1>1. ASSUME NEW t \in SUBSET S, \A x \in t : t \ {x} \in Q
        PROVE  t \in Q
    <2>1. CASE t = {}
      <3>1. T \intersect t = {}
        BY <2>1
      <3> QED
        BY <2>1, <3>1, SumOverNone
    <2>2. ASSUME NEW x \in t
          PROVE  t \in Q
      <3>1. PICK p : p = T \intersect t
        OBVIOUS
      <3>2. /\ IsFiniteSet(t) /\ IsFiniteSet(p) /\ IsFiniteSet(p \ {x})
            /\ IsFiniteSet(t \ {x})
        BY <3>1, FS_Subset
      <3>3. Amounts(e, t) /\ Amounts(f, p) /\ Amounts(e, t \ {x})
            /\ Amounts(f, p \ {x})
        BY <3>1 DEF Amounts
      <3>4. SumOver(e, t) = e[x] + SumOver(e, t \ {x})
        BY <2>2, <3>2, <3>3, SumOverRemoved
      <3>5. T \intersect (t \ {x}) = p \ {x}
        BY <3>1
      <3>6. SumOver(f, p \ {x}) <= SumOver(e, t \ {x})
        BY <1>1, <2>2, <3>5
      <3>7. SumOver(f, p \ {x}) \in Nat /\ SumOver(e, t \ {x}) \in Nat
        BY <3>2, <3>3, SumOverType
      <3>8. e[x] \in Nat
        BY <2>2 DEF Amounts
      <3>9. CASE x \in p
        <4>1. SumOver(f, p) = f[x] + SumOver(f, p \ {x})
          BY <3>2, <3>3, <3>9, SumOverRemoved
        <4>2. f[x] \in Nat /\ f[x] <= e[x]
          BY <3>1, <3>9 DEF Amounts
        <4> QED
          BY <3>1, <3>4, <3>6, <3>7, <3>8, <4>1, <4>2
      <3>10. CASE x \notin p
        <4>1. p \ {x} = p
          BY <3>10
        <4>2. SumOver(f, p) <= SumOver(e, t \ {x}) /\ SumOver(f, p) \in Nat
          BY <3>6, <3>7, <4>1
        <4>3. SumOver(f, p) <= SumOver(e, t)
          BY <3>4, <3>7, <3>8, <4>2
        <4> QED
          BY <3>1, <4>3
      <3> QED
        BY <3>9, <3>10
    <2> QED
      BY <2>1, <2>2
  <1>2. Q \in SUBSET (SUBSET S)
    OBVIOUS
  <1> HIDE DEF Q
  <1>3. Q = SUBSET S
    BY <1>1, <1>2, SubsetInduction
  <1>4. S \in Q /\ T \intersect S = T
    BY <1>3
  <1> QED
    BY <1>4 DEF Q

(* The sum over a union is no more than the two sums.                      *)
LEMMA SumOverUnion ==
  ASSUME NEW S, IsFiniteSet(S), NEW T, IsFiniteSet(T), NEW f,
         Amounts(f, S \union T)
  PROVE  SumOver(f, S \union T) <= SumOver(f, S) + SumOver(f, T)
  <1> DEFINE Q == {t \in SUBSET T :
                     SumOver(f, S \union t) <= SumOver(f, S) + SumOver(f, t)}
  <1>0. SumOver(f, S) \in Nat
    <2>1. Amounts(f, S)
      BY DEF Amounts
    <2> QED
      BY <2>1, SumOverType
  <1>1. ASSUME NEW t \in SUBSET T, \A x \in t : t \ {x} \in Q
        PROVE  t \in Q
    <2>1. CASE t = {}
      <3>1. S \union t = S
        BY <2>1
      <3> QED
        BY <1>0, <2>1, <3>1, SumOverNone
    <2>2. ASSUME NEW x \in t
          PROVE  t \in Q
      <3>1. PICK u, r : u = t \ {x} /\ r = S \union u
        OBVIOUS
      <3>2. IsFiniteSet(t) /\ IsFiniteSet(u)
        BY <3>1, FS_Subset
      <3>3. PICK w : w = S \union t
        OBVIOUS
      <3>4. IsFiniteSet(r) /\ IsFiniteSet(w)
        BY <3>1, <3>2, <3>3, FS_Union
      <3>5. Amounts(f, t) /\ Amounts(f, u) /\ Amounts(f, r) /\ Amounts(f, w)
        BY <3>1, <3>3 DEF Amounts
      <3>6. SumOver(f, t) = f[x] + SumOver(f, u)
        BY <2>2, <3>1, <3>2, <3>5, SumOverRemoved
      <3>7. SumOver(f, r) <= SumOver(f, S) + SumOver(f, u)
        BY <1>1, <2>2, <3>1
      <3>8. /\ SumOver(f, r) \in Nat /\ SumOver(f, u) \in Nat
            /\ SumOver(f, w) \in Nat /\ SumOver(f, t) \in Nat
        BY <3>2, <3>4, <3>5, SumOverType
      <3>9. f[x] \in Nat
        BY <2>2, <3>5 DEF Amounts
      <3>10. CASE x \in S
        <4>1. w = r
          BY <3>1, <3>3, <3>10
        <4>2. SumOver(f, w) <= SumOver(f, S) + SumOver(f, u)
          BY <3>7, <4>1
        <4>3. SumOver(f, w) <= SumOver(f, S) + SumOver(f, t)
          BY <1>0, <3>6, <3>8, <3>9, <4>2
        <4> QED
          BY <3>3, <4>3
      <3>11. CASE x \notin S
        <4>1. w \ {x} = r /\ x \in w
          BY <2>2, <3>1, <3>3, <3>11
        <4>2. SumOver(f, w) = f[x] + SumOver(f, r)
          BY <3>4, <3>5, <4>1, SumOverRemoved
        <4> QED
          BY <1>0, <3>3, <3>6, <3>7, <3>8, <3>9, <4>2
      <3> QED
        BY <3>10, <3>11
    <2> QED
      BY <2>1, <2>2
  <1>2. Q \in SUBSET (SUBSET T)
    OBVIOUS
  <1> HIDE DEF Q
  <1>3. Q = SUBSET T
    BY <1>1, <1>2, SubsetInduction
  <1>4. T \in Q
    BY <1>3
  <1> QED
    BY <1>4 DEF Q

(* Shares, each within what its owner pays, are together within what all   *)
(* owners pay.                                                             *)
LEMMA SumOverShares ==
  ASSUME NEW K, IsFiniteSet(K), NEW S, IsFiniteSet(S),
         NEW share \in [K -> SUBSET S], NEW f, Amounts(f, S),
         NEW e, Amounts(e, K),
         \A k \in K : SumOver(f, share[k]) <= e[k]
  PROVE  SumOver(f, UNION {share[k] : k \in K}) <= SumOver(e, K)
  <1> DEFINE All(t) == UNION {share[k] : k \in t}
             Q == {t \in SUBSET K : SumOver(f, All(t)) <= SumOver(e, t)}
  <1>1. ASSUME NEW t \in SUBSET K, \A x \in t : t \ {x} \in Q
        PROVE  t \in Q
    <2>1. CASE t = {}
      <3>1. All(t) = {}
        BY <2>1
      <3> QED
        BY <2>1, <3>1, SumOverNone
    <2>2. ASSUME NEW x \in t
          PROVE  t \in Q
      <3>1. PICK u, a, b : u = t \ {x} /\ a = All(u) /\ b = share[x]
        OBVIOUS
      <3>2. All(t) = a \union b
        BY <2>2, <3>1
      <3>3. a \in SUBSET S /\ b \in SUBSET S
        BY <2>2, <3>1
      <3>4. IsFiniteSet(a) /\ IsFiniteSet(b) /\ IsFiniteSet(t) /\ IsFiniteSet(u)
        BY <3>1, <3>3, FS_Subset
      <3>5. /\ Amounts(f, a \union b) /\ Amounts(f, a) /\ Amounts(f, b)
            /\ Amounts(e, t) /\ Amounts(e, u)
        BY <3>1, <3>3 DEF Amounts
      <3>6. SumOver(f, a \union b) <= SumOver(f, a) + SumOver(f, b)
        BY <3>4, <3>5, SumOverUnion
      <3>7. SumOver(f, a) <= SumOver(e, u)
        BY <1>1, <2>2, <3>1
      <3>8. SumOver(f, b) <= e[x]
        BY <2>2, <3>1
      <3>9. SumOver(e, t) = e[x] + SumOver(e, u)
        BY <2>2, <3>1, <3>4, <3>5, SumOverRemoved
      <3>10. /\ SumOver(f, a) \in Nat /\ SumOver(f, b) \in Nat
             /\ SumOver(e, u) \in Nat
        BY <3>4, <3>5, SumOverType
      <3>11. SumOver(f, a \union b) \in Nat /\ e[x] \in Nat
        BY <2>2, <3>4, <3>5, SumOverType, FS_Union DEF Amounts
      <3>12. SumOver(f, a \union b) <= SumOver(e, t)
        BY <3>6, <3>7, <3>8, <3>9, <3>10, <3>11
      <3> QED
        BY <3>2, <3>12
    <2> QED
      BY <2>1, <2>2
  <1>2. Q \in SUBSET (SUBSET K)
    OBVIOUS
  <1> HIDE DEF Q
  <1>3. Q = SUBSET K
    BY <1>1, <1>2, SubsetInduction
  <1>4. K \in Q
    BY <1>3
  <1> QED
    BY <1>4 DEF Q

(* The library adds up the amounts of a set, one element after the other.  *)
AddsUp(h, f, S) ==
  h = [s \in SUBSET S |->
         IF s = {} THEN 0
         ELSE f[CHOOSE x \in s : TRUE] + h[s \ {CHOOSE x \in s : TRUE}]]

LEMMA AddingUpExists ==
  ASSUME NEW S, IsFiniteSet(S), NEW f, Amounts(f, S)
  PROVE  \E g : AddsUp(g, f, S)
  <1>1. PICK g : Sums(g, f, S)
    BY SumsExist
  <1>2. ASSUME NEW t \in SUBSET S, t # {}
        PROVE  g[t] = f[CHOOSE x \in t : TRUE]
                      + g[t \ {CHOOSE x \in t : TRUE}]
    <2>1. PICK y : y = CHOOSE x \in t : TRUE
      OBVIOUS
    <2>2. y \in t
      BY <1>2, <2>1
    <2> QED
      BY <1>1, <2>1, <2>2 DEF Sums
  <1>3. AddsUp(g, f, S)
    BY <1>1, <1>2 DEF Sums, AddsUp
  <1> QED
    BY <1>3

LEMMA AddingUp ==
  ASSUME NEW S, IsFiniteSet(S), NEW f, Amounts(f, S), NEW h, AddsUp(h, f, S)
  PROVE  h[S] = SumOver(f, S)
  <1>1. PICK g : Sums(g, f, S)
    BY SumsExist
  <1> DEFINE Q == {t \in SUBSET S : h[t] = g[t]}
  <1>2. ASSUME NEW t \in SUBSET S, \A x \in t : t \ {x} \in Q
        PROVE  t \in Q
    <2>1. CASE t = {}
      BY <1>1, <2>1 DEF Sums, AddsUp
    <2>2. CASE t # {}
      <3>1. PICK y : y = CHOOSE x \in t : TRUE
        OBVIOUS
      <3>2. y \in t
        BY <2>2, <3>1
      <3>3. h[t] = f[y] + h[t \ {y}]
        BY <2>2, <3>1 DEF AddsUp
      <3>4. g[t] = f[y] + g[t \ {y}]
        BY <1>1, <3>2 DEF Sums
      <3>5. h[t \ {y}] = g[t \ {y}]
        BY <1>2, <3>2
      <3> QED
        BY <3>3, <3>4, <3>5
    <2> QED
      BY <2>1, <2>2
  <1>3. Q \in SUBSET (SUBSET S)
    OBVIOUS
  <1> HIDE DEF Q
  <1>4. Q = SUBSET S
    BY <1>2, <1>3, SubsetInduction
  <1>5. S \in Q
    BY <1>4
  <1>6. h[S] = g[S]
    BY <1>5 DEF Q
  <1>7. SumOver(f, S) = g[S]
    BY <1>1, SumOverPart
  <1> QED
    BY <1>6, <1>7

(* What the model sums, as such a sum: the same for each kind of amount.   *)
LEMMA BudgetCostSum ==
  ASSUME NEW S, IsFiniteSet(S), NEW f, f = [x \in S |-> BudgetCost(x)],
         Amounts(f, S)
  PROVE  MapThenSumSet(BudgetCost, S) = SumOver(f, S)
  <1> DEFINE Is(h) == h = [s \in SUBSET S |->
                IF s = {} THEN 0
                ELSE BudgetCost(CHOOSE x \in s : TRUE)
                     + h[s \ {CHOOSE x \in s : TRUE}]]
  <1>1. PICK h : h = CHOOSE k : Is(k)
    OBVIOUS
  <1>2. h[S] = MapThenSumSet(BudgetCost, S)
    BY <1>1, Zenon DEF MapThenSumSet, MapThenFoldSet
  <1>3. \A s \in SUBSET S : s # {} =>
          f[CHOOSE x \in s : TRUE] = BudgetCost(CHOOSE x \in s : TRUE)
    OBVIOUS
  <1>4. \A g : AddsUp(g, f, S) <=> Is(g)
    BY <1>3 DEF AddsUp
  <1> HIDE DEF Is
  <1>5. Is(h)
    BY <1>1, <1>4, AddingUpExists, Zenon
  <1> QED
    BY <1>2, <1>4, <1>5, AddingUp

LEMMA CostOfSum ==
  ASSUME NEW S, IsFiniteSet(S), NEW f, f = [x \in S |-> CostOf(x)],
         Amounts(f, S)
  PROVE  MapThenSumSet(CostOf, S) = SumOver(f, S)
  <1> DEFINE Is(h) == h = [s \in SUBSET S |->
                IF s = {} THEN 0
                ELSE CostOf(CHOOSE x \in s : TRUE)
                     + h[s \ {CHOOSE x \in s : TRUE}]]
  <1>1. PICK h : h = CHOOSE k : Is(k)
    OBVIOUS
  <1>2. h[S] = MapThenSumSet(CostOf, S)
    BY <1>1, Zenon DEF MapThenSumSet, MapThenFoldSet
  <1>3. \A s \in SUBSET S : s # {} =>
          f[CHOOSE x \in s : TRUE] = CostOf(CHOOSE x \in s : TRUE)
    OBVIOUS
  <1>4. \A g : AddsUp(g, f, S) <=> Is(g)
    BY <1>3 DEF AddsUp
  <1> HIDE DEF Is
  <1>5. Is(h)
    BY <1>1, <1>4, AddingUpExists, Zenon
  <1> QED
    BY <1>2, <1>4, <1>5, AddingUp

LEMMA CostOrBoundSum ==
  ASSUME NEW S, IsFiniteSet(S), NEW f, f = [x \in S |-> CostOrBound(x)],
         Amounts(f, S)
  PROVE  MapThenSumSet(CostOrBound, S) = SumOver(f, S)
  <1> DEFINE Is(h) == h = [s \in SUBSET S |->
                IF s = {} THEN 0
                ELSE CostOrBound(CHOOSE x \in s : TRUE)
                     + h[s \ {CHOOSE x \in s : TRUE}]]
  <1>1. PICK h : h = CHOOSE k : Is(k)
    OBVIOUS
  <1>2. h[S] = MapThenSumSet(CostOrBound, S)
    BY <1>1, Zenon DEF MapThenSumSet, MapThenFoldSet
  <1>3. \A s \in SUBSET S : s # {} =>
          f[CHOOSE x \in s : TRUE] = CostOrBound(CHOOSE x \in s : TRUE)
    OBVIOUS
  <1>4. \A g : AddsUp(g, f, S) <=> Is(g)
    BY <1>3 DEF AddsUp
  <1> HIDE DEF Is
  <1>5. Is(h)
    BY <1>1, <1>4, AddingUpExists, Zenon
  <1> QED
    BY <1>2, <1>4, <1>5, AddingUp

LEMMA VouchedSum ==
  ASSUME NEW S, IsFiniteSet(S), NEW f, f = [x \in S |-> Vouched(x)],
         Amounts(f, S)
  PROVE  MapThenSumSet(Vouched, S) = SumOver(f, S)
  <1> DEFINE Is(h) == h = [s \in SUBSET S |->
                IF s = {} THEN 0
                ELSE Vouched(CHOOSE x \in s : TRUE)
                     + h[s \ {CHOOSE x \in s : TRUE}]]
  <1>1. PICK h : h = CHOOSE k : Is(k)
    OBVIOUS
  <1>2. h[S] = MapThenSumSet(Vouched, S)
    BY <1>1, Zenon DEF MapThenSumSet, MapThenFoldSet
  <1>3. \A s \in SUBSET S : s # {} =>
          f[CHOOSE x \in s : TRUE] = Vouched(CHOOSE x \in s : TRUE)
    OBVIOUS
  <1>4. \A g : AddsUp(g, f, S) <=> Is(g)
    BY <1>3 DEF AddsUp
  <1> HIDE DEF Is
  <1>5. Is(h)
    BY <1>1, <1>4, AddingUpExists, Zenon
  <1> QED
    BY <1>2, <1>4, <1>5, AddingUp

LEMMA CardSumSum ==
  ASSUME NEW S, IsFiniteSet(S), NEW f, f = [x \in S |-> CardSum(x)],
         Amounts(f, S)
  PROVE  MapThenSumSet(CardSum, S) = SumOver(f, S)
  <1> DEFINE Is(h) == h = [s \in SUBSET S |->
                IF s = {} THEN 0
                ELSE CardSum(CHOOSE x \in s : TRUE)
                     + h[s \ {CHOOSE x \in s : TRUE}]]
  <1>1. PICK h : h = CHOOSE k : Is(k)
    OBVIOUS
  <1>2. h[S] = MapThenSumSet(CardSum, S)
    BY <1>1, Zenon DEF MapThenSumSet, MapThenFoldSet
  <1>3. \A s \in SUBSET S : s # {} =>
          f[CHOOSE x \in s : TRUE] = CardSum(CHOOSE x \in s : TRUE)
    OBVIOUS
  <1>4. \A g : AddsUp(g, f, S) <=> Is(g)
    BY <1>3 DEF AddsUp
  <1> HIDE DEF Is
  <1>5. Is(h)
    BY <1>1, <1>4, AddingUpExists, Zenon
  <1> QED
    BY <1>2, <1>4, <1>5, AddingUp

-----------------------------------------------------------------------------
(* What admissions have vouched for.                                       *)

(* What a call holds: all that was admitted, until it is settled.          *)
Held ==
  [c \in Call |-> IF attempt[c].state = "reserved" THEN Price[c]
                  ELSE Vouched(c)]

Own(m) == {c \in Call : attempt[c].month = m /\ ~Corrected(c)}
Free(m) == {c \in Own(m) : attempt[c].card = None}
Plain(m) == {c \in Free(m) : ~attempt[c].approved}
CarriedBy(id) == {c \in Call : attempt[c].card = id}
Extra == IF approval = "none" THEN 0 ELSE Allowance

CardRow == [id : [records : SUBSET AnyRef, month : Nat, bound : Nat],
            confirmed : BOOLEAN, expired : BOOLEAN]

(* Calls come one by one, and none but an admitted one leaves a trace.     *)
RowsHold ==
  /\ IsFiniteSet({c \in Call : Known(c)})
  /\ IsFiniteSet(cards) /\ cards \subseteq CardRow
  /\ \A c \in Call : ~Known(c) => attempt[c] = NoAttempt
  /\ \A c \in Call :
       attempt[c].card # None =>
         \E k \in cards : /\ k.id = attempt[c].card /\ k.confirmed
                          /\ k.id.month = attempt[c].month

(* Each source of money pays for no more than it has.                      *)
FundsHold ==
  /\ \A m \in Nat \ {0} : SumOver(Held, Plain(m)) <= Limit
  /\ \A m \in Nat \ {0} : SumOver(Held, Free(m)) <= Limit + Extra
  /\ \A k \in cards :
       k.id # None => SumOver(Held, CarriedBy(k.id)) <= CardSum(k)

BudgetHolds == RowsHold /\ FundsHold

LEMMA CardRowType ==
  ASSUME NEW k \in CardRow
  PROVE  /\ k.id \in AnyCard /\ k.id.bound \in Nat
         /\ k.id.month \in Nat /\ CardSum(k) \in Nat
  <1>1. k.id \in [records : SUBSET AnyRef, month : Nat, bound : Nat]
    BY DEF CardRow
  <1>2. MaxUses \in Nat /\ k.id.bound \in Nat
    BY <1>1, LedgerAssumption
  <1>3. \A a \in Nat, b \in Nat : a * b \in Nat
    OBVIOUS
  <1> QED
    BY <1>1, <1>2, <1>3 DEF AnyCard, CardSum

LEMMA LesserOf ==
  ASSUME NEW a \in Nat, NEW p \in Nat
  PROVE  /\ Min({a, p}) \in Nat
         /\ Min({a, p}) <= a /\ Min({a, p}) <= p
  <1>1. \E x \in {a, p} : \A y \in {a, p} : x <= y
    OBVIOUS
  <1> QED
    BY <1>1 DEF Min

LEMMA HeldType ==
  ASSUME Types
  PROVE  /\ Held \in [Call -> Nat]
         /\ \A c \in Call : Vouched(c) \in Nat /\ Vouched(c) <= Held[c]
         /\ \A c \in Call : Vouched(c) <= charge[c] /\ Held[c] <= Price[c]
  <1>1. \A c \in Call : charge[c] \in Nat /\ Price[c] \in Nat
    BY AmountTypes DEF Types, CallerTypes
  <1>2. \A c \in Call : /\ Vouched(c) \in Nat
                        /\ Vouched(c) <= charge[c] /\ Vouched(c) <= Price[c]
    BY <1>1, LesserOf DEF Vouched
  <1> QED
    BY <1>1, <1>2 DEF Held

(* Who is in the sums has been admitted.                                   *)
LEMMA SumSets ==
  ASSUME IInv, RowsHold
  PROVE  /\ \A m \in Nat \ {0} : /\ IsFiniteSet(Own(m))
                                 /\ IsFiniteSet(Free(m))
                                 /\ IsFiniteSet(Plain(m))
         /\ \A id \in AnyCard \ {None} : IsFiniteSet(CarriedBy(id))
         /\ IsFiniteSet({c \in Call : attempt[c].approved})
  <1>1. PICK all : all = {c \in Call : Known(c)}
    OBVIOUS
  <1>2. \A c \in Call \ all : attempt[c] = NoAttempt
    BY <1>1 DEF RowsHold
  <1>3. /\ \A m \in Nat \ {0} : Own(m) \subseteq all
        /\ \A id \in AnyCard \ {None} : CarriedBy(id) \subseteq all
        /\ {c \in Call : attempt[c].approved} \subseteq all
    BY <1>2 DEF NoAttempt, Own, CarriedBy
  <1>4. \A m : Free(m) \subseteq Own(m) /\ Plain(m) \subseteq Free(m)
    BY DEF Free, Plain
  <1>5. \A m \in Nat \ {0} : Free(m) \subseteq all /\ Plain(m) \subseteq all
    BY <1>3, <1>4
  <1>6. IsFiniteSet(all)
    BY <1>1 DEF RowsHold
  <1>7. \A T \in SUBSET all : IsFiniteSet(T)
    BY <1>6, FS_Subset
  <1> QED
    BY <1>3, <1>5, <1>7

(* One element more, and none of the others takes more.                    *)
LEMMA SumOverOneMore ==
  ASSUME NEW S, IsFiniteSet(S), NEW y, NEW T \in SUBSET (S \union {y}),
         NEW f, NEW e, Amounts(f, S), Amounts(e, S \union {y}),
         \A x \in S : y # x => e[x] <= f[x]
  PROVE  SumOver(e, T) <= SumOver(f, S) + e[y]
  <1>1. PICK u, r : u = S \union {y} /\ r = u \ {y}
    OBVIOUS
  <1>2. r \in SUBSET S /\ \A x \in r : x # y
    BY <1>1
  <1>3. IsFiniteSet(u) /\ IsFiniteSet(r)
    BY <1>1, <1>2, FS_AddElement, FS_Subset
  <1>4. Amounts(e, u) /\ Amounts(e, r) /\ Amounts(e, T) /\ T \in SUBSET u
    BY <1>1 DEF Amounts
  <1>5. SumOver(e, u) = e[y] + SumOver(e, r)
    BY <1>1, <1>3, <1>4, SumOverRemoved
  <1>6. SumOver(e, r) <= SumOver(f, S)
    BY <1>2, <1>4, SumOverGrows
  <1>7. SumOver(e, T) <= SumOver(e, u)
    <2>1. \A x \in T : e[x] <= e[x]
      BY <1>4 DEF Amounts
    <2> QED
      BY <1>3, <1>4, <2>1, SumOverGrows
  <1>8. IsFiniteSet(T)
    BY <1>3, <1>4, FS_Subset
  <1>9. /\ SumOver(e, T) \in Nat /\ SumOver(e, r) \in Nat
        /\ SumOver(e, u) \in Nat /\ SumOver(f, S) \in Nat
    BY <1>3, <1>4, <1>8, SumOverType
  <1>10. e[y] \in Nat
    BY DEF Amounts
  <1> QED
    BY <1>5, <1>6, <1>7, <1>9, <1>10

(* Call x keeps its admission and holds no more.                           *)
Quiet(x) ==
  /\ Known(x)' <=> Known(x)
  /\ ~Known(x) => attempt'[x] = attempt[x]
  /\ attempt'[x].month = attempt[x].month
  /\ attempt'[x].approved = attempt[x].approved
  /\ attempt'[x].card = attempt[x].card
  /\ Corrected(x) => Corrected(x)'
  /\ Held'[x] <= Held[x]

(* A confirmed card stays; a new one has carried nothing.                  *)
CardsKept ==
  /\ IsFiniteSet(cards') /\ cards' \subseteq CardRow
  /\ \A k \in cards : k.confirmed => \E n \in cards' : n.id = k.id /\ n.confirmed

LEMMA QuietKeeps ==
  ASSUME IInv, IInv', BudgetHolds, CardsKept, \A x \in Call : Quiet(x),
         approval' = "none" => approval = "none"
  PROVE  BudgetHolds'
  <1>1. Types /\ Types'
    BY DEF IInv
  <1>2. PICK f, e : f = Held /\ e = Held'
    OBVIOUS
  <1>3. f \in [Call -> Nat] /\ e \in [Call -> Nat] /\ \A x \in Call : e[x] <= f[x]
    <2>1. \A x \in Call : charge'[x] \in Nat /\ Price[x] \in Nat
      BY <1>1, AmountTypes DEF Types, CallerTypes
    <2>2. \A x \in Call : Vouched(x)' \in Nat
      BY <2>1, LesserOf DEF Vouched
    <2>3. Held' \in [Call -> Nat]
      BY <2>1, <2>2 DEF Held
    <2> QED
      BY <1>1, <1>2, <2>3, HeldType DEF Quiet
  <1>4. ASSUME NEW S \in SUBSET Call, IsFiniteSet(S), NEW T \in SUBSET S
        PROVE  /\ SumOver(e, T) <= SumOver(f, S)
               /\ SumOver(e, T) \in Nat /\ SumOver(f, S) \in Nat
    <2>1. Amounts(e, T) /\ Amounts(f, S) /\ \A x \in T : e[x] <= f[x]
      BY <1>3 DEF Amounts
    <2>2. IsFiniteSet(T)
      BY <1>4, FS_Subset
    <2> QED
      BY <1>4, <2>1, <2>2, SumOverGrows, SumOverType
  <1>5. RowsHold'
    <2>1. {c \in Call : Known(c)}' = {c \in Call : Known(c)}
      BY DEF Quiet
    <2>2. IsFiniteSet({c \in Call : Known(c)}')
      BY <2>1 DEF BudgetHolds, RowsHold
    <2>3. \A c \in Call : ~Known(c)' => attempt'[c] = NoAttempt
      BY DEF Quiet, BudgetHolds, RowsHold
    <2>4. ASSUME NEW c \in Call, attempt'[c].card # None
          PROVE  \E k \in cards' : /\ k.id = attempt'[c].card /\ k.confirmed
                                   /\ k.id.month = attempt'[c].month
      <3>1. /\ attempt'[c].card = attempt[c].card
            /\ attempt'[c].month = attempt[c].month
        BY DEF Quiet
      <3>2. PICK k \in cards : /\ k.id = attempt[c].card /\ k.confirmed
                               /\ k.id.month = attempt[c].month
        BY <2>4, <3>1 DEF BudgetHolds, RowsHold
      <3>3. PICK n \in cards' : n.id = k.id /\ n.confirmed
        BY <3>2 DEF CardsKept
      <3> QED
        BY <3>1, <3>2, <3>3
    <2> QED
      BY <2>2, <2>3, <2>4 DEF RowsHold, CardsKept
  <1>6. Limit \in Nat /\ Extra \in Nat /\ Extra' \in Nat /\ Extra <= Extra'
    <2>1. Limit \in Nat /\ Allowance \in Nat
      BY LedgerAssumption
    <2>2. CASE approval = "none"
      BY <2>1, <2>2 DEF Extra
    <2>3. CASE approval # "none"
      BY <2>1, <2>3 DEF Extra
    <2> QED
      BY <2>2, <2>3
  <1>7. ASSUME NEW m \in Nat \ {0}
        PROVE  /\ SumOver(Held, Plain(m))' <= Limit
               /\ SumOver(Held, Free(m))' <= Limit + Extra'
    <2>1. PICK p, q, r, s : /\ p = Plain(m) /\ q = Plain(m)'
                            /\ r = Free(m) /\ s = Free(m)'
      OBVIOUS
    <2>2. p \in SUBSET Call /\ r \in SUBSET Call /\ q \in SUBSET p /\ s \in SUBSET r
      <3>1. Own(m)' \subseteq Own(m)
        BY DEF Own, Quiet
      <3>2. s \in SUBSET r
        BY <2>1, <3>1 DEF Free, Own, Quiet
      <3>3. q \in SUBSET p
        BY <2>1, <3>2 DEF Plain, Free, Own, Quiet
      <3> QED
        BY <2>1, <3>2, <3>3 DEF Plain, Free, Own
    <2>3. IsFiniteSet(p) /\ IsFiniteSet(r)
      BY <2>1, SumSets DEF BudgetHolds
    <2>4. SumOver(f, p) <= Limit /\ SumOver(f, r) <= Limit + Extra
      BY <1>2, <2>1 DEF BudgetHolds, FundsHold
    <2>5. SumOver(e, q) <= Limit /\ SumOver(e, s) <= Limit + Extra'
      BY <1>4, <1>6, <2>2, <2>3, <2>4
    <2> QED
      BY <1>2, <2>1, <2>5
  <1>8. ASSUME NEW k \in cards', k.id # None
        PROVE  SumOver(Held, CarriedBy(k.id))' <= CardSum(k)
    <2>1. PICK id, s, t : id = k.id /\ s = CarriedBy(id) /\ t = CarriedBy(id)'
      OBVIOUS
    <2>2. s \in SUBSET Call /\ t \in SUBSET s
      BY <2>1 DEF CarriedBy, Quiet
    <2>3. id \in AnyCard \ {None} /\ CardSum(k) \in Nat
      BY <1>8, <2>1, CardRowType DEF CardsKept
    <2>4. IsFiniteSet(s)
      BY <2>1, <2>3, SumSets DEF BudgetHolds
    <2>5. CASE s = {}
      <3>1. t = {}
        BY <2>2, <2>5
      <3>2. SumOver(e, t) <= CardSum(k)
        BY <2>3, <3>1, SumOverNone
      <3> QED
        BY <1>2, <2>1, <3>2
    <2>6. ASSUME NEW c \in s
          PROVE  SumOver(Held, CarriedBy(k.id))' <= CardSum(k)
      <3>1. PICK o \in cards : o.id = id
        BY <2>1, <2>3 DEF CarriedBy, BudgetHolds, RowsHold
      <3>2. SumOver(f, s) <= CardSum(o)
        BY <1>2, <2>1, <2>3, <3>1 DEF BudgetHolds, FundsHold
      <3>3. CardSum(o) = CardSum(k)
        BY <2>1, <3>1 DEF CardSum
      <3>4. SumOver(e, t) <= CardSum(k)
        BY <1>4, <2>2, <2>3, <2>4, <3>2, <3>3
      <3> QED
        BY <1>2, <2>1, <3>4
    <2> QED
      BY <2>5, <2>6
  <1>9. FundsHold'
    BY <1>7, <1>8 DEF FundsHold, CardSum
  <1> QED
    BY <1>5, <1>9 DEF BudgetHolds

(* What the Team books of a call no lead has corrected covers what it      *)
(* holds, wherever the Team knows the cost.                                *)
LEMMA BookedCoversHeld ==
  ASSUME IInv, NEW x \in Call, Known(x)
  PROVE  /\ CostOrBound(x) \in Nat /\ Held[x] <= CostOrBound(x)
         /\ CostOf(x) # Unknown =>
              CostOf(x) \in Nat /\ (~Corrected(x) => Held[x] <= CostOf(x))
         /\ BudgetCost(x) # Unknown =>
              BudgetCost(x) \in Nat /\ (~Corrected(x) => Held[x] <= BudgetCost(x))
  <1>1. Types /\ CallHolds(x)
    BY DEF IInv
  <1>2. /\ Held[x] \in Nat /\ Held[x] <= Price[x] /\ Price[x] \in Nat
        /\ Vouched(x) <= charge[x] /\ Vouched(x) \in Nat /\ charge[x] \in Nat
    BY <1>1, HeldType, AmountTypes DEF Types, CallerTypes
  <1>3. attempt[x].cost \in AnyCost /\ correction[x].cost \in AnyCost
    BY <1>1 DEF Types, LedgerTypes
  <1>4. attempt[x].cost # Unknown =>
          attempt[x].cost \in Nat /\ Held[x] <= attempt[x].cost
    <2> SUFFICES ASSUME attempt[x].cost # Unknown
                 PROVE  Held[x] <= attempt[x].cost
      BY <1>3 DEF AnyCost
    <2>1. Settled(x) /\ attempt[x].cost = charge[x]
      BY <1>1 DEF CallHolds, SettlementHolds, ResultHolds
    <2>2. Held[x] = Vouched(x)
      BY <2>1 DEF Held, Settled
    <2> QED
      BY <1>2, <2>1, <2>2
  <1>5. CostOrBound(x) \in Nat /\ Held[x] <= CostOrBound(x)
    BY <1>2, <1>4 DEF CostOrBound
  <1>6. CostOf(x) # Unknown =>
          CostOf(x) \in Nat /\ (~Corrected(x) => Held[x] <= CostOf(x))
    <2>1. CASE InConflict(x)
      BY <2>1 DEF CostOf
    <2>2. CASE ~InConflict(x) /\ Corrected(x)
      BY <1>3, <2>2 DEF CostOf, AnyCost
    <2>3. CASE ~InConflict(x) /\ ~Corrected(x)
      BY <1>4, <2>3 DEF CostOf
    <2> QED
      BY <2>1, <2>2, <2>3
  <1> QED
    BY <1>2, <1>5, <1>6 DEF BudgetCost

(* What the Team has spent covers what is held of the month, when no cost  *)
(* is unknown.                                                             *)
LEMMA SpendCoversOwn ==
  ASSUME IInv, RowsHold, month # 0, Pending = {}
  PROVE  SumOver(Held, Own(month)) <= Spend /\ Spend \in Nat
  <1>1. PICK all : all = {c \in Call : AffectsBudget(c)} \ Pending
    OBVIOUS
  <1>2. PICK b, f, s : /\ b = [x \in all |-> BudgetCost(x)]
                       /\ f = Held /\ s = Own(month)
    OBVIOUS
  <1>3. \A x \in all : x \in Call /\ Known(x) /\ BudgetCost(x) # Unknown
    BY <1>1 DEF Pending, AffectsBudget
  <1>4. Amounts(b, all)
    BY <1>2, <1>3, BookedCoversHeld DEF Amounts
  <1>5. IsFiniteSet(all)
    <2>1. all \subseteq {c \in Call : Known(c)}
      BY <1>3
    <2> QED
      BY <2>1, FS_Subset DEF RowsHold
  <1>6. s \in SUBSET all /\ \A x \in s : f[x] <= b[x]
    <2>1. month \in Nat
      BY DEF IInv, Types, LedgerTypes
    <2>2. ASSUME NEW x \in s
          PROVE  x \in all /\ ~Corrected(x)
      <3>1. x \in Call /\ attempt[x].month = month /\ ~Corrected(x)
        BY <1>2 DEF Own
      <3>2. Known(x)
        BY <3>1 DEF RowsHold, NoAttempt
      <3> QED
        BY <1>1, <3>1, <3>2 DEF AffectsBudget
    <2>3. \A x \in s : f[x] <= b[x]
      BY <1>2, <1>3, <2>2, BookedCoversHeld
    <2> QED
      BY <2>2, <2>3
  <1>7. Amounts(f, s)
    BY <1>2, <1>3, <1>6, HeldType DEF Amounts, IInv
  <1>8. SumOver(f, s) <= SumOver(b, all) /\ SumOver(b, all) \in Nat
    BY <1>4, <1>5, <1>6, <1>7, SumOverGrows, SumOverType
  <1>9. Spend = SumOver(b, all)
    BY <1>1, <1>2, <1>4, <1>5, BudgetCostSum DEF Spend
  <1> QED
    BY <1>2, <1>8, <1>9

(* What the card allows covers what its calls hold, and one call more.     *)
LEMMA CardCovers ==
  ASSUME IInv, RowsHold, NEW k \in cards, k.id # None, NEW c \in Call,
         PaidByCard(k, c)
  PROVE  SumOver(Held, CarriedBy(k.id)) + Price[c] <= CardSum(k)
  <1>1. PICK used : used = {x \in Call : attempt[x].card = k.id}
    OBVIOUS
  <1>2. PICK b, f : b = [x \in used |-> CostOrBound(x)] /\ f = Held
    OBVIOUS
  <1>3. k.id \in AnyCard \ {None}
    BY CardRowType DEF RowsHold
  <1>4. IsFiniteSet(used)
    BY <1>1, <1>3, SumSets DEF CarriedBy
  <1>5. \A x \in used : x \in Call /\ Known(x)
    BY <1>1 DEF RowsHold, NoAttempt
  <1>6. /\ Amounts(b, used) /\ Amounts(f, used)
        /\ \A x \in used : f[x] <= b[x]
    BY <1>2, <1>5, BookedCoversHeld, HeldType DEF Amounts, IInv
  <1>7. /\ SumOver(f, used) <= SumOver(b, used)
        /\ SumOver(f, used) \in Nat /\ SumOver(b, used) \in Nat
    BY <1>4, <1>6, SumOverGrows, SumOverType
  <1>8. MapThenSumSet(CostOrBound, used) = SumOver(b, used)
    BY <1>2, <1>4, <1>6, CostOrBoundSum
  <1>9. MapThenSumSet(CostOrBound, used) + Price[c] <= CardSum(k)
    BY <1>1 DEF PaidByCard, CardSum
  <1>10. Price[c] \in Nat /\ CardSum(k) \in Nat
    BY AmountTypes, CardRowType DEF RowsHold
  <1>11. SumOver(f, used) + Price[c] <= CardSum(k)
    BY <1>7, <1>8, <1>9, <1>10
  <1> QED
    BY <1>1, <1>2, <1>11 DEF CarriedBy

(* What an approval allows covers what the calls admitted since hold, and  *)
(* one call more.                                                          *)
LEMMA ApprovalCovers ==
  ASSUME IInv, RowsHold, NEW c \in Call, PaidByApproval(c),
         NEW T, T \subseteq {x \in Call : attempt[x].approved /\ ~Corrected(x)}
  PROVE  SumOver(Held, T) + Price[c] <= Allowance
  <1>1. PICK used : used = {x \in Call : attempt[x].approved}
    OBVIOUS
  <1>2. PICK b, f : b = [x \in used |-> CostOf(x)] /\ f = Held
    OBVIOUS
  <1>3. IsFiniteSet(used)
    BY <1>1, SumSets
  <1>4. \A x \in used : x \in Call /\ Known(x) /\ CostOf(x) # Unknown
    BY <1>1 DEF RowsHold, NoAttempt, PaidByApproval
  <1>5. T \in SUBSET used /\ \A x \in T : ~Corrected(x)
    BY <1>1
  <1>6. /\ Amounts(b, used) /\ Amounts(f, T)
        /\ \A x \in T : f[x] <= b[x]
    BY <1>2, <1>4, <1>5, BookedCoversHeld, HeldType DEF Amounts, IInv
  <1>7. IsFiniteSet(T)
    BY <1>3, <1>5, FS_Subset
  <1>8. /\ SumOver(f, T) <= SumOver(b, used)
        /\ SumOver(f, T) \in Nat /\ SumOver(b, used) \in Nat
    BY <1>3, <1>5, <1>6, <1>7, SumOverGrows, SumOverType
  <1>9. MapThenSumSet(CostOf, used) = SumOver(b, used)
    BY <1>2, <1>3, <1>6, CostOfSum
  <1>10. MapThenSumSet(CostOf, used) + Price[c] <= Allowance
    BY <1>1 DEF PaidByApproval
  <1>11. Price[c] \in Nat /\ Allowance \in Nat
    BY AmountTypes, LedgerAssumption
  <1> QED
    BY <1>2, <1>8, <1>9, <1>10, <1>11

(* The sources that pay for call c have the money.                         *)
LEMMA AdmissionPays ==
  ASSUME IInv, BudgetHolds, NEW c \in Call, NEW card \in AnyCard,
         Admits(c, card), card = None, month # 0
  PROVE  /\ approval = "none" =>
              SumOver(Held, Plain(month)) + Price[c] <= Limit
         /\ SumOver(Held, Free(month)) + Price[c] <= Limit + Extra
  <1>1. PICK f, o, r, p : /\ f = Held /\ o = Own(month)
                          /\ r = Free(month) /\ p = Plain(month)
    OBVIOUS
  <1>2. r \in SUBSET o /\ p \in SUBSET r /\ o \in SUBSET Call
    BY <1>1 DEF Free, Plain, Own
  <1>3. IsFiniteSet(o) /\ IsFiniteSet(r) /\ IsFiniteSet(p)
    <2>1. month \in Nat \ {0}
      BY DEF IInv, Types, LedgerTypes
    <2> QED
      BY <1>1, <2>1, SumSets DEF BudgetHolds
  <1>4. \A x \in Call : f[x] \in Nat /\ f[x] <= f[x]
    BY <1>1, HeldType DEF IInv
  <1>5. Amounts(f, o) /\ Amounts(f, r) /\ Amounts(f, p)
    BY <1>2, <1>4 DEF Amounts
  <1>6. /\ SumOver(f, r) <= SumOver(f, o) /\ SumOver(f, p) <= SumOver(f, o)
        /\ SumOver(f, r) \in Nat /\ SumOver(f, p) \in Nat /\ SumOver(f, o) \in Nat
    BY <1>2, <1>3, <1>4, <1>5, SumOverGrows, SumOverType
  <1>7. /\ Limit \in Nat /\ Allowance \in Nat /\ Price[c] \in Nat
        /\ Extra = (IF approval = "none" THEN 0 ELSE Allowance)
    BY LedgerAssumption, AmountTypes DEF Extra
  <1>8. CASE Spend + Price[c] <= Limit
    <2>1. Pending = {}
      BY DEF Admits
    <2>2. SumOver(f, o) <= Spend /\ Spend \in Nat
      BY <1>1, <2>1, SpendCoversOwn DEF BudgetHolds
    <2>3. /\ SumOver(f, p) + Price[c] <= Limit
          /\ SumOver(f, r) + Price[c] <= Limit + Extra
      BY <1>6, <1>7, <1>8, <2>2
    <2> QED
      BY <1>1, <2>3
  <1>9. CASE PaidByApproval(c)
    <2>1. approval # "none"
      BY <1>9 DEF PaidByApproval
    <2>2. PICK t : t = r \ p
      OBVIOUS
    <2>3. t \subseteq {x \in Call : attempt[x].approved /\ ~Corrected(x)}
      BY <1>1, <2>2 DEF Free, Plain, Own
    <2>4. SumOver(f, t) + Price[c] <= Allowance
      BY <1>1, <1>9, <2>3, ApprovalCovers DEF BudgetHolds
    <2>5. r = p \union t /\ t \in SUBSET r
      BY <1>2, <2>2
    <2>6. IsFiniteSet(t)
      BY <1>3, <2>5, FS_Subset
    <2>7. Amounts(f, p \union t) /\ Amounts(f, t)
      BY <1>5, <2>5 DEF Amounts
    <2>8. SumOver(f, r) <= SumOver(f, p) + SumOver(f, t)
      BY <1>3, <2>5, <2>6, <2>7, SumOverUnion
    <2>9. SumOver(f, t) \in Nat
      BY <2>6, <2>7, SumOverType
    <2>10. SumOver(f, p) <= Limit
      <3>1. month \in Nat \ {0}
        BY DEF IInv, Types, LedgerTypes
      <3> QED
        BY <1>1, <3>1 DEF BudgetHolds, FundsHold
    <2>11. SumOver(f, r) + Price[c] <= Limit + Extra
      BY <1>6, <1>7, <2>1, <2>4, <2>8, <2>9, <2>10
    <2> QED
      BY <1>1, <2>1, <2>11
  <1> QED
    BY <1>8, <1>9 DEF Admits

LEMMA AdmissionKeeps ==
  ASSUME IInv, IInv', BudgetHolds, NEW c \in Call, NEW card \in AnyCard,
         ~Known(c), Admits(c, card), charge' = charge,
         attempt' = [attempt EXCEPT ![c] =
                       [state |-> "reserved", cost |-> Unknown,
                        month |-> month, approved |-> approval # "none",
                        card |-> card]],
         correction' = correction, cards' = cards, approval' = approval
  PROVE  BudgetHolds'
  <1>1. PICK f, e : f = Held /\ e = Held'
    OBVIOUS
  <1>2. /\ attempt'[c].state = "reserved" /\ attempt'[c].month = month
        /\ attempt'[c].approved = (approval # "none")
        /\ attempt'[c].card = card
        /\ \A x \in Call : x # c => attempt'[x] = attempt[x]
    BY DEF IInv, Types, LedgerTypes
  <1>3. Known(c)' /\ ~Corrected(c) /\ attempt[c] = NoAttempt
    BY <1>2 DEF IInv, CallHolds, CorrectionHolds, Known, BudgetHolds, RowsHold
  <1>4. /\ f \in [Call -> Nat] /\ e \in [Call -> Nat] /\ e[c] = Price[c]
        /\ \A x \in Call : x # c => e[x] = f[x] /\ e[x] <= f[x]
    <2>1. f \in [Call -> Nat] /\ Price[c] \in Nat
      BY <1>1, HeldType, AmountTypes DEF IInv
    <2>2. \A x \in Call : e[x] = IF x = c THEN Price[c] ELSE f[x]
      BY <1>1, <1>2 DEF Held, Vouched
    <2>3. e = [x \in Call |-> e[x]]
      BY <1>1 DEF Held
    <2> QED
      BY <2>1, <2>2, <2>3
  <1>5. ASSUME NEW S \in SUBSET Call, IsFiniteSet(S), NEW T \in SUBSET S, c \notin T
        PROVE  /\ SumOver(e, T) <= SumOver(f, S)
               /\ SumOver(e, T) \in Nat /\ SumOver(f, S) \in Nat
    <2>1. Amounts(e, T) /\ Amounts(f, S) /\ \A x \in T : e[x] <= f[x]
      BY <1>4, <1>5 DEF Amounts
    <2>2. IsFiniteSet(T)
      BY <1>5, FS_Subset
    <2> QED
      BY <1>5, <2>1, <2>2, SumOverGrows, SumOverType
  <1>6. ASSUME NEW S \in SUBSET Call, IsFiniteSet(S),
               NEW T \in SUBSET (S \union {c})
        PROVE  /\ SumOver(e, T) <= SumOver(f, S) + Price[c]
               /\ SumOver(e, T) \in Nat /\ SumOver(f, S) \in Nat
    <2>1. PICK u : u = S \union {c}
      OBVIOUS
    <2>2. /\ Amounts(f, S) /\ Amounts(e, u) /\ Amounts(e, T)
          /\ \A x \in S : c # x => e[x] <= f[x]
      BY <1>4, <2>1 DEF Amounts
    <2>3. IsFiniteSet(u) /\ T \in SUBSET u
      BY <1>6, <2>1, FS_AddElement
    <2>4. IsFiniteSet(T)
      BY <2>3, FS_Subset
    <2> QED
      BY <1>4, <1>6, <2>1, <2>2, <2>4, SumOverOneMore, SumOverType
  <1>7. RowsHold'
    <2>1. {x \in Call : Known(x)}' = {x \in Call : Known(x)} \union {c}
      BY <1>2, <1>3 DEF Known
    <2>2. IsFiniteSet({x \in Call : Known(x)} \union {c})
      BY FS_AddElement DEF BudgetHolds, RowsHold
    <2>3. IsFiniteSet({x \in Call : Known(x)}')
      BY <2>1, <2>2
    <2>4. \A x \in Call : ~Known(x)' => attempt'[x] = NoAttempt
      BY <1>2, <1>3 DEF BudgetHolds, RowsHold, Known
    <2>5. ASSUME NEW x \in Call, attempt'[x].card # None
          PROVE  \E k \in cards : /\ k.id = attempt'[x].card /\ k.confirmed
                                  /\ k.id.month = attempt'[x].month
      <3>1. CASE x = c
        <4>1. PICK k \in cards : k.id = card /\ PaidByCard(k, c)
          BY <1>2, <2>5, <3>1 DEF Admits
        <4> QED
          BY <1>2, <3>1, <4>1 DEF PaidByCard
      <3>2. CASE x # c
        BY <1>2, <2>5, <3>2 DEF BudgetHolds, RowsHold
      <3> QED
        BY <3>1, <3>2
    <2> QED
      BY <2>3, <2>4, <2>5 DEF BudgetHolds, RowsHold
  <1>8. Limit \in Nat /\ Extra \in Nat /\ Extra' = Extra /\ Price[c] \in Nat
    <2>1. Limit \in Nat /\ Allowance \in Nat
      BY LedgerAssumption
    <2> QED
      BY <2>1, AmountTypes DEF Extra
  <1>9. ASSUME NEW m \in Nat \ {0}
        PROVE  /\ SumOver(Held, Plain(m))' <= Limit
               /\ SumOver(Held, Free(m))' <= Limit + Extra'
    <2>1. PICK p, q, r, s : /\ p = Plain(m) /\ q = Plain(m)'
                            /\ r = Free(m) /\ s = Free(m)'
      OBVIOUS
    <2>2. p \in SUBSET Call /\ r \in SUBSET Call /\ IsFiniteSet(p) /\ IsFiniteSet(r)
      BY <2>1, SumSets DEF Plain, Free, Own, BudgetHolds
    <2>3. /\ \A x \in s : x # c => x \in r
          /\ \A x \in q : x # c => x \in p
          /\ c \in s => m = month /\ card = None
          /\ c \in q => m = month /\ card = None /\ approval = "none"
      BY <1>2, <2>1 DEF Plain, Free, Own, Corrected
    <2>4. SumOver(f, p) <= Limit /\ SumOver(f, r) <= Limit + Extra
      BY <1>1, <2>1 DEF BudgetHolds, FundsHold
    <2>5. SumOver(e, q) <= Limit
      <3>1. CASE c \notin q
        <4>1. q \in SUBSET p
          BY <2>3, <3>1
        <4> QED
          BY <1>5, <1>8, <2>2, <2>4, <3>1, <4>1
      <3>2. CASE c \in q
        <4>1. q \in SUBSET (p \union {c})
          BY <2>3
        <4>2. SumOver(f, p) + Price[c] <= Limit
          BY <1>1, <2>1, <2>3, <3>2, AdmissionPays
        <4> QED
          BY <1>6, <1>8, <2>2, <4>1, <4>2
      <3> QED
        BY <3>1, <3>2
    <2>6. SumOver(e, s) <= Limit + Extra
      <3>1. CASE c \notin s
        <4>1. s \in SUBSET r
          BY <2>3, <3>1
        <4> QED
          BY <1>5, <1>8, <2>2, <2>4, <3>1, <4>1
      <3>2. CASE c \in s
        <4>1. s \in SUBSET (r \union {c})
          BY <2>3
        <4>2. SumOver(f, r) + Price[c] <= Limit + Extra
          BY <1>1, <2>1, <2>3, <3>2, AdmissionPays
        <4> QED
          BY <1>6, <1>8, <2>2, <4>1, <4>2
      <3> QED
        BY <3>1, <3>2
    <2> QED
      BY <1>1, <1>8, <2>1, <2>5, <2>6
  <1>10. ASSUME NEW k \in cards, k.id # None
         PROVE  SumOver(Held, CarriedBy(k.id))' <= CardSum(k)
    <2>1. PICK id, s, t : id = k.id /\ s = CarriedBy(id) /\ t = CarriedBy(id)'
      OBVIOUS
    <2>2. id \in AnyCard \ {None} /\ CardSum(k) \in Nat
      BY <1>10, <2>1, CardRowType DEF BudgetHolds, RowsHold
    <2>3. s \in SUBSET Call /\ IsFiniteSet(s)
      BY <2>1, <2>2, SumSets DEF CarriedBy, BudgetHolds
    <2>4. /\ \A x \in t : x # c => x \in s
          /\ c \in t => card = id
      BY <1>2, <2>1 DEF CarriedBy
    <2>5. SumOver(e, t) <= CardSum(k)
      <3>1. CASE c \notin t
        <4>1. t \in SUBSET s
          BY <2>4, <3>1
        <4>2. SumOver(f, s) <= CardSum(k)
          BY <1>1, <1>10, <2>1 DEF BudgetHolds, FundsHold
        <4> QED
          BY <1>5, <2>2, <2>3, <3>1, <4>1, <4>2
      <3>2. CASE c \in t
        <4>1. t \in SUBSET (s \union {c})
          BY <2>4
        <4>2. PICK o \in cards : o.id = id /\ PaidByCard(o, c)
          BY <2>2, <2>4, <3>2 DEF Admits
        <4>3. SumOver(f, s) + Price[c] <= CardSum(o)
          BY <1>1, <2>1, <2>2, <4>2, CardCovers DEF BudgetHolds
        <4>4. CardSum(o) = CardSum(k)
          BY <2>1, <4>2 DEF CardSum
        <4> QED
          BY <1>6, <1>8, <2>2, <2>3, <4>1, <4>3, <4>4
      <3> QED
        BY <3>1, <3>2
    <2> QED
      BY <1>1, <2>1, <2>5
  <1>11. FundsHold'
    BY <1>9, <1>10 DEF FundsHold, CardSum
  <1> QED
    BY <1>7, <1>11 DEF BudgetHolds

LEMMA RestingIsQuiet ==
  ASSUME Types, NEW x \in Call, attempt'[x] = attempt[x],
         correction'[x] = correction[x], charge'[x] = charge[x]
  PROVE  Quiet(x)
  <1>1. Held[x] \in Nat /\ Held'[x] = Held[x]
    BY HeldType DEF Held, Vouched
  <1> QED
    BY <1>1 DEF Quiet, Known, Corrected

LEMMA SameCards ==
  ASSUME BudgetHolds, cards' = cards
  PROVE  CardsKept
  BY DEF BudgetHolds, RowsHold, CardsKept

(* Nothing the sums are about changes.                                     *)
LEMMA RestingKeeps ==
  ASSUME IInv, IInv', BudgetHolds, CardsKept,
         UNCHANGED <<attempt, correction, charge>>,
         approval' = "none" => approval = "none"
  PROVE  BudgetHolds'
  BY RestingIsQuiet, QuietKeeps DEF IInv

LEMMA ReservingPays ==
  ASSUME IInv, IInv', BudgetHolds, NEW c \in Call, NEW card \in AnyCard,
         ReserveModelCall(c, card), charge' = charge
  PROVE  BudgetHolds'
  <1>1. UNCHANGED <<correction, cards, approval>>
    BY DEF ReserveModelCall
  <1>2. CASE ~Known(c) /\ Admits(c, card)
    <2>1. attempt' = [attempt EXCEPT ![c] =
                       [state |-> "reserved", cost |-> Unknown,
                        month |-> month, approved |-> approval # "none",
                        card |-> card]]
      BY <1>2 DEF ReserveModelCall
    <2> QED
      BY <1>1, <1>2, <2>1, AdmissionKeeps
  <1>3. CASE ~(~Known(c) /\ Admits(c, card))
    <2>1. attempt' = attempt
      BY <1>3 DEF ReserveModelCall
    <2> QED
      BY <1>1, <2>1, SameCards, RestingKeeps
  <1> QED
    BY <1>2, <1>3

LEMMA SettlingPays ==
  ASSUME IInv, IInv', BudgetHolds, NEW c \in Call, NEW s \in Results,
         SettleModelCall(c, s), charge' = charge
  PROVE  BudgetHolds'
  <1>1. UNCHANGED <<correction, cards, approval>>
    BY DEF SettleModelCall
  <1>2. CASE attempt[c].state = "reserved"
    <2>1. attempt' = [attempt EXCEPT ![c] =
             [attempt[c] EXCEPT !.state = s.state, !.cost = s.cost]]
      BY <1>2 DEF SettleModelCall
    <2>2. /\ attempt'[c] = [attempt[c] EXCEPT !.state = s.state, !.cost = s.cost]
          /\ attempt[c] \in [state : State, cost : AnyCost, month : Nat,
                             approved : BOOLEAN, card : AnyCard]
          /\ \A x \in Call \ {c} : attempt'[x] = attempt[x]
      BY <2>1 DEF IInv, Types, LedgerTypes
    <2>3. /\ attempt'[c].state = s.state
          /\ attempt'[c].month = attempt[c].month
          /\ attempt'[c].approved = attempt[c].approved
          /\ attempt'[c].card = attempt[c].card
      BY <2>2
    <2>4. s.state \in {"completed", "failed", "not_sent"}
      BY DEF Results
    <2>5. Held'[c] <= Held[c]
      <3>1. Held'[c] = Vouched(c)
        BY <2>3, <2>4 DEF Held, Vouched
      <3> QED
        BY <3>1, HeldType DEF IInv
    <2>6. Quiet(c)
      BY <1>1, <1>2, <2>3, <2>4, <2>5 DEF Quiet, Known, Corrected
    <2>7. \A x \in Call \ {c} : Quiet(x)
      BY <1>1, <2>2, RestingIsQuiet DEF IInv
    <2> QED
      BY <1>1, <2>6, <2>7, SameCards, QuietKeeps
  <1>3. CASE attempt[c].state # "reserved"
    <2>1. attempt' = attempt
      BY <1>3 DEF SettleModelCall
    <2> QED
      BY <1>1, <2>1, SameCards, RestingKeeps
  <1> QED
    BY <1>2, <1>3

(* What a call is about to cost is held until it is settled.               *)
LEMMA SendingPays ==
  ASSUME IInv, IInv', BudgetHolds, NEW c \in Call, Send(c)
  PROVE  BudgetHolds'
  <1>1. UNCHANGED <<attempt, correction, cards, approval>>
    BY DEF Send, teamVars, callVars
  <1>2. \A x \in Call \ {c} : charge'[x] = charge[x]
    BY DEF Send, IInv, Types, CallerTypes
  <1>3. attempt[c].state = "reserved"
    <2>1. Known(c) /\ ~Settled(c)
      BY DEF Send, IInv, CallHolds, ResultHolds, SettlementHolds
    <2> QED
      BY <2>1 DEF IInv, Types, LedgerTypes, State, Known, Settled
  <1>4. Held'[c] = Held[c] /\ Held[c] \in Nat
    BY <1>1, <1>3, HeldType DEF Held, IInv
  <1>5. Quiet(c)
    BY <1>1, <1>4 DEF Quiet, Known, Corrected
  <1>6. \A x \in Call \ {c} : Quiet(x)
    BY <1>1, <1>2, RestingIsQuiet DEF IInv
  <1> QED
    BY <1>1, <1>5, <1>6, SameCards, QuietKeeps

(* A corrected call is out of the sums for good.                           *)
LEMMA CorrectingPays ==
  ASSUME IInv, IInv', BudgetHolds, Submit
  PROVE  BudgetHolds'
  <1>1. charge' = charge
    BY DEF Submit
  <1>2. CASE UNCHANGED teamVars
    BY <1>1, <1>2, SameCards, RestingKeeps DEF teamVars, callVars
  <1>3. CASE ReconcileModelCost(draft)
    <2>1. draft # None /\ draft.seen \in AnyRef
      BY DEF Submit, IInv, Types, CallerTypes
    <2>2. PICK c \in Call : c = draft.seen.call
      BY <2>1 DEF AnyRef
    <2>3. attempt' = attempt /\ Corrected(c)'
      BY <1>3, <2>1, <2>2, ReconcileEffect DEF IInv
    <2>4. cards' = cards /\ approval' = approval
      BY <1>3 DEF ReconcileModelCost
    <2>5. \A x \in Call \ {c} : correction'[x] = correction[x]
      BY <1>3, <2>2 DEF ReconcileModelCost, IInv, Types, LedgerTypes
    <2>6. Held[c] \in Nat /\ Held'[c] = Held[c]
      BY <1>1, <2>3, HeldType DEF Held, Vouched, IInv
    <2>7. Quiet(c)
      BY <2>3, <2>6 DEF Quiet, Known
    <2>8. \A x \in Call \ {c} : Quiet(x)
      BY <1>1, <2>3, <2>5, RestingIsQuiet DEF IInv
    <2> QED
      BY <2>4, <2>7, <2>8, SameCards, QuietKeeps
  <1> QED
    BY <1>2, <1>3 DEF Submit

LEMMA PreparingPays ==
  ASSUME IInv, IInv', BudgetHolds, NEW c \in Call, PrepareAnswer(c)
  PROVE  BudgetHolds'
  <1>1. charge' = charge /\ attempt' = attempt /\ correction' = correction
        /\ approval' = approval
    BY DEF PrepareAnswer, PrepareContinuation, teamVars, callVars
  <1>2. PICK n : n = [id |-> CardFor(c), confirmed |-> FALSE, expired |-> FALSE]
    OBVIOUS
  <1>3. cards' \in {cards, cards \union {n}}
    BY <1>2 DEF PrepareAnswer, PrepareContinuation, teamVars
  <1>4. n \in CardRow
    <2>1. \A x \in Call : Version(x) \in AnyRef
      BY DEF IInv, Types, LedgerTypes, Version, AnyRef
    <2>2. {Version(x) : x \in Pending} \subseteq AnyRef
      BY <2>1 DEF Pending
    <2>3. CardFor(c) \in [records : SUBSET AnyRef, month : Nat, bound : Nat]
      BY <2>2, AmountTypes DEF CardFor, IInv, Types, LedgerTypes
    <2> QED
      BY <1>2, <2>3 DEF CardRow
  <1>5. CardsKept
    BY <1>3, <1>4, FS_AddElement DEF CardsKept, BudgetHolds, RowsHold
  <1> QED
    BY <1>1, <1>5, RestingKeeps

LEMMA TeamPays ==
  ASSUME IInv, IInv', BudgetHolds, TeamStep
  PROVE  BudgetHolds'
  <1>1. charge' = charge /\ attempt' = attempt /\ correction' = correction
    BY DEF TeamStep, GrantApproval, ExpireApproval, NextMonth,
           ConfirmContinuation, ExpireCard, callVars, callerVars
  <1>2. approval' = "none" => approval = "none"
    BY DEF TeamStep, GrantApproval, ExpireApproval, NextMonth,
           ConfirmContinuation, ExpireCard
  <1>3. CASE cards' = cards
    BY <1>1, <1>2, <1>3, SameCards, RestingKeeps
  <1>4. ASSUME NEW k \in cards, ConfirmContinuation(k) \/ ExpireCard(k)
        PROVE  BudgetHolds'
    <2>1. PICK n : /\ n \in {[k EXCEPT !.confirmed = TRUE],
                             [k EXCEPT !.expired = TRUE]}
                   /\ cards' = (cards \ {k}) \union {n}
      BY <1>4 DEF ConfirmContinuation, ExpireCard
    <2>2. k \in CardRow /\ IsFiniteSet(cards)
      BY DEF BudgetHolds, RowsHold
    <2>3. n \in CardRow /\ n.id = k.id /\ (k.confirmed => n.confirmed)
      BY <2>1, <2>2 DEF CardRow
    <2>4. IsFiniteSet(cards')
      <3>1. IsFiniteSet(cards \ {k})
        BY <2>2, FS_RemoveElement
      <3> QED
        BY <2>1, <3>1, FS_AddElement
    <2>5. \A o \in cards : o.confirmed => \E q \in cards' : q.id = o.id /\ q.confirmed
      BY <2>1, <2>3
    <2>6. CardsKept
      BY <2>1, <2>3, <2>4, <2>5 DEF CardsKept, BudgetHolds, RowsHold
    <2> QED
      BY <1>1, <1>2, <2>6, RestingKeeps
  <1> QED
    BY <1>3, <1>4 DEF TeamStep, GrantApproval, ExpireApproval, NextMonth

LEMMA StepPays ==
  ASSUME IInv, IInv', BudgetHolds, [Next]_vars
  PROVE  BudgetHolds'
  <1>1. ASSUME UNCHANGED <<teamVars, charge>>
        PROVE  BudgetHolds'
    BY <1>1, SameCards, RestingKeeps DEF teamVars, callVars
  <1>2. ASSUME NEW c \in Call, CallStep(c)
        PROVE  BudgetHolds'
    <2>1. CASE Begin(c) \/ Resume(c) \/ Cancel(c) \/ Return(c)
               \/ NoteResult(c) \/ Retry(c) \/ GiveUp(c) \/ Look(c)
      BY <1>1, <2>1 DEF Begin, Resume, Cancel, Return, NoteResult, Retry,
                        GiveUp, Look
    <2>2. CASE ReserveAnswer(c)
      <3>1. /\ asks[c] \in AnyCard /\ ReserveModelCall(c, asks[c])
            /\ charge' = charge
        BY <2>2 DEF ReserveAnswer, IInv, Types, CallerTypes
      <3> QED
        BY <3>1, ReservingPays
    <2>3. CASE PrepareAnswer(c)
      BY <2>3, PreparingPays
    <2>4. CASE Send(c)
      BY <2>4, SendingPays
    <2>5. CASE SettleAnswer(c)
      <3>1. /\ result[c] \in Results /\ SettleModelCall(c, result[c])
            /\ charge' = charge
        BY <2>5 DEF SettleAnswer, IInv, Types, CallerTypes, CallHolds,
                    ResultHolds
      <3> QED
        BY <3>1, SettlingPays
    <2> QED
      BY <1>2, <2>1, <2>2, <2>3, <2>4, <2>5 DEF CallStep
  <1>3. CASE RetryAnswer
    <2>1. /\ retrying \in Call /\ result[retrying] \in Results
          /\ SettleModelCall(retrying, result[retrying]) /\ charge' = charge
      BY <1>3 DEF RetryAnswer, IInv, Types, CallerTypes, CallHolds,
                  SettlementHolds
    <2> QED
      BY <2>1, SettlingPays
  <1>4. CASE GiveUpRetry \/ Crash
    BY <1>1, <1>4 DEF GiveUpRetry, Crash
  <1>5. ASSUME NEW m \in late, HandleLate(m)
        PROVE  BudgetHolds'
    <2>1. /\ m.call \in Call /\ m.card \in AnyCard /\ charge' = charge
          /\ m.op \in {"reserve", "settle"}
      BY <1>5 DEF HandleLate, IInv, Types, CallerTypes
    <2>2. CASE m.op = "reserve"
      BY <1>5, <2>1, <2>2, ReservingPays DEF HandleLate
    <2>3. CASE m.op = "settle"
      <3>1. /\ result[m.call] \in Results
            /\ SettleModelCall(m.call, result[m.call])
        BY <1>5, <2>1, <2>3 DEF HandleLate, IInv, Types, CallerTypes,
                                CallHolds, SettlementHolds
      <3> QED
        BY <2>1, <3>1, SettlingPays
    <2> QED
      BY <2>1, <2>2, <2>3
  <1>6. CASE UNCHANGED vars
    BY <1>1, <1>6 DEF vars, callerVars
  <1> QED
    BY <1>2, <1>3, <1>4, <1>5, <1>6, CorrectingPays, TeamPays DEF Next

LEMMA InitPays ==
  ASSUME Init
  PROVE  BudgetHolds
  <1>1. RowsHold
    <2>1. {c \in Call : Known(c)} = {}
      BY DEF Init, LedgerInit, Known, NoAttempt
    <2> QED
      BY <2>1, FS_EmptySet DEF Init, LedgerInit, RowsHold, NoAttempt
  <1>2. \A m \in Nat \ {0} : Plain(m) = {} /\ Free(m) = {}
    BY DEF Init, LedgerInit, Plain, Free, Own, NoAttempt
  <1>3. Limit \in Nat /\ Extra = 0
    BY LedgerAssumption DEF Init, LedgerInit, Extra
  <1>4. \A m \in Nat \ {0} : /\ SumOver(Held, Plain(m)) <= Limit
                             /\ SumOver(Held, Free(m)) <= Limit + Extra
    BY <1>2, <1>3, SumOverNone
  <1>5. FundsHold
    BY <1>4 DEF FundsHold, Init, LedgerInit
  <1> QED
    BY <1>1, <1>5 DEF BudgetHolds

(* The calls of a month cost no more than the budget and what leads have   *)
(* allowed beyond it, however many there are and in whatever order they    *)
(* are admitted, sent, lost, settled and corrected.                        *)
THEOREM WithinBudget == Spec => []NeverOverspent
  <1>1. Init => BudgetHolds
    BY InitPays
  <1>2. IInv /\ IInv' /\ BudgetHolds /\ [Next]_vars => BudgetHolds'
    BY StepPays
  <1>3. IInv /\ BudgetHolds => NeverOverspent
    <2> SUFFICES ASSUME IInv, BudgetHolds, NEW m \in 1..MaxMonth
                 PROVE  MapThenSumSet(Vouched,
                          {c \in Call : attempt[c].month = m /\ ~Corrected(c)})
                        <= Limit + (IF approval = "none" THEN 0 ELSE Allowance)
                           + MapThenSumSet(CardSum,
                               {k \in cards : k.confirmed /\ k.id.month = m})
      BY DEF NeverOverspent
    <2>1. m \in Nat \ {0}
      BY LedgerAssumption
    <2>2. PICK o, r, K, f, v, e :
            /\ o = Own(m) /\ r = Free(m) /\ f = Held
            /\ K = {k \in cards : k.confirmed /\ k.id.month = m}
            /\ v = [x \in o |-> Vouched(x)] /\ e = [k \in K |-> CardSum(k)]
      OBVIOUS
    <2>3. PICK share :
            share = [k \in K |-> {c \in o : /\ attempt[c].card # None
                                            /\ attempt[c].card = k.id}]
      OBVIOUS
    <2>4. PICK u : u = UNION {share[k] : k \in K}
      OBVIOUS
    <2>5. /\ IsFiniteSet(o) /\ IsFiniteSet(r) /\ IsFiniteSet(K)
      <3>1. IsFiniteSet(o) /\ IsFiniteSet(r)
        BY <2>1, <2>2, SumSets DEF BudgetHolds
      <3>2. K \in SUBSET cards /\ IsFiniteSet(cards)
        BY <2>2 DEF BudgetHolds, RowsHold
      <3> QED
        BY <3>1, <3>2, FS_Subset
    <2>6. o = r \union u /\ o \in SUBSET Call /\ r \in SUBSET o /\ u \in SUBSET o
      <3>1. r \in SUBSET o /\ u \in SUBSET o /\ o \in SUBSET Call
        BY <2>2, <2>3, <2>4 DEF Free, Own
      <3>2. ASSUME NEW c \in o
            PROVE  c \in r \/ c \in u
        <4>1. CASE attempt[c].card = None
          BY <2>2, <3>2, <4>1 DEF Free
        <4>2. CASE attempt[c].card # None
          <5>1. c \in Call /\ attempt[c].month = m
            BY <2>2, <3>2 DEF Own
          <5>2. PICK k \in cards : /\ k.id = attempt[c].card /\ k.confirmed
                                   /\ k.id.month = attempt[c].month
            BY <4>2, <5>1 DEF BudgetHolds, RowsHold
          <5>3. k \in K
            BY <2>2, <5>1, <5>2
          <5>4. c \in share[k]
            BY <2>3, <3>2, <4>2, <5>2, <5>3
          <5> QED
            BY <2>4, <5>3, <5>4
        <4> QED
          BY <4>1, <4>2
      <3> QED
        BY <3>1, <3>2
    <2>7. \A x \in Call : /\ f[x] \in Nat /\ f[x] <= f[x]
                          /\ Vouched(x) \in Nat /\ Vouched(x) <= f[x]
      BY <2>2, HeldType DEF IInv
    <2>8. /\ Amounts(f, o) /\ Amounts(f, r) /\ Amounts(f, u) /\ Amounts(v, o)
          /\ \A x \in o : v[x] <= f[x]
      BY <2>2, <2>6, <2>7 DEF Amounts
    <2>9. IsFiniteSet(u)
      BY <2>5, <2>6, FS_Subset
    <2>10. Amounts(e, K)
      BY <2>2, CardRowType DEF Amounts, BudgetHolds, RowsHold
    <2>11. ASSUME NEW k \in K
           PROVE  SumOver(f, share[k]) <= e[k]
      <3>1. k \in cards /\ k \in CardRow /\ e[k] = CardSum(k)
        BY <2>2 DEF BudgetHolds, RowsHold
      <3>2. CASE k.id = None
        <4>1. share[k] = {}
          BY <2>3, <3>2
        <4> QED
          BY <2>10, <4>1, SumOverNone DEF Amounts
      <3>3. CASE k.id # None
        <4>1. PICK s, t : s = CarriedBy(k.id) /\ t = share[k]
          OBVIOUS
        <4>2. k.id \in AnyCard \ {None}
          BY <3>1, <3>3, CardRowType
        <4>3. IsFiniteSet(s)
          BY <4>1, <4>2, SumSets DEF BudgetHolds
        <4>4. t \in SUBSET s /\ s \in SUBSET Call
          BY <2>3, <2>6, <4>1 DEF CarriedBy
        <4>5. Amounts(f, s) /\ Amounts(f, t) /\ \A x \in t : f[x] <= f[x]
          BY <2>7, <4>4 DEF Amounts
        <4>6. IsFiniteSet(t)
          BY <4>3, <4>4, FS_Subset
        <4>7. /\ SumOver(f, t) <= SumOver(f, s)
              /\ SumOver(f, t) \in Nat /\ SumOver(f, s) \in Nat
          BY <4>3, <4>4, <4>5, <4>6, SumOverGrows, SumOverType
        <4>8. SumOver(f, s) <= CardSum(k) /\ CardSum(k) \in Nat
          BY <2>2, <3>1, <3>3, <4>1, CardRowType DEF BudgetHolds, FundsHold
        <4> QED
          BY <3>1, <4>1, <4>7, <4>8
      <3> QED
        BY <3>2, <3>3
    <2>12. SumOver(f, u) <= SumOver(e, K)
      <3>1. share \in [K -> SUBSET o]
        BY <2>3
      <3> QED
        BY <2>4, <2>5, <2>8, <2>10, <2>11, <3>1, SumOverShares
    <2>13. SumOver(f, o) <= SumOver(f, r) + SumOver(f, u)
      BY <2>5, <2>6, <2>8, <2>9, SumOverUnion
    <2>14. SumOver(v, o) <= SumOver(f, o)
      BY <2>5, <2>8, SumOverGrows
    <2>15. SumOver(f, r) <= Limit + Extra
      BY <2>1, <2>2 DEF BudgetHolds, FundsHold
    <2>16. /\ SumOver(v, o) \in Nat /\ SumOver(f, o) \in Nat
           /\ SumOver(f, r) \in Nat /\ SumOver(f, u) \in Nat
           /\ SumOver(e, K) \in Nat
      BY <2>5, <2>8, <2>9, <2>10, SumOverType
    <2>17. Limit \in Nat /\ Extra \in Nat
      BY LedgerAssumption DEF Extra
    <2>18. SumOver(v, o) <= Limit + Extra + SumOver(e, K)
      BY <2>12, <2>13, <2>14, <2>15, <2>16, <2>17
    <2>19. /\ MapThenSumSet(Vouched, o) = SumOver(v, o)
           /\ MapThenSumSet(CardSum, K) = SumOver(e, K)
      BY <2>2, <2>5, <2>8, <2>10, VouchedSum, CardSumSum
    <2> QED
      BY <2>2, <2>18, <2>19 DEF Own, Extra
  <1> QED
    BY <1>1, <1>2, <1>3, Invariance, PTL DEF Spec

=============================================================================
