----------------------------- MODULE CostLedger -----------------------------
(***************************************************************************)
(* The Team's ledger of model calls in one project: the attempts, the      *)
(* corrections leads append to them, approvals to go over the budget and   *)
(* cards to go on while past costs are unknown.  Every operation is one    *)
(* transaction under the project's advisory lock.                          *)
(*                                                                         *)
(* Amounts are small integers.  A call has one final settlement, which may *)
(* be sent many times.  A call with a verified bound holds that bound      *)
(* until its cost is known; any other has an estimate and holds nothing:   *)
(* its cost is unknown until then.                                         *)
(***************************************************************************)
EXTENDS Integers, FiniteSets, FiniteSetsExt

CONSTANTS
  Call,      \* model calls, by id
  Bounded,   \* those with a verified bound
  Price,     \* [Call -> Nat]: bound or estimate
  Limit,     \* the budget of a month
  Allowance, \* what an approval allows beyond it
  MaxUses,   \* calls a card allows
  MaxMonth,  \* bound on the months
  MaxEdits,  \* bound on the events appended to one call
  MaxCards,  \* bound on the cards
  Unknown,   \* a cost nobody knows
  None

ASSUME LedgerAssumption ==
  /\ Bounded \subseteq Call
  /\ Price \in [Call -> Nat \ {0}]
  /\ {Limit, Allowance, MaxUses, MaxMonth, MaxEdits, MaxCards} \subseteq Nat
  /\ Unknown \notin Int

VARIABLES
  attempt,    \* [Call -> Attempt]
  correction, \* [Call -> Correction]: the last one by a lead
  event,      \* [Call -> Event]: what came of a settlement after a correction
  superseded, \* calls corrected again after that event
  edits,      \* [Call -> Nat]: events appended so far
  overruled,  \* history: calls whose lead had seen the settlement
  cards,      \* cards to go on with
  approval,   \* a lead's approval to exceed the budget
  month

callVars == <<attempt, correction, event, superseded, edits, overruled>>
teamVars == <<callVars, cards, approval, month>>

State == {"none", "reserved", "completed", "failed", "not_sent"}
Event == {"none", "confirmed", "conflict"}
MaxPrice == Max({Price[c] : c \in Call})
Cost == 0..(MaxPrice + 1) \union {Unknown}
NoAttempt == [state |-> "none", cost |-> Unknown, month |-> 0,
              approved |-> FALSE, card |-> None]
NoCorrection == [cost |-> Unknown, notSent |-> FALSE]
Settlement == [state : {"completed", "failed", "not_sent"}, cost : Cost]
NotSent == [state |-> "not_sent", cost |-> 0]

ASSUME NoneAssumption ==
  None \notin Call /\ None \notin [state : State, cost : Int \union {Unknown}]

LedgerInit ==
  /\ attempt = [c \in Call |-> NoAttempt]
  /\ correction = [c \in Call |-> NoCorrection]
  /\ event = [c \in Call |-> "none"]
  /\ superseded = {}
  /\ edits = [c \in Call |-> 0]
  /\ overruled = {}
  /\ cards = {}
  /\ approval = "none"
  /\ month = 1

-----------------------------------------------------------------------------
(* The cost records made of attempts and events.                           *)

Known(c) == attempt[c].state # "none"
Corrected(c) == correction[c] # NoCorrection
InConflict(c) == event[c] = "conflict" /\ c \notin superseded

CostOf(c) ==
  CASE InConflict(c) -> Unknown
    [] ~InConflict(c) /\ Corrected(c) -> correction[c].cost
    [] ~InConflict(c) /\ ~Corrected(c) -> attempt[c].cost

(* Mutant: a call holds nothing while its cost is unknown.                 *)
BudgetCostAsSettled(c) == IF CostOf(c) = Unknown THEN 0 ELSE CostOf(c)

BudgetCost(c) ==
  IF CostOf(c) = Unknown /\ ~InConflict(c) /\ c \in Bounded
  THEN Price[c]
  ELSE CostOf(c)

(* A call that may still be running counts in every month.                 *)
AffectsBudget(c) ==
  /\ Known(c)
  /\ \/ attempt[c].month = month
     \/ /\ attempt[c].state \in {"reserved", "failed"}
        /\ ~Corrected(c)
        /\ CostOf(c) = Unknown

Pending == {c \in Call : AffectsBudget(c) /\ BudgetCost(c) = Unknown}

Spend ==
  MapThenSumSet(BudgetCost, {c \in Call : AffectsBudget(c)} \ Pending)

(* The exact record a lead or a card has seen.                             *)
Version(c) == [call |-> c, state |-> attempt[c].state, edits |-> edits[c]]

-----------------------------------------------------------------------------
(* Admission.                                                              *)

(* An approval pays for calls whose costs are all known.                   *)
PaidByApproval(c) ==
  LET used == {x \in Call : attempt[x].approved}
  IN /\ approval = "granted"
     /\ \A x \in used : CostOf(x) # Unknown
     /\ MapThenSumSet(CostOf, used) + Price[c] <= Allowance

(* What a call holds of the card that paid for it.                         *)
CostOrBound(x) == IF attempt[x].cost = Unknown THEN Price[x] ELSE attempt[x].cost

(* Mutant: nobody counts how often a card is used.                         *)
PaidByCardAgain(k, c) ==
  k.confirmed /\ ~k.expired /\ k.id.month = month

PaidByCard(k, c) ==
  LET used == {x \in Call : attempt[x].card = k.id}
  IN /\ k.confirmed /\ ~k.expired /\ k.id.month = month
     /\ Price[c] <= k.id.bound
     /\ \A x \in Pending : Version(x) \in k.id.records
     /\ Cardinality(used) < MaxUses
     /\ MapThenSumSet(CostOrBound, used) + Price[c] <= MaxUses * k.id.bound

(* card is the id of the one the caller names, None without.               *)
Admits(c, card) ==
  IF card # None
  THEN \E k \in cards : k.id = card /\ PaidByCard(k, c)
  ELSE /\ Pending = {}
       /\ Spend + Price[c] <= Limit \/ PaidByApproval(c)

(* The same call is never admitted twice.                                  *)
ReserveModelCall(c, card) ==
  /\ attempt' = IF ~Known(c) /\ Admits(c, card)
                THEN [attempt EXCEPT ![c] =
                        [state |-> "reserved", cost |-> Unknown,
                         month |-> month, approved |-> approval # "none",
                         card |-> card]]
                ELSE attempt
  /\ UNCHANGED <<correction, event, superseded, edits, overruled, cards,
                 approval, month>>

(* A card lists the costs unknown now; the same list gives the same card.  *)
CardFor(c) ==
  [records |-> {Version(x) : x \in Pending}, month |-> month,
   bound |-> Price[c]]

CanPrepare(c) ==
  /\ c \in Bounded
  /\ \A x \in Pending : ~InConflict(x)
  /\ \A k \in cards : k.id = CardFor(c) => ~k.expired

PrepareContinuation(c) ==
  /\ CanPrepare(c)
  /\ cards' = IF \E k \in cards : k.id = CardFor(c)
              THEN cards
              ELSE cards \union
                     {[id |-> CardFor(c), confirmed |-> FALSE,
                       expired |-> FALSE]}
  /\ Cardinality(cards') <= MaxCards
  /\ UNCHANGED <<callVars, approval, month>>

ConfirmContinuation(k) ==
  /\ ~k.confirmed /\ ~k.expired /\ k.id.month = month
  /\ k.id.records \subseteq {Version(x) : x \in Call}
  /\ \A x \in Pending : Version(x) \in k.id.records
  /\ cards' = (cards \ {k}) \union {[k EXCEPT !.confirmed = TRUE]}
  /\ UNCHANGED <<callVars, approval, month>>

-----------------------------------------------------------------------------
(* Settlement and correction.                                              *)

(* Mutant: a late settlement always agrees with the correction.            *)
AgreesAlways(c, s) == TRUE

Agrees(c, s) ==
  /\ correction[c].notSent => s.state = "not_sent"
  /\ s.cost \in {Unknown, correction[c].cost}

(* What the Team answers a settlement s of call c, after this step.        *)
Receipt(c) == IF event'[c] = "none" THEN "settled" ELSE event'[c]

(* A settlement received before changes nothing.                           *)
SettleModelCall(c, s) ==
  /\ IF attempt[c].state # "reserved"
     THEN UNCHANGED <<attempt, event, edits>>
     ELSE /\ attempt' = [attempt EXCEPT
                           ![c] = [@ EXCEPT !.state = s.state, !.cost = s.cost]]
          /\ IF Corrected(c)
             THEN /\ event' = [event EXCEPT ![c] =
                       IF Agrees(c, s) THEN "confirmed" ELSE "conflict"]
                  /\ edits' = [edits EXCEPT ![c] = @ + 1]
             ELSE UNCHANGED <<event, edits>>
  /\ UNCHANGED <<correction, superseded, overruled, cards, approval, month>>

(* Mutant: a lead's correction is taken whatever came in between.          *)
ReconcileAnyVersion(d) ==
  /\ Known(d.seen.call)
  /\ LET c == d.seen.call IN
     /\ correction' = [correction EXCEPT ![c] =
                         [cost |-> d.cost, notSent |-> d.notSent]]
     /\ superseded' = IF event[c] # "none" THEN superseded \union {c}
                      ELSE superseded
     /\ edits' = [edits EXCEPT ![c] = @ + 1]
     /\ overruled' = IF d.seen.state # "reserved" THEN overruled \union {c}
                     ELSE overruled
  /\ UNCHANGED <<attempt, event, cards, approval, month>>

(* A call that may still be running can be corrected too, once it has been *)
(* reserved for ten minutes; what has been used was not unsent.            *)
CanReconcile(d) ==
  LET c == d.seen.call
  IN /\ d.seen = Version(c)
     /\ d.notSent => attempt[c].cost \in {0, Unknown}

ReconcileModelCost(d) ==
  /\ CanReconcile(d)
  /\ LET c == d.seen.call IN
     /\ correction' = [correction EXCEPT ![c] =
                         [cost |-> d.cost, notSent |-> d.notSent]]
     /\ superseded' = IF event[c] # "none" THEN superseded \union {c}
                      ELSE superseded
     /\ edits' = [edits EXCEPT ![c] = @ + 1]
     /\ overruled' = IF d.seen.state # "reserved" THEN overruled \union {c}
                     ELSE overruled
  /\ UNCHANGED <<attempt, event, cards, approval, month>>

-----------------------------------------------------------------------------
(* Leads and time.                                                         *)

GrantApproval ==
  /\ approval = "none" /\ Allowance > 0
  /\ approval' = "granted"
  /\ UNCHANGED <<callVars, cards, month>>

ExpireApproval ==
  /\ approval = "granted"
  /\ approval' = "expired"
  /\ UNCHANGED <<callVars, cards, month>>

ExpireCard(k) ==
  /\ ~k.expired
  /\ cards' = (cards \ {k}) \union {[k EXCEPT !.expired = TRUE]}
  /\ UNCHANGED <<callVars, approval, month>>

NextMonth ==
  /\ month < MaxMonth
  /\ month' = month + 1
  /\ UNCHANGED <<callVars, cards, approval>>
=============================================================================
