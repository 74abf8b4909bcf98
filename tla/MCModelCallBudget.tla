------------------------- MODULE MCModelCallBudget -------------------------
(* Two calls with a verified bound and one with an estimate.               *)
EXTENDS ModelCallBudget, TLC

CONSTANTS b1, b2, e1

Prices == [c \in Call |-> 1]
CallSymmetry == Permutations({b1, b2})
=============================================================================
