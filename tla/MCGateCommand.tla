--------------------------- MODULE MCGateCommand ---------------------------
EXTENDS GateCommand, TLC
CONSTANTS c1, c2
SkewNone == {0}
SkewBoth == {-1, 0, 1}
Symmetry == Permutations(Command)
=============================================================================
