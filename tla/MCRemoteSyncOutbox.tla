------------------------- MODULE MCRemoteSyncOutbox -------------------------
(* The remote sync outbox on small instances; the cfgs give the bounds.    *)
EXTENDS RemoteSyncOutbox, TLC

TeamSymmetry == Permutations(Team)
=============================================================================
