--------------------------- MODULE MCWorkRequest ---------------------------
(* One work request, two desktops: one is paired twice by the same user.   *)
EXTENDS WorkRequest, TLC

CONSTANTS here, there, first, again, other, ann, bob

Paired == first :> here @@ again :> here @@ other :> there
AtFirst == here :> first @@ there :> other
ActsFor == first :> ann @@ again :> ann @@ other :> bob
=============================================================================
