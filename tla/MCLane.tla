------------------------------- MODULE MCLane -------------------------------
(* Lane as TLC checks it; the configurations give the constants. *)
EXTENDS Lane
=============================================================================
