-------------------------- MODULE MCHeartbeatWake --------------------------
(* HeartbeatWake as TLC checks it. *)
EXTENDS HeartbeatWake, TLC

CONSTANTS a, b
=============================================================================
