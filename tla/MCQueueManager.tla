--------------------------- MODULE MCQueueManager ---------------------------
(* QueueManager as TLC checks it: three requests of two sessions.  A turn  *)
(* of each session needs the one slot of lane main.                        *)
EXTENDS QueueManager, TLC

CONSTANTS r1, r2, r3, s1, s2, main, global

TwoSessions == r1 :> s1 @@ r2 :> s1 @@ r3 :> s2

(* r2 comes through enqueue_both, the others through a fixed lane. *)
TwoTargets == r1 :> main @@ r2 :> global @@ r3 :> main

OneSlot == [l \in Lanes |-> 1]
=============================================================================
