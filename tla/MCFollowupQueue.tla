-------------------------- MODULE MCFollowupQueue --------------------------
(* FollowupQueue as TLC checks it. *)
EXTENDS FollowupQueue, TLC

CONSTANTS m1, m2, m3, m4

(* The last message comes from another channel. *)
MCChannelOf == [m \in Messages |-> IF m = m4 THEN "other" ELSE "home"]
=============================================================================
