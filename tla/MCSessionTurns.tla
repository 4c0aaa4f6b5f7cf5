---------------------------- MODULE MCSessionTurns ----------------------------
(* Three turns of one session; the last repeats the request of the second. *)
EXTENDS SessionTurns, TLC

CONSTANTS t1, t2, t3, r1, r2

MCTurns == {t1, t2, t3}
MCRunIds == {r1, r2}
MCCancellable == {t1, t2}
MCRunOf == t1 :> r1 @@ t2 :> r2 @@ t3 :> r2
MCCandidates == t1 :> 2 @@ t2 :> 2 @@ t3 :> 1
MCProfiles == t1 :> 2 @@ t2 :> 1 @@ t3 :> 1
MCCopilot == {t1, t2}
===============================================================================
