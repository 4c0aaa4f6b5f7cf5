----------------------------- MODULE MCRunControl -----------------------------
(* Two chats, and two agent requests with one key, the second one a reset. *)
EXTENDS RunControl, TLC

CONSTANTS c1, c2, g1, g2, k1, k2, k3, a1

MCRequests == {c1, c2, g1, g2}
MCChat == {c1, c2}
MCResets == {g2}
MCKeys == {k1, k2, k3}
MCKeyOf == c1 :> k1 @@ c2 :> k2 @@ g1 :> k3 @@ g2 :> k3
MCAborts == {a1}
===============================================================================
