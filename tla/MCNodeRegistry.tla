--------------------------- MODULE MCNodeRegistry ---------------------------
(* NodeRegistry as TLC checks it: a node with two connections, the second  *)
(* of which presents a device identity, and a node with one.               *)
EXTENDS NodeRegistry, TLC

CONSTANTS n1, n2, d1, c1, c2, c3, i1, i2

MCNodeOf == c1 :> n1 @@ c2 :> n1 @@ c3 :> n2
MCCallerOf == c1 :> n1 @@ c2 :> d1 @@ c3 :> n2
MCDeviceOf == c1 :> n1 @@ c2 :> d1 @@ c3 :> n2
MCTargetOf == i1 :> n1 @@ i2 :> n2
=============================================================================
