--------------------------- MODULE MCClusterMutex ---------------------------
(* Two nodes; two goroutines on the first and one on the second. *)
EXTENDS ClusterMutex, TLC

CONSTANTS n1, n2, p1, p2, p3

MCNodeOf == p1 :> n1 @@ p2 :> n1 @@ p3 :> n2
=============================================================================
