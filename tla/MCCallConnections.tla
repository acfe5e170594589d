-------------------------- MODULE MCCallConnections --------------------------
(* The websocket connections of a participant on two nodes, for TLC. *)
EXTENDS CallConnections, TLC

CONSTANTS h, o
=============================================================================
