--------------------------- MODULE MCCallSessions ---------------------------
(* Instances of CallSessions for TLC. *)
EXTENDS CallSessions, TLC

CONSTANTS a1, a2, b1, k1,   \* connections of the users a and b and of the bot
          a, b, bot

MCUserOf == [c \in Conn |-> CASE c \in {a1, a2} -> a [] c = b1 -> b [] OTHER -> bot]

MCUser == {a, b, bot}
=============================================================================
