----------------------------- MODULE MCJsonFile -----------------------------
(* Instances of JsonFile for TLC. *)
EXTENDS JsonFile, TLC
=============================================================================
