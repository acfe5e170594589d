----------------------------- MODULE MCCallJobs -----------------------------
(* Instances of CallJobs for TLC. *)
EXTENDS CallJobs, TLC
=============================================================================
