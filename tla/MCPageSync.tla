----------------------------- MODULE MCPageSync -----------------------------
(* Instances of PageSync for TLC. *)
EXTENDS PageSync
============================================================================
