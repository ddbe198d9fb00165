---------------------------- MODULE MCStdioRelay ----------------------------
(* Instances of StdioRelay for TLC. *)
EXTENDS StdioRelay
============================================================================
