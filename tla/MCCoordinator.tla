---------------------------- MODULE MCCoordinator ----------------------------
(* Coordinator with two owners and commands that are asked for repeatedly. *)
EXTENDS Coordinator, TLC

CONSTANTS o1, o2, CommandCount

Owners == {o1, o2}
Commands == {Id("command", n, None) : n \in 1 .. CommandCount}
Operations == {Register} \cup LeaseIds \cup Commands
Intents == {Expecting(n) : n \in 0 .. MaxGeneration + MaxUpsets + 1}
=============================================================================
