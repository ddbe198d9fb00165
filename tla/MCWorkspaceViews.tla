-------------------------- MODULE MCWorkspaceViews --------------------------
(* An instance of WorkspaceViews for TLC: two pages that show one session. *)
EXTENDS WorkspaceViews

CONSTANTS v1, v2

\* Two acts of users, or one and a fault.
TwoEvents == {[asks |-> 2, faults |-> 0], [asks |-> 1, faults |-> 1]}

TwoPages == {[view |-> v, session |-> "alpha"] : v \in {v1, v2}}
=============================================================================
