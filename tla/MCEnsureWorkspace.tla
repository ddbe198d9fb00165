------------------------- MODULE MCEnsureWorkspace -------------------------
(* EnsureWorkspace with two coordinators, two receiver threads and another *)
(* command of the project.                                                 *)
EXTENDS EnsureWorkspace

CONSTANTS p1, o1, o2, i1, i2, w1, w2

Owners == {o1, o2}
Operations == {Create, p1}
Intents == {i1, i2}
Workers == {w1, w2}
=============================================================================
