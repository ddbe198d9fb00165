----------------------------- MODULE MCJournal -----------------------------
(* Journal on a small instance: two coordinators, an operation, a mapping  *)
(* and an artifact with two payloads, a source with a hole in its cursors. *)
EXTENDS Journal, TLC

CONSTANTS o1, o2, p1, i1, r1, k1, v1, v2, f1

Owners == {o1, o2}
Operations == {p1}
Intents == {i1}
Outcomes == {r1}
Keys == {k1}
Values == {v1, v2}
Paths == {f1}
Cursors == {1, 3}

(* Owners and payloads are only compared for equality.                     *)
Symmetry == Permutations(Owners) \cup Permutations(Values)
=============================================================================
