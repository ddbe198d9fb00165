-------------------------- MODULE MCSessionServer --------------------------
(* Instances of SessionServer for TLC. *)
EXTENDS SessionServer

CONSTANTS b1, b2, t1, t2

\* Launches have a lock of their own: they meet the rest only in tmux.
InUse == {{"launching", "killing"},
          {"reading", "ending", "killing", b1, t1},
          {"killing", b1, t1, t2},
          {b1, b2, t1, t2}}
============================================================================
