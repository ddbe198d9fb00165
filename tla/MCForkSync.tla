----------------------------- MODULE MCForkSync -----------------------------
(* Instances of ForkSync for TLC: three tabs that come and go, one of them  *)
(* disconnected and back; two tabs that race for a cell that may expire.    *)
EXTENDS ForkSync

ComeAndGo == [tabs |-> {1, 2, 3}, pausers |-> {2}, may |-> {"close"}]
Race == [tabs |-> {1, 2}, pausers |-> {}, may |-> {"refresh", "expire", "race"}]
BothScenarios == {ComeAndGo, Race}
=============================================================================
