------------------------- MODULE MC_LoaderProcesses -------------------------
(* Model-checking instance of LoaderProcesses: the root container and one  *)
(* or two subcontainers, three thread groups (an init, an exec'd process   *)
(* or a clone, and one more), one named PID namespace path.                *)
EXTENDS LoaderProcesses, TLC

CONSTANTS root, c1, c2, t1, t2, t3, w1

OneSub == {root, c1}
TwoSubs == {root, c1, c2}
MCTGs == {t1, t2, t3}
MCPaths == {"", "p"}
MCWaiters == {w1}
NoWaiters == {}
NoPaths == {""}
=============================================================================
