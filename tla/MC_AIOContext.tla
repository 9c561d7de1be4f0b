--------------------------- MODULE MC_AIOContext ---------------------------
(* Model-checking instance of AIOContext: two ring addresses, two context  *)
(* objects, two requests (so that a completion can find the channel's one  *)
(* slot already full), capacity 2.                                         *)
EXTENDS AIOContext, TLC

CONSTANTS a1, a2, c1, c2, q1, q2, w1, d1

MCAddrs == {a1, a2}
MCCtxs == {c1, c2}
MCReqs == {q1, q2}
MCWaiters == {w1}
MCDestroyers == {d1}
NoWaiters == {}
OneAddr == {a1}
OneCtx == {c1}

(* Requests are interchangeable: no action or property names one. *)
ReqSymmetry == Permutations(MCReqs)
=============================================================================
