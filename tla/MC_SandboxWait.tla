---------------------------- MODULE MC_SandboxWait ----------------------------
EXTENDS SandboxWait, TLC

CONSTANTS w1, w2, d1

TwoWaiters == {w1, w2}
OneWaiter == {w1}
OneDestroyer == {d1}
WaiterSymmetry == Permutations(TwoWaiters)
=============================================================================
