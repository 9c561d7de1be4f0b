--------------------------- MODULE MC_SandboxStart ---------------------------
EXTENDS SandboxStart, TLC

CONSTANTS w1, w2, d1

TwoWaiters == {w1, w2}
OneWaiter == {w1}
OneDestroyer == {d1}
=============================================================================
