CONSTANTS
  w1 = w1
  w2 = w2
  d1 = d1
  Creator = Creator
  NoHolder = NoHolder
  Waiters <- TwoWaiters
  Destroyers <- OneDestroyer
SPECIFICATION Spec
INVARIANT WaitersAgree
