CONSTANTS
  root = root  c1 = c1  c2 = c2  t1 = t1  t2 = t2  t3 = t3  w1 = w1
  NoTG = NoTG  NoEntry = NoEntry  NoHolder = NoHolder
  Root = root
  Cids <- OneSub
  TGs <- MCTGs
  Paths <- NoPaths
  Waiters <- NoWaiters
  ClientStartsOnce = TRUE
  SignalRPC = TRUE
SPECIFICATION Spec
INVARIANT KillStaysInContainer
PROPERTY DestroyReturns
