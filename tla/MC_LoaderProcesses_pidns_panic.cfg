CONSTANTS
  root = root  c1 = c1  c2 = c2  t1 = t1  t2 = t2  t3 = t3  w1 = w1
  NoTG = NoTG  NoEntry = NoEntry  NoHolder = NoHolder
  Root = root
  Cids <- TwoSubs
  TGs <- MCTGs
  Paths <- MCPaths
  Waiters <- MCWaiters
  ClientStartsOnce = TRUE
  SignalRPC = FALSE
SPECIFICATION Spec
INVARIANT NoPanic
