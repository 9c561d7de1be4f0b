CONSTANTS
  a1 = a1  a2 = a2  c1 = c1  c2 = c2  q1 = q1  q2 = q2  w1 = w1  d1 = d1
  NoCtx = NoCtx
  Addrs <- OneAddr
  Ctxs <- OneCtx
  Reqs <- MCReqs
  Waiters <- MCWaiters
  Destroyers <- MCDestroyers
  MaxEvents = 2
SPECIFICATION Spec
PROPERTY IoDestroyReturns
