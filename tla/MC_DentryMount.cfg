CONSTANTS
  t1 = t1  t2 = t2  d1 = d1  d2 = d2  n1 = n1  n2 = n2
  NoHolder = NoHolder  NoDentry = NoDentry
  Threads <- MCThreads
  Dentries <- MCDentries
  Namespaces <- MCNamespaces
  MaxMounts = 1
SPECIFICATION Spec
INVARIANT TypeOK PreparedNotMounted DeadMountpointForgotten
PROPERTY CallsReturn
