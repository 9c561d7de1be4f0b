CONSTANTS
  MinDegree = 3
  MinKey = 0
  MaxKey = 9
  NodeCap = 6
  MaxLen = 9
  Ops <- AllOps
SPECIFICATION Spec
INVARIANT TypeOK BTreeOK Sorted FindAgrees QueriesAgree IteratorsAgree RestoreRoundTrip NeighboursMerged
PROPERTY AbsSpec
VIEW NodesView
