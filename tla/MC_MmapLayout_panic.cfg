CONSTANTS
  MinIn <- MCMinIn
  MaxIn <- MCMaxIn
  StackIn <- MCStackIn
SPECIFICATION Spec
INVARIANT LayoutNeverPanics
CHECK_DEADLOCK FALSE
