SPECIFICATION Spec
CONSTANTS
  Nodes = {n1, n2}
  Fds <- MCFds
  Sources = {s1}
  MaxDgrams = 2
  NULL = NULL
INVARIANTS
  TypeOK
  DescriptorsOwned
  OneClientPerSource
  NobodyForgotten
PROPERTY ResetIsClosed
CHECK_DEADLOCK FALSE
