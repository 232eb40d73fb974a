SPECIFICATION Spec
CONSTANTS
  Nodes = {n1, n2, n3}
  Fds <- MCFds
  NULL = NULL
INVARIANTS
  DealtWithByHandler
CHECK_DEADLOCK FALSE
