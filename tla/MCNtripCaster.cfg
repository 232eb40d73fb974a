SPECIFICATION Spec
CONSTANTS
  Nodes = {n1, n2, n3}
  Fds <- MCFds
  NULL = NULL
INVARIANTS
  TypeOK
  ListIntact
  EveryClientServed
  OneOwner
PROPERTIES
  NoChunkTwice
  GoneIsClosed
CHECK_DEADLOCK FALSE
CONSTRAINT BeforeOverlap
