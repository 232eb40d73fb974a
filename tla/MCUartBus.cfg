SPECIFICATION Spec
CONSTANTS
  Writers = {w1}
  Suspendable = {w1}
  Handlers = {h1, h2}
  Blocking = {h2}
  QueueSize = 2
  MaxReads = 2
  MaxWrites = 2
INVARIANTS
  TypeOK
  NeverOvercounts
PROPERTIES
  Delivers
  AllDelivered
CHECK_DEADLOCK FALSE
