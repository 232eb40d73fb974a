SPECIFICATION Spec
CONSTANTS
  Delays <- MCDelays
  Callers <- MCCallers
  AttemptsMod = 65536
INVARIANTS
  TypeOK
  WaitBounded
PROPERTIES
  BackoffMonotone
  PausesAfterFailure
