SPECIFICATION Spec
CONSTANTS
  Fds = {1}
  NoSock = NoSock
  Delays <- MCDelays
  AttemptsMod = 2
INVARIANTS
  TypeOK
  TornDown
PROPERTIES
  PositionOnlyToAccepted
  LossIsNoticed
  ConnectsAgain
