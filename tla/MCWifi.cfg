SPECIFICATION Spec
CONSTANTS
  Stations = {s1, s2}
  QueueSize = 3
  Delays <- MCDelays
  AttemptsMod = 2
INVARIANTS
  TypeOK
  ApBitTruthful
  IpBitTruthful
PROPERTIES
  NoReconnectWhileUp
  JoinedIsAnnounced
  ConnectedIsShown
