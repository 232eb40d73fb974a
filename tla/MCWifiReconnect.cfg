SPECIFICATION Spec
CONSTANTS
  Stations = {}
  QueueSize = 3
  Delays <- MCDelays
  AttemptsMod = 2
PROPERTIES
  ReconnectsWhenDisconnected
CHECK_DEADLOCK FALSE
