SPECIFICATION Spec
CONSTANTS
  Fds = {1}
  NoSock = NoSock
  KeepAliveTicks = 1
  Delays <- MCDelays
  AttemptsMod = 2
PROPERTIES
  NoEarlyData
