SPECIFICATION Spec
CONSTANTS
  Fds = {1}
  NoSock = NoSock
  Delays <- MCDelays
  AttemptsMod = 2
INVARIANTS
  ReadyMeansConnected
