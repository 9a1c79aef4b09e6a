CONSTANTS
  Conns = {c1, c2}
  NoConn = NoConn
  Fds = {f1, f2}
  ListenFd = ListenFd
  NoFd = NoFd
  MaxEvents = 2
  BufLen = 2
  MaxBytes = 2
  SndBuf = 2
  SndLow = 2
  Backlog = 2
  Faults = {}
SPECIFICATION FairSpec
INVARIANTS
  RegistrationMatches
  FreshBatch
  FdOwnership
  NoFdForgotten
  EchoFaithful
PROPERTIES
  ImplementsEcho
  Answered
  HangupSeen
  EventuallyAccepted
