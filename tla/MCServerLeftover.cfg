CONSTANTS
  Conns = {c1}
  NoConn = NoConn
  Fds = {f1}
  ListenFd = ListenFd
  NoFd = NoFd
  MaxEvents = 1
  BufLen = 2
  MaxBytes = 3
  SndBuf = 3
  SndLow = 2
  Backlog = 1
  Faults = {}
SPECIFICATION Spec
PROPERTY LeftoverNotLost
