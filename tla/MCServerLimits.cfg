CONSTANTS
  Conns = {c1, c2, c3}
  NoConn = NoConn
  Fds = {f1, f2}
  ListenFd = ListenFd
  NoFd = NoFd
  MaxEvents = 1
  BufLen = 2
  MaxBytes = 2
  SndBuf = 2
  SndLow = 1
  Backlog = 2
  Faults = {"epoll_ctl", "fcntl", "reset", "epoll_wait", "startup"}
SPECIFICATION Spec
SYMMETRY Symmetry
CHECK_DEADLOCK FALSE
PROPERTY
  ImplementsEcho
