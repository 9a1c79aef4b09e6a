CONSTANTS
  Objects = {a, b, c}
  Fds = {0, 1}
  NoObject = NoObject
SPECIFICATION SocketSpec
CHECK_DEADLOCK FALSE
PROPERTY KeepsDescriptor
INVARIANTS
  NoDescriptorLost
  NoDataIsNoTimeout
