CONSTANTS
  Threads = {t1, t2}
  Acceptors = {a1, a2}
  Sockets = {s}
  Notifiers = {n1, n2}
  NoNotifier = NoNotifier
  Fds = {1}
  NoObject = NoObject
  Objects <- MCObjects
SPECIFICATION Spec
SYMMETRY Symmetry
VIEW View
CHECK_DEADLOCK FALSE
PROPERTIES
  RegistrationKept
  RegisteredOnce
  RemovedNotFound
  RegisteredOpen
  NoEmptyEntry
