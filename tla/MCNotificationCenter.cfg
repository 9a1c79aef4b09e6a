CONSTANTS
  Threads = {t1, t2, t3}
  Targets = {x, y}
  NoTarget = NoTarget
  Ids = {i1, i2, i3}
  MaxDepth = 3
SPECIFICATION Spec
SYMMETRY Symmetry
CHECK_DEADLOCK FALSE
INVARIANTS
  CalledWhileRegistered
  StaleCopiesDisabled
  OneCallbackPerObserver
  DeadlockNeedsRemoval
PROPERTY
  SelfRemovalHangs
