CONSTANTS
  Sizes = {1, 2, 4}
  ResizeTo = {5, 6}
  MaxItems = 8
SPECIFICATION Spec
CHECK_DEADLOCK FALSE
INVARIANTS
  FifoFaithful
  ReadableSignalled
PROPERTY
  RoomSignalled
