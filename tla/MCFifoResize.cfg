CONSTANTS
  Sizes = {3}
  ResizeTo = {2, 4}
  MaxItems = 3
SPECIFICATION Spec
CHECK_DEADLOCK FALSE
INVARIANT FifoFaithful
