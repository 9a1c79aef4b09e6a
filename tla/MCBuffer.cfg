CONSTANTS
  Bufs = {a, b}
  Blocks = {p1, p2, p3}
  Null = Null
  CallerMem = {q}
  Items = {x, y}
  Zero = x
  MaxLen = 2
  Junk = Junk
SPECIFICATION Spec
INVARIANTS
  OwnedOnce
  ContentKept
