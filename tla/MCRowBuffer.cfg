\* Two threads on each side, three rows whose strings differ in size.
SPECIFICATION Spec
CONSTANTS
  Producer = {p1, p2}
  Consumer = {c1, c2}
  r1 = r1
  r2 = r2
  r3 = r3
  None = None
  Row <- MCRow
  Header <- MCHeader
  StringSize <- MCStringSize
INVARIANTS
  TypeOK
  FirstInFirstOut
  CopiesOwnedOnce
  CurrentRowIsWhole
PROPERTIES
  CallsReturn
\* All rows may have been dequeued.
CHECK_DEADLOCK FALSE
