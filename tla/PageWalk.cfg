\* Two objects that share an atom are enough to end a walk early.
SPECIFICATION Spec
CONSTANTS
  v1 = v1
  v2 = v2
  Value <- MCValue
  ObjectSize = {1, 2}
  AtomSize = {1, 2}
  RefModulus = 3
  MaxOid = 3
  MaxRefs = 1
INVARIANT
  WalkVisitsAll
CHECK_DEADLOCK FALSE
