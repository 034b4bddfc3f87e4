\* Three objects of two sizes in atoms that one or two of them fill up; a
\* counter of three values, which the fourth reference takes past zero.
SPECIFICATION Spec
CONSTANTS
  v1 = v1
  v2 = v2
  Value <- MCValue
  ObjectSize = {1, 2}
  AtomSize = {1, 2}
  RefModulus = 3
  MaxOid = 3
  MaxRefs = 4
SYMMETRY ValueSymmetry
INVARIANTS
  TypeOK
  OneAtomPerObject
PROPERTIES
  ImplementsObjectStore
  LostOnlyByWrap
\* An iterator that points nowhere ends the run.
CHECK_DEADLOCK FALSE
