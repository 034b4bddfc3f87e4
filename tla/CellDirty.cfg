SPECIFICATION Spec
CONSTANTS
  MaxRow = 2
  Column = {0}
  Unstorable = {}
  Level = {"READ_COMMITTED", "SERIALIZABLE"}
  HandleModulus = 3
  MaxTxn = 2
  MaxCursor = 1
INVARIANT
  UncommittedIgnored
CHECK_DEADLOCK FALSE
