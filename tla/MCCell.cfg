\* Two transactions, three rows, two columns.  Handles wrap: the counter they come
\* from is not initialised.
SPECIFICATION Spec
CONSTANTS
  MaxRow = 3
  Column = {0, 1}
  Unstorable = {}
  Level = {"READ_COMMITTED"}
  HandleModulus = 3
  MaxTxn = 2
  MaxCursor = 1
INVARIANTS
  TypeOK
  AddedExactlyOnce
  EveryCursorFetches
PROPERTIES
  ImplementsTransactionLog
\* The process may have died.
CHECK_DEADLOCK FALSE
