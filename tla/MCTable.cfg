\* Three rows and a varchar column, which insert_row cannot store; or two rows,
\* the other column, and a third transaction.
SPECIFICATION MCSpec
CONSTANTS
  TxnId = {1, 2, 3}
  Updaters = {1, 2}
  NoTxn = 0
  TableId = {7}
  TableNo = 7
  MaxRow = 3
  RowId = {1, 2, 3}
  FewRows = {1, 2}
  Column = {0, 1}
  Unstorable = {1}
  Level = {"READ_UNCOMMITTED", "READ_COMMITTED", "REPEATABLE_READ", "SERIALIZABLE"}
  SsiLm = TRUE
INVARIANTS
  TypeOK
  UncommittedIsLockedByWriter
  NoDirtyRead
  OnlyNullIsCorrupt
  SharedOnlyByDescent
PROPERTIES
  LockExcludesOthers
  VersionsAreImmutable
  AntidependencyNoted
\* All transactions may have ended, or the lock manager may have died.
CHECK_DEADLOCK FALSE
