SPECIFICATION Spec
CONSTANTS
  NoTxn = NoTxn
  TxnId = {t1, t2, t3}
  TableId = {tbl}
  RowId = {r1, r2}
INVARIANT
  AddTransactionNeverFaults
CHECK_DEADLOCK FALSE
