\* Three transactions, two rows of one table: every order of calls.
SPECIFICATION Spec
CONSTANTS
  NoTxn = NoTxn
  TxnId = {t1, t2, t3}
  TableId = {tbl}
  RowId = {r1, r2}
SYMMETRY Symmetry
INVARIANTS
  TypeOK
  ActiveMutuallyConcurrent
  ReadLocksKept
  DependenciesExact
  QuiescentIsEmpty
  SkewNeedsThirdReader
PROPERTIES
  VictimsAreLive
  FaultNeedsLoner
\* Every transaction ends once: the clients have nothing left to ask.
CHECK_DEADLOCK FALSE
