-------------------------------- MODULE Cell --------------------------------
(***************************************************************************)
(* A cell: the command processor, its transactions with their cursors, and *)
(* a table of its database (src/src/lib/cell/cpp/command_processor.cpp,    *)
(* transaction.h, transaction.cpp, database.h).  A command runs to its end *)
(* before the next one.  A command with several data packets, cursors or a *)
(* batch is as many commands with one, since nothing comes between them.   *)
(*                                                                         *)
(* process() knows three commands: PREPARE, FETCH and INSERT.  They name   *)
(* all columns, whatever their column mask says.  commit and               *)
(* update_columns are operations of the class transaction that no command  *)
(* reaches; they are actions here.                                         *)
(*                                                                         *)
(* A transaction is known to clients by its handle, the key of the map     *)
(* transactions.  Its member id, which is what the rows are locked and     *)
(* tested with, is never assigned: it is the empty id in all of them.      *)
(***************************************************************************)
EXTENDS TableStore, Sequences

CONSTANTS
  Level,          (* isolation levels the clients ask for                  *)
  HandleModulus,  (* handles are numbers below this (2^64 in the code)     *)
  MaxTxn,         (* bound: transactions                                   *)
  MaxCursor       (* bound: cursors of a transaction                       *)

ASSUME CellAssumption ==
  /\ MaxRow \in Nat
  /\ Column \subseteq Nat
  /\ IsFiniteSet(Column)
  /\ Unstorable \subseteq Column
  /\ Level \subseteq IsolationLevel
  /\ HandleModulus \in Nat \ {0}
  /\ MaxTxn \in Nat
  /\ MaxTxn < HandleModulus
  /\ MaxCursor \in Nat

VARIABLES
  transactions,         (* partial map: handle to transaction              *)
  next_transaction_id,  (* the last handle given out; not initialised      *)
  died,                 (* a table handle that is null was dereferenced    *)
  exchange              (* the last command and what its response says     *)

cellVars == <<transactions, next_transaction_id, died>>
vars == <<storeVars, cellVars, exchange>>

Handle == 0..(HandleModulus - 1)
RowId == 1..MaxRow

(* transaction::id.                                                        *)
TransactionId == NoId

(* A cursor is the row its iterator points to; end() of the table is 0.    *)
(* Iterators of the hash table stay with their row when it grows.          *)
End == 0

TransactionType ==
  [il      : Level,
   added   : SUBSET RowId,
   deleted : SUBSET RowId,
   cursors : UNION {[1..n -> RowId \cup {End}] : n \in 0..MaxCursor}]

NoExchange == [kind |-> "NONE", transaction |-> 0, value |-> 0]

TypeOK ==
  /\ StoreTypeOK({})
  /\ DOMAIN transactions \subseteq Handle
  /\ transactions \in [DOMAIN transactions -> TransactionType]
  /\ next_transaction_id \in Handle
  /\ died \in BOOLEAN
  /\ exchange \in [kind : {"NONE", "PREPARE", "FETCH", "INSERT"},
                   transaction : Handle, value : Nat]

Init ==
  /\ StoreInit
  /\ transactions = [h \in {} |-> {}]
  /\ next_transaction_id \in Handle
  /\ died = FALSE
  /\ exchange = NoExchange

(* The response to a command of transaction h: the row fetched (0: an      *)
(* empty string), the new cursor (0: none), or how many packets came.      *)
Answer(kind, h, value) ==
  exchange' = [kind |-> kind, transaction |-> h, value |-> value]

-----------------------------------------------------------------------------
(***************************************************************************)
(* PREPARE: creates a transaction, unless the command names one, and a     *)
(* cursor on each of the tables named.                                     *)
(***************************************************************************)
NextHandle == (next_transaction_id + 1) % HandleModulus

WithTransaction(level) ==
  [h \in DOMAIN transactions \cup {NextHandle} |->
     IF h = NextHandle
       THEN [il |-> level, added |-> {}, deleted |-> {}, cursors |-> <<>>]
       ELSE transactions[h]]

(* begin() of the table: the first row in an order that the hash table     *)
(* chooses, and chooses again when it grows.                               *)
FirstRow == IF DOMAIN rows = {} THEN {End} ELSE DOMAIN rows

(* table says whether a table is named, and whether it exists: a name that *)
(* does not gets the id 0, which has a null handle.                        *)
CreateCursor(txns, h, table) ==
  IF table = "NONE" \/ h \notin DOMAIN txns
    THEN /\ transactions' = txns
         /\ Answer("PREPARE", h, 0)
         /\ UNCHANGED died
  ELSE IF table = "UNKNOWN"
    THEN /\ transactions' = txns
         /\ died' = TRUE
         /\ exchange' = NoExchange
  ELSE /\ Len(txns[h].cursors) < MaxCursor
       /\ \E r \in FirstRow : transactions' =
            [txns EXCEPT ![h].cursors = Append(@, r)]
       /\ Answer("PREPARE", h, Len(txns[h].cursors) + 1)
       /\ UNCHANGED died

PrepareNew(level, table) ==
  /\ ~died
  /\ Cardinality(DOMAIN transactions) < MaxTxn
  /\ next_transaction_id' = NextHandle
  /\ CreateCursor(WithTransaction(level), NextHandle, table)
  /\ UNCHANGED storeVars

Prepare(h, table) ==
  /\ ~died
  /\ CreateCursor(transactions, h, table)
  /\ UNCHANGED <<storeVars, next_transaction_id>>

-----------------------------------------------------------------------------
(***************************************************************************)
(* FETCH.  fetch_columns of transaction skips rows that are isolated and   *)
(* stays where it is on success.  An unknown cursor is created on the spot *)
(* with a null table handle.                                               *)
(***************************************************************************)
Isolated(r, level) == ~RowIsVisible(rows[r], TransactionId, level)

(* Where the loop over isolated rows may leave an iterator.                *)
Settled(pos, level) ==
  IF pos = End \/ ~Isolated(pos, level) THEN {pos}
  ELSE {End} \cup {r \in DOMAIN rows : ~Isolated(r, level)}

MovedCursor(h, cursor, pos) ==
  [transactions EXCEPT ![h].cursors[cursor] = pos]

Fetched(pos, level) ==
  IF /\ pos # End
     /\ FetchCode(TransactionId, pos, Column, level) = "SUCCESS"
    THEN pos ELSE 0

Fetch(h, cursor) ==
  /\ ~died
  /\ IF h \notin DOMAIN transactions
       THEN /\ Answer("FETCH", h, 0)
            /\ UNCHANGED <<transactions, died>>
     ELSE IF cursor \notin DOMAIN transactions[h].cursors
       THEN /\ died' = TRUE
            /\ exchange' = NoExchange
            /\ UNCHANGED transactions
     ELSE LET txn == transactions[h]
          IN  \E pos \in Settled(txn.cursors[cursor], txn.il) :
                /\ transactions' = MovedCursor(h, cursor, pos)
                /\ Answer("FETCH", h, Fetched(pos, txn.il))
                /\ UNCHANGED died
  /\ UNCHANGED <<storeVars, next_transaction_id>>

-----------------------------------------------------------------------------
(***************************************************************************)
(* INSERT.  The response counts the packet whether it was stored or not.   *)
(***************************************************************************)
(* Faulty: the row is recorded although insert_row failed.                 *)
FaultyRecorded(txn, supplied) ==
  [txn EXCEPT !.added = @ \cup {row_id_generator + 1}]

Recorded(txn, supplied) ==
  IF InsertCode(Column, supplied) = "SUCCESS"
    THEN [txn EXCEPT !.added = @ \cup {row_id_generator + 1}] ELSE txn

Insert(h, known, supplied) ==
  /\ ~died
  /\ IF h \notin DOMAIN transactions
       THEN /\ Answer("INSERT", h, 1)
            /\ UNCHANGED <<storeVars, transactions, died>>
     ELSE IF ~known
       THEN /\ died' = TRUE
            /\ exchange' = NoExchange
            /\ UNCHANGED <<storeVars, transactions>>
     ELSE /\ TakeIds(Column, supplied)
          /\ rows' = IF InsertCode(Column, supplied) = "SUCCESS"
                       THEN RowsWith(rows, Inserted(TransactionId, Column))
                       ELSE rows
          /\ transactions' =
               [transactions EXCEPT ![h] = Recorded(@, supplied)]
          /\ Answer("INSERT", h, 1)
          /\ UNCHANGED died
  /\ UNCHANGED next_transaction_id

-----------------------------------------------------------------------------
(***************************************************************************)
(* update_columns: skips isolated rows and updates the one it comes to.    *)
(* update_row moves the iterator to the new row, so that it is the new row *)
(* which is recorded as deleted.                                           *)
(***************************************************************************)
Replaced(txn, cursor) ==
  [txn EXCEPT !.added = @ \cup {row_id_generator + 1},
              !.deleted = @ \cup {row_id_generator + 1},
              !.cursors[cursor] = row_id_generator + 1]

UpdateColumns(h, cursor, present, supplied) ==
  /\ ~died
  /\ h \in DOMAIN transactions
  /\ cursor \in DOMAIN transactions[h].cursors
  /\ \E pos \in Settled(transactions[h].cursors[cursor], transactions[h].il) :
       IF pos = End \/ ~MayLock(rows[pos], TransactionId)
         THEN /\ transactions' = MovedCursor(h, cursor, pos)
              /\ UNCHANGED storeVars
         ELSE /\ TakeIds(present, supplied)
              /\ rows' = UpdatedRows(TransactionId, pos, present, supplied)
              /\ transactions' =
                   IF InsertCode(present, supplied) = "SUCCESS"
                     THEN [transactions EXCEPT ![h] = Replaced(@, cursor)]
                     ELSE MovedCursor(h, cursor, pos)
  /\ exchange' = NoExchange
  /\ UNCHANGED <<next_transaction_id, died>>

(* Faulty: commits what the transaction has deleted.                       *)
FaultyToCommit(txn) == txn.deleted

(* The rows commit goes through.                                           *)
ToCommit(txn) == txn.added

CommitTransaction(h) ==
  /\ ~died
  /\ h \in DOMAIN transactions
  /\ rows' = [r \in DOMAIN rows |->
                IF r \in ToCommit(transactions[h])
                  THEN Commit(rows[r], TransactionId) ELSE rows[r]]
  /\ exchange' = NoExchange
  /\ UNCHANGED <<row_id_generator, pageVars, cellVars>>

-----------------------------------------------------------------------------
Next ==
  \/ \E table \in {"NONE", "KNOWN", "UNKNOWN"} :
       \/ \E level \in Level : PrepareNew(level, table)
       \/ \E h \in Handle : Prepare(h, table)
  \/ \E h \in Handle :
       \/ \E known \in BOOLEAN, supplied \in 0..Cardinality(Column) :
            Insert(h, known, supplied)
       \/ \E cursor \in 1..MaxCursor :
            \/ Fetch(h, cursor)
            \/ \E present \in SUBSET Column :
                 \E supplied \in 0..Cardinality(present) :
                   UpdateColumns(h, cursor, present, supplied)
       \/ CommitTransaction(h)

Spec == Init /\ [][Next]_vars

-----------------------------------------------------------------------------
(***************************************************************************)
(* What holds.                                                             *)
(***************************************************************************)

(* commit walks the added rows of one transaction and nothing else, so     *)
(* what insert_columns and update_columns record decides what is ever      *)
(* committed: each row of the table, also one that replaced another, is in *)
(* the list of exactly one transaction, and no list names a row that a     *)
(* failed call left out.                                                   *)
AddedExactlyOnce ==
  /\ DOMAIN rows = UNION {transactions[h].added : h \in DOMAIN transactions}
  /\ \A g, h \in DOMAIN transactions :
       g # h => transactions[g].added \cap transactions[h].added = {}

(* A cursor is kept between two commands while other commands insert,      *)
(* fail half-way, update and commit: whatever they do, one that is not at  *)
(* the end stands on a row whose columns can all be read.                  *)
EveryCursorFetches ==
  \A h \in DOMAIN transactions :
    \A cursor \in DOMAIN transactions[h].cursors :
      LET pos == transactions[h].cursors[cursor] IN
      pos # End =>
        FetchCode(TransactionId, pos, Column, transactions[h].il) = "SUCCESS"

(* The cell implements TransactionLog: a row is owned by the transaction   *)
(* that has it in its list.                                                *)
OwnerOf(r) ==
  CHOOSE h \in DOMAIN transactions : r \in transactions[h].added

Log == INSTANCE TransactionLog WITH
  Row       <- RowId,
  Owner     <- Handle,
  owner     <- [r \in DOMAIN rows |-> OwnerOf(r)],
  committed <- {r \in DOMAIN rows : rows[r].committed}

(* Rows are committed by commit of the transaction that added them and by  *)
(* nothing else, and all of them at once.                                  *)
ImplementsTransactionLog == Log!Spec

-----------------------------------------------------------------------------
(* table.h:297-298 says of inserted data: "All other transactions will     *)
(* ignore the data until it is committed."  A fetch of a transaction that  *)
(* did not ask for READ_UNCOMMITTED returns committed rows and its own.    *)
UncommittedIgnored ==
  LET txn == transactions[exchange.transaction]
      r   == exchange.value
  IN  /\ exchange.kind = "FETCH"
      /\ r # 0
      /\ txn.il # "READ_UNCOMMITTED"
      => rows[r].committed \/ r \in txn.added
=============================================================================
