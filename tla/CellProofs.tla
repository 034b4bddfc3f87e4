----------------------------- MODULE CellProofs ------------------------------
(***************************************************************************)
(* What the run of Cell checks for two transactions and three insertions,  *)
(* for any number of transactions, cursors, rows and columns: every row is *)
(* in the list of one transaction, cursors always fetch, and a cell        *)
(* implements TransactionLog.                                              *)
(*                                                                         *)
(* The rows are simple here, since all transactions lock with the empty    *)
(* id: no row is ever locked, and each is visible to everybody.  What is   *)
(* not simple is that a handle is not given out twice although the counter *)
(* of handles starts anywhere and wraps.                                   *)
(***************************************************************************)
EXTENDS Cell, FiniteSetTheorems, SequenceTheorems, TLAPS

Rows == RowType({}, Column, Oid)

Position == RowId \cup {End}

(* All values of a row are held by the pages.                              *)
Whole ==
  \A r \in DOMAIN rows, c \in Column : rows[r].column_oids[c] \in stored[c]

(* The cursors of a transaction are at rows of the table.                  *)
CursorsIn(txn, ids) ==
  \A cursor \in DOMAIN txn.cursors : txn.cursors[cursor] \in ids \cup {End}

(* Transactions are typed, and their cursors at rows that are there.       *)
TxnsOK(txns, ids) ==
  /\ DOMAIN txns \subseteq Handle
  /\ txns = [h \in DOMAIN txns |-> txns[h]]
  /\ \A h \in DOMAIN txns :
       /\ txns[h] \in TransactionType
       /\ CursorsIn(txns[h], ids)

(* How many handles ago h was given out.                                   *)
Age(h) ==
  IF h <= next_transaction_id THEN next_transaction_id - h
  ELSE next_transaction_id - h + HandleModulus

(* The handles in use are the last ones given out.                         *)
Recent ==
  \A h \in DOMAIN transactions : Age(h) < Cardinality(DOMAIN transactions)

(* What of the types is not about rows and transactions.                   *)
Rest ==
  /\ next_transaction_id \in Handle
  /\ died \in BOOLEAN
  /\ exchange \in [kind : {"NONE", "PREPARE", "FETCH", "INSERT"},
                   transaction : Handle, value : Nat]

Lists ==
  /\ StoreTypeOK({})
  /\ Whole
  /\ TxnsOK(transactions, DOMAIN rows)
  /\ AddedExactlyOnce

IInv == Lists /\ Recent /\ Rest

-----------------------------------------------------------------------------
(***************************************************************************)
(* Records.                                                                *)
(***************************************************************************)

(* The cursors of a transaction are a sequence of at most MaxCursor.       *)
LEMMA CursorList ==
  ASSUME NEW s
  PROVE  s \in UNION {[1..n -> Position] : n \in 0..MaxCursor}
           <=> s \in Seq(Position) /\ Len(s) <= MaxCursor
<1>1. MaxCursor \in Nat
  BY CellAssumption
<1>2. ASSUME s \in UNION {[1..n -> Position] : n \in 0..MaxCursor}
      PROVE  s \in Seq(Position) /\ Len(s) <= MaxCursor
  <2>1. PICK n \in 0..MaxCursor : s \in [1..n -> Position]
    BY <1>2
  <2>2. n \in Nat /\ n <= MaxCursor
    BY <1>1
  <2> QED
    BY <2>1, <2>2
<1>3. ASSUME s \in Seq(Position), Len(s) <= MaxCursor
      PROVE  s \in UNION {[1..n -> Position] : n \in 0..MaxCursor}
  <2>1. Len(s) \in 0..MaxCursor /\ s \in [1..Len(s) -> Position]
    BY <1>1, <1>3
  <2> QED
    BY <2>1
<1> QED
  BY <1>2, <1>3

(* A transaction is a record of these four members.                        *)
LEMMA TransactionIs ==
  ASSUME NEW txn
  PROVE  txn \in TransactionType <=>
           /\ txn = [il |-> txn.il, added |-> txn.added, deleted |-> txn.deleted,
                     cursors |-> txn.cursors]
           /\ txn.il \in Level
           /\ txn.added \subseteq RowId
           /\ txn.deleted \subseteq RowId
           /\ txn.cursors \in Seq(Position)
           /\ Len(txn.cursors) <= MaxCursor
<1> DEFINE Cursors == UNION {[1..n -> Position] : n \in 0..MaxCursor}
<1>1. TransactionType = [il : Level, added : SUBSET RowId,
                         deleted : SUBSET RowId, cursors : Cursors]
  BY DEF TransactionType, Position
<1>2. txn.cursors \in Cursors
        <=> txn.cursors \in Seq(Position) /\ Len(txn.cursors) <= MaxCursor
  BY CursorList
<1> HIDE DEF Cursors
<1> QED
  BY <1>1, <1>2

(* A row of the cell is locked by nobody and visible to all.               *)
LEMMA OpenRow ==
  ASSUME NEW row \in Rows
  PROVE  /\ MayLock(row, TransactionId)
         /\ Lock(row, TransactionId) = row
         /\ Remove(row, TransactionId) = row
         /\ \A level \in IsolationLevel : RowIsVisible(row, TransactionId, level)
<1>1. /\ row.transaction_lock_id = 0 /\ row.transaction_write_id = 0
      /\ row.transaction_deleted_id = 0 /\ row.committed \in BOOLEAN
  BY DEF Rows, RowType, NoId
<1>2. MayLock(row, TransactionId)
  BY <1>1 DEF MayLock, IsLocked, NoId, TransactionId
<1>3. [row EXCEPT !.transaction_lock_id = 0] = row
  BY <1>1 DEF Rows, RowType
<1>4. Lock(row, TransactionId) = row
  BY <1>1, <1>3 DEF Lock, NoId, TransactionId
<1>5. Remove(row, TransactionId) = row
  BY <1>1 DEF Remove, IsLocked, NoId, TransactionId
<1>6. ASSUME NEW level \in IsolationLevel
      PROVE  RowIsVisible(row, TransactionId, level)
  BY <1>1 DEF RowIsVisible, IsVisible, IsSnapshotVisible, OwnUncommitted,
              NoId, TransactionId
<1> QED
  BY <1>2, <1>4, <1>5, <1>6

(* commit of a row keeps its values.                                       *)
LEMMA CommittedRow ==
  ASSUME NEW row \in Rows
  PROVE  /\ Commit(row, TransactionId) \in Rows
         /\ Commit(row, TransactionId).committed
         /\ Commit(row, TransactionId).column_oids = row.column_oids
  BY DEF Commit, MayUnlock, Unlock, IsLocked, Rows, RowType, NoId, TransactionId

(* A new row has the ids the pages gave out.                               *)
LEMMA NewRowIs ==
  ASSUME NEW present \in SUBSET Column, next_oid \in [Column -> Nat \ {0}]
  PROVE  LET new == Inserted(TransactionId, present)
         IN  /\ new \in Rows /\ ~new.committed
             /\ \A c \in present : new.column_oids[c] = next_oid[c]
  BY DEF Inserted, NewRow, Rows, RowType, NoId, TransactionId, Oid

(* A version has new ids for its columns and the old ones elsewhere.       *)
LEMMA UpdatedRow ==
  ASSUME NEW present \in SUBSET Column, next_oid \in [Column -> Nat \ {0}],
         NEW older \in Rows
  PROVE  LET new == Update(Inserted(TransactionId, present), TransactionId,
                           present, older)
         IN  /\ new \in Rows /\ ~new.committed
             /\ \A c \in Column : new.column_oids[c] =
                  IF c \in present THEN next_oid[c] ELSE older.column_oids[c]
  BY DEF Inserted, NewRow, Update, IsLocked, Rows, RowType, NoId, TransactionId,
         Oid

-----------------------------------------------------------------------------
(***************************************************************************)
(* Handles.                                                                *)
(***************************************************************************)

(* The next handle is not in use, though the counter wraps.                *)
LEMMA HandleIsNew ==
  ASSUME DOMAIN transactions \subseteq Handle, Recent,
         next_transaction_id \in Handle,
         Cardinality(DOMAIN transactions) < MaxTxn
  PROVE  /\ NextHandle \in Handle
         /\ NextHandle \notin DOMAIN transactions
         /\ IsFiniteSet(DOMAIN transactions)
         /\ \A h \in Handle \ {NextHandle} :
              (IF h <= NextHandle THEN NextHandle - h
               ELSE NextHandle - h + HandleModulus) = Age(h) + 1
<1> DEFINE m == HandleModulus
           last == next_transaction_id
           card == Cardinality(DOMAIN transactions)
<1>1. /\ m \in Nat /\ m > 0 /\ MaxTxn \in Nat /\ MaxTxn < m
      /\ last \in Nat /\ last < m /\ last <= m - 1
      /\ \A h \in Handle : h \in Nat /\ h < m
  BY CellAssumption DEF Handle
<1>2. NextHandle = IF last = m - 1 THEN 0 ELSE last + 1
  <2>1. CASE last = m - 1
    <3>1. m % m = 0 /\ last + 1 = m
      BY <1>1, <2>1
    <3> QED
      BY <3>1, <2>1 DEF NextHandle
  <2>2. CASE last # m - 1
    <3>1. last + 1 \in Nat /\ last + 1 < m
      BY <1>1, <2>2
    <3>2. (last + 1) % m = last + 1
      BY <1>1, <3>1
    <3> QED
      BY <3>2, <2>2 DEF NextHandle
  <2> QED
    BY <2>1, <2>2
<1>3. NextHandle \in Handle
  BY <1>1, <1>2 DEF Handle
<1>4. IsFiniteSet(DOMAIN transactions) /\ card \in Nat
  <2>1. IsFiniteSet(0..(m - 1))
    BY <1>1, FS_Interval
  <2>2. IsFiniteSet(DOMAIN transactions)
    BY <2>1, FS_Subset DEF Handle
  <2> QED
    BY <2>2, FS_CardinalityType
<1>5. NextHandle \notin DOMAIN transactions
  <2> SUFFICES ASSUME NextHandle \in DOMAIN transactions PROVE FALSE
    OBVIOUS
  <2>1. Age(NextHandle) < card
    BY DEF Recent
  <2>2. Age(NextHandle) = m - 1
    BY <1>1, <1>2 DEF Age
  <2> QED
    BY <2>1, <2>2, <1>1, <1>4
<1>6. \A h \in Handle \ {NextHandle} :
        (IF h <= NextHandle THEN NextHandle - h ELSE NextHandle - h + m)
          = Age(h) + 1
  BY <1>1, <1>2 DEF Age
<1> QED
  BY <1>3, <1>4, <1>5, <1>6

(* The handles in use stay the last ones given out.                        *)
LEMMA RecentStep ==
  ASSUME Lists, Recent, Rest,
         \/ /\ DOMAIN transactions' = DOMAIN transactions
            /\ next_transaction_id' = next_transaction_id
         \/ /\ DOMAIN transactions' = DOMAIN transactions \cup {NextHandle}
            /\ next_transaction_id' = NextHandle
            /\ Cardinality(DOMAIN transactions) < MaxTxn
  PROVE  Recent'
<1> DEFINE used == DOMAIN transactions
<1>1. CASE /\ DOMAIN transactions' = used
           /\ next_transaction_id' = next_transaction_id
  BY <1>1 DEF Recent, Age
<1>2. CASE /\ DOMAIN transactions' = used \cup {NextHandle}
           /\ next_transaction_id' = NextHandle
           /\ Cardinality(used) < MaxTxn
  <2>1. used \subseteq Handle /\ next_transaction_id \in Handle
    BY DEF Lists, TxnsOK, Rest
  <2>2. /\ NextHandle \in Handle /\ NextHandle \notin used /\ IsFiniteSet(used)
        /\ \A h \in Handle \ {NextHandle} :
             (IF h <= NextHandle THEN NextHandle - h
              ELSE NextHandle - h + HandleModulus) = Age(h) + 1
    BY <1>2, <2>1, HandleIsNew
  <2>3. Cardinality(used) \in Nat
    BY <2>2, FS_CardinalityType
  <2>4. Cardinality(used \cup {NextHandle}) = Cardinality(used) + 1
    BY <2>2, FS_AddElement
  <2>5. ASSUME NEW h \in used PROVE Age(h)' < Cardinality(used) + 1
    <3>1. h \in Handle \ {NextHandle} /\ Age(h) < Cardinality(used)
      BY <2>1, <2>2 DEF Recent
    <3>2. Age(h)' = Age(h) + 1
      BY <3>1, <2>2, <1>2 DEF Age
    <3>3. Age(h) \in Int
      BY <2>1, CellAssumption DEF Age, Handle
    <3> QED
      BY <3>1, <3>2, <3>3, <2>3
  <2>6. ASSUME NEW h, h = NextHandle PROVE Age(h)' = 0
    BY <1>2, <2>2, <2>6, CellAssumption DEF Age, Handle
  <2>7. \A h \in used \cup {NextHandle} : Age(h)' < Cardinality(used) + 1
    BY <2>3, <2>5, <2>6
  <2> QED
    BY <1>2, <2>4, <2>7 DEF Recent
<1> QED
  BY <1>1, <1>2

-----------------------------------------------------------------------------
(***************************************************************************)
(* What a step does to rows and lists.                                     *)
(***************************************************************************)

(* Row ids and object ids are taken and values stored, none taken back.    *)
PagesGrow ==
  /\ row_id_generator \in 0..MaxRow /\ row_id_generator' \in 0..MaxRow
  /\ row_id_generator <= row_id_generator'
  /\ next_oid' \in [Column -> Nat \ {0}]
  /\ stored' \in [Column -> SUBSET Oid]
  /\ \A c \in Column : stored[c] \subseteq stored'[c]

(* Lists stay as they are, but for new transactions whose list is empty.   *)
SameLists ==
  /\ DOMAIN transactions \subseteq DOMAIN transactions'
  /\ \A h \in DOMAIN transactions' :
       transactions'[h].added =
         IF h \in DOMAIN transactions THEN transactions[h].added ELSE {}

(* Nothing happens to the rows.                                            *)
Quiet ==
  /\ rows' = rows /\ PagesGrow
  /\ TxnsOK(transactions', DOMAIN rows)
  /\ SameLists

(* Transaction h commits what is in its list.                              *)
Commits(h) ==
  /\ h \in DOMAIN transactions
  /\ UNCHANGED <<transactions, row_id_generator, pageVars>>
  /\ DOMAIN rows' = DOMAIN rows
  /\ rows' = [r \in DOMAIN rows |-> rows'[r]]
  /\ \A r \in DOMAIN rows :
       /\ rows'[r] \in Rows
       /\ rows'[r].column_oids = rows[r].column_oids
       /\ rows'[r].committed <=> rows[r].committed \/ r \in transactions[h].added

(* Transaction h adds a row.                                               *)
Adds(h) ==
  LET n == row_id_generator + 1
  IN  /\ h \in DOMAIN transactions
      /\ PagesGrow /\ row_id_generator' = n
      /\ n \notin DOMAIN rows
      /\ DOMAIN rows' = DOMAIN rows \cup {n}
      /\ rows' = [r \in DOMAIN rows' |-> rows'[r]]
      /\ \A r \in DOMAIN rows : rows'[r] = rows[r]
      /\ rows'[n] \in Rows /\ ~rows'[n].committed
      /\ \A c \in Column : rows'[n].column_oids[c] \in stored'[c]
      /\ TxnsOK(transactions', DOMAIN rows \cup {n})
      /\ DOMAIN transactions' = DOMAIN transactions
      /\ \A g \in DOMAIN transactions :
           transactions'[g].added =
             IF g = h THEN transactions[h].added \cup {n}
             ELSE transactions[g].added

(* The types of a table, without the bounds TLC needs for rows.            *)
LEMMA StoreIs ==
  StoreTypeOK({}) <=>
    /\ row_id_generator \in 0..MaxRow
    /\ DOMAIN rows \subseteq 1..row_id_generator
    /\ rows = [r \in DOMAIN rows |-> rows[r]]
    /\ \A r \in DOMAIN rows : rows[r] \in Rows
    /\ next_oid \in [Column -> Nat \ {0}]
    /\ stored \in [Column -> SUBSET Oid]
  BY DEF StoreTypeOK, Rows

(* The same after a step.                                                  *)
LEMMA StoreNext ==
  (StoreTypeOK({}) <=>
    /\ row_id_generator \in 0..MaxRow
    /\ DOMAIN rows \subseteq 1..row_id_generator
    /\ rows = [r \in DOMAIN rows |-> rows[r]]
    /\ \A r \in DOMAIN rows : rows[r] \in Rows
    /\ next_oid \in [Column -> Nat \ {0}]
    /\ stored \in [Column -> SUBSET Oid])'
  BY StoreIs, PTL

(* A step that adds no row and no list entry keeps the lists.              *)
LEMMA QuietStep == Lists /\ Quiet => Lists'
<1> SUFFICES ASSUME Lists, Quiet PROVE Lists'
  OBVIOUS
<1>1. /\ row_id_generator' \in 0..MaxRow
      /\ DOMAIN rows \subseteq 1..row_id_generator'
      /\ rows' = rows
      /\ next_oid' \in [Column -> Nat \ {0}]
      /\ stored' \in [Column -> SUBSET Oid]
  <2>1. /\ row_id_generator \in Nat /\ row_id_generator' \in Nat
        /\ row_id_generator <= row_id_generator'
    BY CellAssumption DEF Quiet, PagesGrow
  <2>2. DOMAIN rows \subseteq 1..row_id_generator
    BY StoreIs DEF Lists
  <2> QED
    BY <2>1, <2>2 DEF Quiet, PagesGrow
<1>2. StoreTypeOK({})'
  BY <1>1, StoreIs, StoreNext DEF Lists
<1>3. Whole'
  BY <1>1 DEF Whole, Lists, Quiet, PagesGrow
<1>4. TxnsOK(transactions, DOMAIN rows)'
  BY <1>1 DEF Quiet, TxnsOK
<1>5. AddedExactlyOnce'
  <2>1. \A r \in UNION {transactions[h].added : h \in DOMAIN transactions} :
          \E h \in DOMAIN transactions' : r \in transactions'[h].added
    BY DEF Quiet, SameLists
  <2>2. \A h \in DOMAIN transactions' : \A r \in transactions'[h].added :
          h \in DOMAIN transactions /\ r \in transactions[h].added
    BY DEF Quiet, SameLists
  <2>3. DOMAIN rows' = UNION {transactions'[h].added : h \in DOMAIN transactions'}
    BY <1>1, <2>1, <2>2 DEF Lists, AddedExactlyOnce
  <2>4. \A g, h \in DOMAIN transactions' :
          g # h => transactions'[g].added \cap transactions'[h].added = {}
    BY <2>2 DEF Lists, AddedExactlyOnce
  <2> QED
    BY <2>3, <2>4 DEF AddedExactlyOnce
<1> QED
  BY <1>2, <1>3, <1>4, <1>5 DEF Lists

(* commit keeps them: it changes no list.                                  *)
LEMMA CommitStep ==
  ASSUME Lists, NEW h, Commits(h)
  PROVE  Lists'
<1>1. StoreTypeOK({})'
  BY StoreIs, StoreNext DEF Lists, Commits, pageVars
<1>2. Whole'
  BY DEF Whole, Lists, Commits, pageVars
<1>3. TxnsOK(transactions, DOMAIN rows)' /\ AddedExactlyOnce'
  BY DEF Lists, Commits, TxnsOK, AddedExactlyOnce
<1> QED
  BY <1>1, <1>2, <1>3 DEF Lists

(* A row added to the table and to one list keeps them.                    *)
LEMMA AddStep ==
  ASSUME Lists, NEW h, Adds(h)
  PROVE  Lists'
<1> DEFINE n == row_id_generator + 1
<1>1. /\ h \in DOMAIN transactions
      /\ PagesGrow /\ row_id_generator' = n
      /\ n \notin DOMAIN rows
      /\ DOMAIN rows' = DOMAIN rows \cup {n}
      /\ rows' = [r \in DOMAIN rows' |-> rows'[r]]
      /\ \A r \in DOMAIN rows : rows'[r] = rows[r]
      /\ rows'[n] \in Rows
      /\ \A c \in Column : rows'[n].column_oids[c] \in stored'[c]
      /\ TxnsOK(transactions', DOMAIN rows \cup {n})
      /\ DOMAIN transactions' = DOMAIN transactions
      /\ \A g \in DOMAIN transactions :
           transactions'[g].added =
             IF g = h THEN transactions[h].added \cup {n}
             ELSE transactions[g].added
  BY DEF Adds
<1>2. StoreTypeOK({})'
  <2>1. row_id_generator \in Nat /\ DOMAIN rows \subseteq 1..row_id_generator
    BY StoreIs, CellAssumption DEF Lists
  <2>2. DOMAIN rows' \subseteq 1..n
    BY <1>1, <2>1
  <2>3. \A r \in DOMAIN rows' : rows'[r] \in Rows
    BY <1>1, StoreIs DEF Lists
  <2>4. /\ row_id_generator' \in 0..MaxRow
        /\ next_oid' \in [Column -> Nat \ {0}]
        /\ stored' \in [Column -> SUBSET Oid]
    BY <1>1 DEF PagesGrow
  <2> QED
    BY <1>1, <2>2, <2>3, <2>4, StoreNext
<1> HIDE DEF n
<1>3. Whole'
  <2>1. ASSUME NEW r \in DOMAIN rows, NEW c \in Column
        PROVE  rows'[r].column_oids[c] \in stored'[c]
    BY <1>1 DEF Whole, Lists, PagesGrow
  <2> QED
    BY <1>1, <2>1 DEF Whole
<1>4. TxnsOK(transactions, DOMAIN rows)'
  BY <1>1 DEF TxnsOK
<1>5. AddedExactlyOnce'
  <2>1. DOMAIN rows' = UNION {transactions'[g].added : g \in DOMAIN transactions'}
    <3>1. ASSUME NEW r \in DOMAIN rows
          PROVE  \E g \in DOMAIN transactions' : r \in transactions'[g].added
      BY <1>1 DEF Lists, AddedExactlyOnce
    <3>2. n \in transactions'[h].added
      BY <1>1
    <3>3. ASSUME NEW g \in DOMAIN transactions', NEW r \in transactions'[g].added
          PROVE  r \in DOMAIN rows \cup {n}
      BY <1>1, <3>3 DEF Lists, AddedExactlyOnce
    <3> QED
      BY <1>1, <3>1, <3>2, <3>3
  <2>2. ASSUME NEW f \in DOMAIN transactions', NEW g \in DOMAIN transactions',
               f # g
        PROVE  transactions'[f].added \cap transactions'[g].added = {}
    <3>1. n \notin transactions[f].added /\ n \notin transactions[g].added
      BY <1>1 DEF Lists, AddedExactlyOnce
    <3>2. transactions[f].added \cap transactions[g].added = {}
      BY <1>1, <2>2 DEF Lists, AddedExactlyOnce
    <3> QED
      BY <1>1, <2>2, <3>1, <3>2
  <2> QED
    BY <2>1, <2>2 DEF AddedExactlyOnce
<1> QED
  BY <1>2, <1>3, <1>4, <1>5 DEF Lists

-----------------------------------------------------------------------------
(***************************************************************************)
(* The commands.                                                           *)
(***************************************************************************)
HandlesStep ==
  \/ /\ DOMAIN transactions' = DOMAIN transactions
     /\ next_transaction_id' = next_transaction_id
  \/ /\ DOMAIN transactions' = DOMAIN transactions \cup {NextHandle}
     /\ next_transaction_id' = NextHandle
     /\ Cardinality(DOMAIN transactions) < MaxTxn

ExchangeOK ==
  exchange \in [kind : {"NONE", "PREPARE", "FETCH", "INSERT"},
                transaction : Handle, value : Nat]

(* An answer that says nothing is typed.                                   *)
LEMMA NoExchangeOK ==
  NoExchange \in [kind : {"NONE", "PREPARE", "FETCH", "INSERT"},
                  transaction : Handle, value : Nat]
<1>1. 0 \in Handle
  BY CellAssumption DEF Handle
<1> QED
  BY <1>1 DEF NoExchange

(* Pages that stay as they are have lost nothing.                          *)
LEMMA PagesStay ==
  ASSUME Lists, UNCHANGED <<row_id_generator, pageVars>>
  PROVE  PagesGrow
<1>1. row_id_generator \in Nat
  BY StoreIs, CellAssumption DEF Lists
<1> QED
  BY <1>1, StoreIs DEF Lists, PagesGrow, pageVars

(* The row id an insertion takes is new; if nothing stops it, all values   *)
(* are stored under the ids their pages gave out.                          *)
LEMMA TakenIds ==
  ASSUME Lists, NEW present \in SUBSET Column, NEW supplied,
         TakeIds(present, supplied)
  PROVE  /\ PagesGrow
         /\ row_id_generator' = row_id_generator + 1
         /\ row_id_generator + 1 \in RowId
         /\ row_id_generator + 1 \notin DOMAIN rows
         /\ InsertCode(present, supplied) = "SUCCESS"
              => \A c \in present : next_oid[c] \in stored'[c]
<1>1. /\ row_id_generator \in Nat /\ row_id_generator <= MaxRow
      /\ DOMAIN rows \subseteq 1..row_id_generator
      /\ next_oid \in [Column -> Nat \ {0}]
      /\ stored \in [Column -> SUBSET Oid]
  BY StoreIs, CellAssumption DEF Lists
<1>2. /\ row_id_generator < MaxRow
      /\ row_id_generator' = row_id_generator + 1
  BY DEF TakeIds
<1>3. /\ row_id_generator \in 0..MaxRow /\ row_id_generator' \in 0..MaxRow
      /\ row_id_generator <= row_id_generator'
      /\ row_id_generator + 1 \in RowId
      /\ row_id_generator + 1 \notin DOMAIN rows
  BY <1>1, <1>2, CellAssumption DEF RowId
<1>4. /\ next_oid' \in [Column -> Nat \ {0}]
      /\ stored' \in [Column -> SUBSET Oid]
      /\ \A c \in Column : stored[c] \subseteq stored'[c]
  BY <1>1 DEF TakeIds, Oid
<1>5. ASSUME InsertCode(present, supplied) = "SUCCESS", NEW c \in present
      PROVE  next_oid[c] \in stored'[c]
  <2>1. Stops(present, supplied) = {}
    BY <1>5 DEF InsertCode
  <2>2. c \in Stored(present, supplied)
    BY <1>5, <2>1 DEF Stored, Reached
  <2> QED
    BY <2>2 DEF TakeIds
<1> QED
  BY <1>2, <1>3, <1>4, <1>5 DEF PagesGrow

(* Cursors stay at rows that are there when there are more.                *)
LEMMA MoreRows ==
  ASSUME NEW txns, NEW ids, NEW more, ids \subseteq more, TxnsOK(txns, ids)
  PROVE  TxnsOK(txns, more)
  BY DEF TxnsOK, CursorsIn

(* Putting a typed transaction in place of one.                            *)
LEMMA PutTransaction ==
  ASSUME NEW txns, NEW ids, TxnsOK(txns, ids),
         NEW h \in DOMAIN txns, NEW txn, txn \in TransactionType,
         CursorsIn(txn, ids),
         transactions' = [txns EXCEPT ![h] = txn]
  PROVE  /\ TxnsOK(transactions', ids)
         /\ DOMAIN transactions' = DOMAIN txns
         /\ transactions'[h] = txn
         /\ \A g \in DOMAIN txns : g # h => transactions'[g] = txns[g]
<1>1. /\ DOMAIN transactions' = DOMAIN txns
      /\ transactions' = [g \in DOMAIN transactions' |-> transactions'[g]]
      /\ transactions'[h] = txn
      /\ \A g \in DOMAIN txns : g # h => transactions'[g] = txns[g]
  BY DEF TxnsOK
<1>2. ASSUME NEW g \in DOMAIN transactions'
      PROVE  /\ transactions'[g] \in TransactionType
             /\ CursorsIn(transactions'[g], ids)
  <2>1. CASE g = h
    BY <1>1, <2>1
  <2>2. CASE g # h
    BY <1>1, <2>2 DEF TxnsOK
  <2> QED
    BY <2>1, <2>2
<1> QED
  BY <1>1, <1>2 DEF TxnsOK

(* A transaction with one of its cursors moved to a row of the table.      *)
LEMMA CursorPut ==
  ASSUME NEW txn \in TransactionType, NEW ids, ids \subseteq RowId,
         CursorsIn(txn, ids),
         NEW cursor \in DOMAIN txn.cursors, NEW pos \in ids \cup {End},
         NEW new, new = [txn EXCEPT !.cursors[cursor] = pos]
  PROVE  /\ new \in TransactionType
         /\ new.added = txn.added
         /\ CursorsIn(new, ids)
<1> DEFINE list == [txn.cursors EXCEPT ![cursor] = pos]
<1>1. /\ txn = [il |-> txn.il, added |-> txn.added, deleted |-> txn.deleted,
                cursors |-> txn.cursors]
      /\ txn.il \in Level /\ txn.added \subseteq RowId
      /\ txn.deleted \subseteq RowId
      /\ txn.cursors \in Seq(Position) /\ Len(txn.cursors) <= MaxCursor
  BY TransactionIs
<1>2. pos \in Position
  BY DEF Position
<1>3. /\ list \in Seq(Position) /\ Len(list) = Len(txn.cursors)
      /\ DOMAIN list = DOMAIN txn.cursors
      /\ \A c \in DOMAIN list :
           list[c] = IF c = cursor THEN pos ELSE txn.cursors[c]
  BY <1>1, <1>2
<1>4. new = [il |-> txn.il, added |-> txn.added, deleted |-> txn.deleted,
             cursors |-> list]
  BY <1>1
<1> HIDE DEF list
<1>5. new.cursors = list /\ new.added = txn.added
  BY <1>4
<1>6. new \in TransactionType
  <2>1. /\ new.il = txn.il /\ new.deleted = txn.deleted
    BY <1>4
  <2> QED
    BY <1>1, <1>3, <1>4, <1>5, <2>1, TransactionIs
<1> QED
  BY <1>3, <1>5, <1>6 DEF CursorsIn

(* Moving a cursor changes no list.                                        *)
LEMMA CursorMoved ==
  ASSUME Lists, NEW h \in DOMAIN transactions,
         NEW cursor \in DOMAIN transactions[h].cursors,
         NEW pos \in DOMAIN rows \cup {End},
         transactions' = MovedCursor(h, cursor, pos)
  PROVE  /\ TxnsOK(transactions', DOMAIN rows)
         /\ DOMAIN transactions' = DOMAIN transactions
         /\ SameLists
<1> DEFINE txn == [transactions[h] EXCEPT !.cursors[cursor] = pos]
<1>1. /\ TxnsOK(transactions, DOMAIN rows) /\ DOMAIN rows \subseteq RowId
      /\ transactions[h] \in TransactionType
      /\ CursorsIn(transactions[h], DOMAIN rows)
  <2>1. DOMAIN rows \subseteq RowId
    <3>1. /\ row_id_generator \in 0..MaxRow
          /\ DOMAIN rows \subseteq 1..row_id_generator
      BY StoreIs DEF Lists
    <3> QED
      BY <3>1, CellAssumption DEF RowId
  <2> QED
    BY <2>1 DEF Lists, TxnsOK
<1>2. transactions' = [transactions EXCEPT ![h] = txn]
  BY DEF MovedCursor
<1>3. /\ txn \in TransactionType /\ txn.added = transactions[h].added
      /\ CursorsIn(txn, DOMAIN rows)
  BY <1>1, CursorPut
<1> HIDE DEF txn
<1>4. /\ TxnsOK(transactions', DOMAIN rows)
      /\ DOMAIN transactions' = DOMAIN transactions
      /\ transactions'[h] = txn
      /\ \A g \in DOMAIN transactions : g # h => transactions'[g] = transactions[g]
  <2>1. txn \in TransactionType /\ CursorsIn(txn, DOMAIN rows)
    BY <1>3
  <2>2. TxnsOK(transactions, DOMAIN rows)
    BY <1>1
  <2> QED
    BY ONLY <1>2, <2>1, <2>2, h \in DOMAIN transactions, PutTransaction
<1> QED
  BY <1>3, <1>4 DEF SameLists

(* A fetch leaves its cursor at a row of the table or at the end.          *)
LEMMA SettledRow ==
  ASSUME NEW pos \in DOMAIN rows \cup {End}, NEW level, NEW to \in Settled(pos, level)
  PROVE  to \in DOMAIN rows \cup {End}
  BY DEF Settled

(* A new cursor on the table, if one is asked for.                         *)
LEMMA CursorCreated ==
  ASSUME Lists, Rest, NEW txns, TxnsOK(txns, DOMAIN rows), NEW h \in Handle,
         NEW table, CreateCursor(txns, h, table)
  PROVE  /\ TxnsOK(transactions', DOMAIN rows)
         /\ DOMAIN transactions' = DOMAIN txns
         /\ \A g \in DOMAIN txns : transactions'[g].added = txns[g].added
         /\ died' \in BOOLEAN /\ ExchangeOK'
<1>1. CASE transactions' = txns /\ Answer("PREPARE", h, 0) /\ UNCHANGED died
  BY <1>1 DEF Rest, Answer, ExchangeOK
<1>2. CASE transactions' = txns /\ died' = TRUE /\ exchange' = NoExchange
  BY <1>2, NoExchangeOK DEF ExchangeOK
<1>3. ASSUME h \in DOMAIN txns, Len(txns[h].cursors) < MaxCursor,
             NEW r \in FirstRow,
             transactions' = [txns EXCEPT ![h].cursors = Append(@, r)],
             Answer("PREPARE", h, Len(txns[h].cursors) + 1), UNCHANGED died
      PROVE  /\ TxnsOK(transactions', DOMAIN rows)
             /\ DOMAIN transactions' = DOMAIN txns
             /\ \A g \in DOMAIN txns : transactions'[g].added = txns[g].added
             /\ died' \in BOOLEAN /\ ExchangeOK'
  <2> DEFINE old == txns[h]
             list == Append(old.cursors, r)
             txn == [old EXCEPT !.cursors = list]
  <2>1. /\ old = [il |-> old.il, added |-> old.added, deleted |-> old.deleted,
                  cursors |-> old.cursors]
        /\ old.il \in Level /\ old.added \subseteq RowId
        /\ old.deleted \subseteq RowId
        /\ old.cursors \in Seq(Position) /\ Len(old.cursors) <= MaxCursor
    <3>1. old \in TransactionType
      BY <1>3 DEF TxnsOK
    <3> QED
      BY <3>1, TransactionIs
  <2>2. \A c \in DOMAIN old.cursors : old.cursors[c] \in DOMAIN rows \cup {End}
    BY <1>3 DEF TxnsOK, CursorsIn
  <2>3. r \in DOMAIN rows \cup {End} /\ r \in Position
    <3>1. r \in DOMAIN rows \cup {End}
      BY <1>3 DEF FirstRow
    <3>2. DOMAIN rows \subseteq 1..row_id_generator /\ row_id_generator \in 0..MaxRow
      BY StoreIs DEF Lists
    <3> QED
      BY <3>1, <3>2, CellAssumption DEF Position, RowId
  <2> HIDE DEF old
  <2>4. /\ list \in Seq(Position) /\ Len(list) = Len(old.cursors) + 1
        /\ \A c \in DOMAIN list : list[c] \in DOMAIN rows \cup {End}
    BY <2>1, <2>2, <2>3
  <2>5. Len(list) <= MaxCursor
    BY <1>3, <2>1, <2>4, CellAssumption DEF old
  <2> HIDE DEF list
  <2>6. txn = [il |-> old.il, added |-> old.added, deleted |-> old.deleted,
               cursors |-> list]
    BY <2>1
  <2>7. /\ txn.il = old.il /\ txn.added = old.added /\ txn.deleted = old.deleted
        /\ txn.cursors = list
    BY <2>6
  <2>8. transactions' = [txns EXCEPT ![h] = txn]
    BY <1>3 DEF list, old
  <2> HIDE DEF txn
  <2>9. txn \in TransactionType
    BY <2>1, <2>4, <2>5, <2>6, <2>7, TransactionIs
  <2>a. CursorsIn(txn, DOMAIN rows)
    BY <2>4, <2>7 DEF CursorsIn
  <2>10. /\ TxnsOK(transactions', DOMAIN rows)
         /\ DOMAIN transactions' = DOMAIN txns
         /\ transactions'[h] = txn
         /\ \A g \in DOMAIN txns : g # h => transactions'[g] = txns[g]
    BY <1>3, <2>8, <2>9, <2>a, PutTransaction
  <2>11. \A g \in DOMAIN txns : transactions'[g].added = txns[g].added
    BY <2>7, <2>10 DEF old
  <2>12. ExchangeOK'
    <3>1. Len(old.cursors) + 1 \in Nat
      BY <2>1
    <3> QED
      BY <3>1, <1>3 DEF ExchangeOK, Answer, old
  <2> QED
    BY <1>3, <2>10, <2>11, <2>12 DEF Rest
<1> QED
  BY <1>1, <1>2, <1>3 DEF CreateCursor

(* A row put into the table and on the list of its transaction.            *)
LEMMA RowAdded ==
  ASSUME Lists, NEW present \in SUBSET Column, NEW supplied,
         TakeIds(present, supplied),
         NEW new \in Rows, ~new.committed,
         \A c \in Column : new.column_oids[c] \in stored'[c],
         rows' = RowsWith(rows, new),
         NEW h \in DOMAIN transactions, NEW txn \in TransactionType,
         txn.added = transactions[h].added \cup {row_id_generator + 1},
         CursorsIn(txn, DOMAIN rows \cup {row_id_generator + 1}),
         transactions' = [transactions EXCEPT ![h] = txn]
  PROVE  Adds(h)
<1> DEFINE n == row_id_generator + 1
           ids == DOMAIN rows \cup {n}
<1>1. PagesGrow /\ row_id_generator' = n /\ n \notin DOMAIN rows
  BY TakenIds
<1>2. TxnsOK(transactions, ids)
  BY MoreRows DEF Lists
<1>3. CursorsIn(txn, ids)
  OBVIOUS
<1> HIDE DEF ids
<1>4. /\ TxnsOK(transactions', ids)
      /\ DOMAIN transactions' = DOMAIN transactions
      /\ transactions'[h] = txn
      /\ \A g \in DOMAIN transactions : g # h => transactions'[g] = transactions[g]
  BY ONLY <1>2, <1>3, h \in DOMAIN transactions, txn \in TransactionType,
          transactions' = [transactions EXCEPT ![h] = txn], PutTransaction
<1>5. \A g \in DOMAIN transactions :
        transactions'[g].added =
          IF g = h THEN transactions[h].added \cup {n} ELSE transactions[g].added
  BY <1>4
<1>6. /\ DOMAIN rows' = DOMAIN rows \cup {n}
      /\ rows' = [r \in DOMAIN rows' |-> rows'[r]]
      /\ \A r \in DOMAIN rows : rows'[r] = rows[r]
      /\ rows'[n] = new
  BY <1>1 DEF RowsWith
<1> QED
  BY <1>1, <1>4, <1>5, <1>6 DEF Adds, ids

(* What is known of a transaction of the cell.                             *)
LEMMA TransactionTyped ==
  ASSUME Lists, NEW h \in DOMAIN transactions
  PROVE  /\ transactions[h] \in TransactionType
         /\ CursorsIn(transactions[h], DOMAIN rows)
         /\ DOMAIN rows \subseteq RowId
         /\ h \in Handle
<1>1. DOMAIN rows \subseteq 1..row_id_generator /\ row_id_generator \in 0..MaxRow
  BY StoreIs DEF Lists
<1> QED
  BY <1>1, CellAssumption DEF Lists, TxnsOK, RowId

(* An insertion records its row.                                           *)
LEMMA Recording ==
  ASSUME NEW txn \in TransactionType, NEW ids, CursorsIn(txn, ids),
         NEW n \in RowId, NEW new, new = [txn EXCEPT !.added = @ \cup {n}]
  PROVE  /\ new \in TransactionType
         /\ new.added = txn.added \cup {n}
         /\ CursorsIn(new, ids \cup {n})
<1>1. /\ txn = [il |-> txn.il, added |-> txn.added, deleted |-> txn.deleted,
                cursors |-> txn.cursors]
      /\ txn.il \in Level /\ txn.added \subseteq RowId
      /\ txn.deleted \subseteq RowId
      /\ txn.cursors \in Seq(Position) /\ Len(txn.cursors) <= MaxCursor
  BY TransactionIs
<1>2. new = [il |-> txn.il, added |-> txn.added \cup {n},
             deleted |-> txn.deleted, cursors |-> txn.cursors]
  BY <1>1
<1>3. /\ new.il = txn.il /\ new.added = txn.added \cup {n}
      /\ new.deleted = txn.deleted /\ new.cursors = txn.cursors
  BY <1>2
<1>4. new \in TransactionType
  BY <1>1, <1>2, <1>3, TransactionIs
<1> QED
  BY <1>3, <1>4 DEF CursorsIn

(* So does an update, which also takes its row for the deleted one and     *)
(* moves the cursor to it.                                                 *)
LEMMA Replacing ==
  ASSUME NEW txn \in TransactionType, NEW ids, ids \subseteq RowId,
         CursorsIn(txn, ids), row_id_generator + 1 \in RowId,
         NEW cursor \in DOMAIN txn.cursors
  PROVE  LET n == row_id_generator + 1
             new == Replaced(txn, cursor)
         IN  /\ new \in TransactionType
             /\ new.added = txn.added \cup {n}
             /\ CursorsIn(new, ids \cup {n})
<1> DEFINE n == row_id_generator + 1
           new == Replaced(txn, cursor)
           list == [txn.cursors EXCEPT ![cursor] = n]
<1>1. /\ txn = [il |-> txn.il, added |-> txn.added, deleted |-> txn.deleted,
                cursors |-> txn.cursors]
      /\ txn.il \in Level /\ txn.added \subseteq RowId
      /\ txn.deleted \subseteq RowId
      /\ txn.cursors \in Seq(Position) /\ Len(txn.cursors) <= MaxCursor
  BY TransactionIs
<1>2. n \in Position
  BY DEF Position
<1>3. /\ list \in Seq(Position) /\ Len(list) = Len(txn.cursors)
      /\ DOMAIN list = DOMAIN txn.cursors
      /\ \A c \in DOMAIN list : list[c] = IF c = cursor THEN n ELSE txn.cursors[c]
  BY <1>1, <1>2
<1>4. new = [il |-> txn.il, added |-> txn.added \cup {n},
             deleted |-> txn.deleted \cup {n}, cursors |-> list]
  <2>1. new = [txn EXCEPT !.added = txn.added \cup {n},
                          !.deleted = txn.deleted \cup {n}, !.cursors = list]
    BY DEF Replaced
  <2> HIDE DEF list, new, n
  <2> QED
    BY <1>1, <2>1
<1> HIDE DEF list, new
<1>5. /\ new.il = txn.il /\ new.added = txn.added \cup {n}
      /\ new.deleted = txn.deleted \cup {n} /\ new.cursors = list
  BY <1>4
<1>6. new \in TransactionType
  BY <1>1, <1>3, <1>4, <1>5, TransactionIs
<1>7. CursorsIn(new, ids \cup {n})
  BY <1>3, <1>5 DEF CursorsIn
<1> QED
  BY <1>5, <1>6, <1>7 DEF new

(* What every step is.                                                     *)
StepOK ==
  /\ Quiet \/ \E h \in DOMAIN transactions : Adds(h) \/ Commits(h)
  /\ HandlesStep
  /\ Rest'

(* PREPARE with a new transaction: nobody has its handle.                  *)
LEMMA PrepareNewStep ==
  ASSUME IInv, NEW level \in Level, NEW table, PrepareNew(level, table)
  PROVE  StepOK
<1> DEFINE txns == WithTransaction(level)
           fresh == [il |-> level, added |-> {}, deleted |-> {}, cursors |-> <<>>]
<1>1. Lists /\ Recent /\ Rest
  BY DEF IInv
<1>2. /\ Cardinality(DOMAIN transactions) < MaxTxn
      /\ next_transaction_id' = NextHandle
      /\ CreateCursor(txns, NextHandle, table)
      /\ UNCHANGED storeVars
  BY DEF PrepareNew
<1>3. NextHandle \in Handle /\ NextHandle \notin DOMAIN transactions
  <2>1. DOMAIN transactions \subseteq Handle /\ next_transaction_id \in Handle
    BY <1>1 DEF Lists, TxnsOK, Rest
  <2> QED
    BY <1>1, <1>2, <2>1, HandleIsNew
<1>4. fresh \in TransactionType /\ CursorsIn(fresh, DOMAIN rows)
  <2>1. /\ fresh.il = level /\ fresh.added = {} /\ fresh.deleted = {}
        /\ fresh.cursors = <<>>
    OBVIOUS
  <2>2. <<>> \in Seq(Position) /\ Len(<<>>) = 0 /\ 0 <= MaxCursor /\ DOMAIN <<>> = {}
    BY CellAssumption
  <2>3. fresh \in TransactionType
    BY <2>1, <2>2, TransactionIs
  <2> QED
    BY <2>1, <2>2, <2>3 DEF CursorsIn
<1>5. /\ DOMAIN txns = DOMAIN transactions \cup {NextHandle}
      /\ txns = [h \in DOMAIN txns |-> txns[h]]
      /\ txns[NextHandle] = fresh
      /\ \A h \in DOMAIN transactions : txns[h] = transactions[h]
  BY <1>3 DEF WithTransaction
<1>6. fresh.added = {}
  OBVIOUS
<1> HIDE DEF txns, fresh
<1>7. TxnsOK(txns, DOMAIN rows)
  BY <1>1, <1>3, <1>4, <1>5 DEF Lists, TxnsOK
<1>8. /\ TxnsOK(transactions', DOMAIN rows)
      /\ DOMAIN transactions' = DOMAIN txns
      /\ \A g \in DOMAIN txns : transactions'[g].added = txns[g].added
      /\ died' \in BOOLEAN /\ ExchangeOK'
  BY <1>1, <1>2, <1>3, <1>7, CursorCreated
<1>9. SameLists
  BY <1>3, <1>5, <1>6, <1>8 DEF SameLists
<1>10. Quiet
  BY <1>1, <1>2, <1>8, <1>9, PagesStay DEF Quiet, storeVars
<1>11. HandlesStep /\ Rest'
  BY <1>2, <1>3, <1>5, <1>8 DEF HandlesStep, Rest, ExchangeOK
<1> QED
  BY <1>10, <1>11 DEF StepOK

(* PREPARE for a transaction that is known.                                *)
LEMMA PrepareStep ==
  ASSUME IInv, NEW h \in Handle, NEW table, Prepare(h, table)
  PROVE  StepOK
<1>1. Lists /\ Recent /\ Rest /\ TxnsOK(transactions, DOMAIN rows)
  BY DEF IInv, Lists
<1>2. /\ CreateCursor(transactions, h, table)
      /\ UNCHANGED <<storeVars, next_transaction_id>>
  BY DEF Prepare
<1>3. /\ TxnsOK(transactions', DOMAIN rows)
      /\ DOMAIN transactions' = DOMAIN transactions
      /\ \A g \in DOMAIN transactions : transactions'[g].added = transactions[g].added
      /\ died' \in BOOLEAN /\ ExchangeOK'
  BY <1>1, <1>2, CursorCreated
<1>4. Quiet
  BY <1>1, <1>2, <1>3, PagesStay DEF Quiet, SameLists, storeVars
<1>5. HandlesStep /\ Rest'
  BY <1>1, <1>2, <1>3 DEF HandlesStep, Rest, ExchangeOK
<1> QED
  BY <1>4, <1>5 DEF StepOK

(* FETCH moves a cursor at most.                                           *)
LEMMA FetchStep ==
  ASSUME IInv, NEW h \in Handle, NEW cursor, Fetch(h, cursor)
  PROVE  StepOK
<1>1. Lists /\ Recent /\ Rest /\ TxnsOK(transactions, DOMAIN rows)
  BY DEF IInv, Lists
<1>2. UNCHANGED <<storeVars, next_transaction_id>>
  BY DEF Fetch
<1>3. CASE transactions' = transactions /\ died' \in BOOLEAN /\ ExchangeOK'
  <2>1. Quiet
    BY <1>1, <1>2, <1>3, PagesStay DEF Quiet, SameLists, TxnsOK, storeVars
  <2> QED
    BY <1>1, <1>2, <1>3, <2>1 DEF StepOK, HandlesStep, Rest, ExchangeOK
<1>4. CASE h \notin DOMAIN transactions
  <2>1. Answer("FETCH", h, 0) /\ UNCHANGED <<transactions, died>>
    BY <1>4 DEF Fetch
  <2> QED
    BY <1>1, <1>3, <2>1 DEF Answer, ExchangeOK, Rest
<1>5. CASE h \in DOMAIN transactions /\ cursor \notin DOMAIN transactions[h].cursors
  <2>1. died' = TRUE /\ exchange' = NoExchange /\ UNCHANGED transactions
    BY <1>5 DEF Fetch
  <2> QED
    BY <1>3, <2>1, NoExchangeOK DEF ExchangeOK
<1>6. CASE h \in DOMAIN transactions /\ cursor \in DOMAIN transactions[h].cursors
  <2> DEFINE txn == transactions[h]
  <2>1. PICK pos \in Settled(txn.cursors[cursor], txn.il) :
          /\ transactions' = MovedCursor(h, cursor, pos)
          /\ Answer("FETCH", h, Fetched(pos, txn.il))
          /\ UNCHANGED died
    BY <1>6 DEF Fetch
  <2>2. txn.cursors[cursor] \in DOMAIN rows \cup {End}
    BY <1>1, <1>6, TransactionTyped DEF CursorsIn
  <2>3. pos \in DOMAIN rows \cup {End}
    BY <2>1, <2>2, SettledRow
  <2>4. /\ TxnsOK(transactions', DOMAIN rows)
        /\ DOMAIN transactions' = DOMAIN transactions
        /\ SameLists
    BY <1>1, <1>6, <2>1, <2>3, CursorMoved
  <2>5. Quiet
    BY <1>1, <1>2, <2>4, PagesStay DEF Quiet, storeVars
  <2>6. Fetched(pos, txn.il) \in Nat
    <3>1. pos \in Nat
      BY <1>1, <1>6, <2>3, TransactionTyped, CellAssumption DEF End, RowId
    <3> QED
      BY <3>1 DEF Fetched
  <2>7. ExchangeOK'
    BY <2>1, <2>6 DEF Answer, ExchangeOK
  <2> QED
    BY <1>1, <1>2, <2>1, <2>4, <2>5, <2>7 DEF StepOK, HandlesStep, Rest, ExchangeOK
<1> QED
  BY <1>4, <1>5, <1>6

(* INSERT adds a row to the table and to the list, or to neither.          *)
LEMMA InsertStep ==
  ASSUME IInv, NEW h \in Handle, NEW known, NEW supplied,
         Insert(h, known, supplied)
  PROVE  StepOK
<1>1. Lists /\ Recent /\ Rest /\ TxnsOK(transactions, DOMAIN rows)
  BY DEF IInv, Lists
<1>2. next_transaction_id' = next_transaction_id
  BY DEF Insert
<1>3. CASE h \notin DOMAIN transactions \/ ~known
  <2>1. /\ UNCHANGED <<storeVars, transactions>>
        /\ \/ Answer("INSERT", h, 1) /\ UNCHANGED died
           \/ died' = TRUE /\ exchange' = NoExchange
    BY <1>3 DEF Insert
  <2>2. died' \in BOOLEAN /\ ExchangeOK'
    <3>1. CASE Answer("INSERT", h, 1) /\ UNCHANGED died
      BY <1>1, <3>1 DEF Answer, ExchangeOK, Rest
    <3>2. CASE died' = TRUE /\ exchange' = NoExchange
      BY <3>2, NoExchangeOK DEF ExchangeOK
    <3> QED
      BY <2>1, <3>1, <3>2
  <2>3. Quiet
    BY <1>1, <2>1, PagesStay DEF Quiet, SameLists, TxnsOK, storeVars
  <2> QED
    BY <1>1, <1>2, <2>1, <2>2, <2>3 DEF StepOK, HandlesStep, Rest, ExchangeOK
<1>4. CASE ~(h \notin DOMAIN transactions \/ ~known)
  <2>1. /\ TakeIds(Column, supplied)
        /\ rows' = IF InsertCode(Column, supplied) = "SUCCESS"
                     THEN RowsWith(rows, Inserted(TransactionId, Column)) ELSE rows
        /\ transactions' = [transactions EXCEPT ![h] = Recorded(@, supplied)]
        /\ Answer("INSERT", h, 1)
        /\ UNCHANGED died
    BY <1>4 DEF Insert
  <2>2. died' \in BOOLEAN /\ ExchangeOK'
    BY <1>1, <2>1 DEF Answer, ExchangeOK, Rest
  <2>3. /\ PagesGrow /\ row_id_generator + 1 \in RowId
        /\ InsertCode(Column, supplied) = "SUCCESS"
             => \A c \in Column : next_oid[c] \in stored'[c]
    BY <1>1, <2>1, TakenIds
  <2>4. CASE InsertCode(Column, supplied) # "SUCCESS"
    <3>1. rows' = rows /\ transactions' = transactions
      BY <1>1, <2>1, <2>4 DEF Recorded, TxnsOK
    <3>2. Quiet
      BY <1>1, <2>3, <3>1 DEF Quiet, SameLists, TxnsOK
    <3> QED
      BY <1>1, <1>2, <2>2, <3>1, <3>2 DEF StepOK, HandlesStep, Rest, ExchangeOK
  <2>5. CASE InsertCode(Column, supplied) = "SUCCESS"
    <3> DEFINE n == row_id_generator + 1
               new == Inserted(TransactionId, Column)
               txn == [transactions[h] EXCEPT !.added = @ \cup {n}]
    <3>1. /\ transactions[h] \in TransactionType
          /\ CursorsIn(transactions[h], DOMAIN rows)
      BY <1>1, <1>4, TransactionTyped
    <3>2. /\ txn \in TransactionType
          /\ txn.added = transactions[h].added \cup {n}
          /\ CursorsIn(txn, DOMAIN rows \cup {n})
      BY <2>3, <3>1, Recording
    <3>3. transactions' = [transactions EXCEPT ![h] = txn]
      BY <2>1, <2>5 DEF Recorded
    <3>4. /\ new \in Rows /\ ~new.committed
          /\ \A c \in Column : new.column_oids[c] = next_oid[c]
      <4>1. next_oid \in [Column -> Nat \ {0}]
        BY <1>1, StoreIs DEF Lists
      <4> QED
        BY <4>1, NewRowIs
    <3>5. rows' = RowsWith(rows, new)
      BY <2>1, <2>5
    <3>6. \A c \in Column : new.column_oids[c] \in stored'[c]
      BY <2>3, <2>5, <3>4
    <3> HIDE DEF new, txn
    <3>7. Adds(h)
      BY <1>1, <1>4, <2>1, <3>2, <3>3, <3>4, <3>5, <3>6, RowAdded
    <3>8. DOMAIN transactions' = DOMAIN transactions
      BY <3>7 DEF Adds
    <3> QED
      BY <1>1, <1>2, <1>4, <2>2, <3>7, <3>8
        DEF StepOK, HandlesStep, Rest, ExchangeOK
  <2> QED
    BY <2>4, <2>5
<1> QED
  BY <1>3, <1>4

(* So does an update, which also moves the cursor.                         *)
LEMMA UpdateStep ==
  ASSUME IInv, NEW h \in Handle, NEW cursor, NEW present \in SUBSET Column,
         NEW supplied, UpdateColumns(h, cursor, present, supplied)
  PROVE  StepOK
<1> DEFINE old == transactions[h]
<1>1. Lists /\ Recent /\ Rest /\ TxnsOK(transactions, DOMAIN rows)
  BY DEF IInv, Lists
<1>2. /\ h \in DOMAIN transactions /\ cursor \in DOMAIN old.cursors
      /\ exchange' = NoExchange
      /\ UNCHANGED <<next_transaction_id, died>>
  BY DEF UpdateColumns
<1>3. Rest'
  BY <1>1, <1>2, NoExchangeOK DEF Rest
<1>4. PICK pos \in Settled(old.cursors[cursor], old.il) :
        IF pos = End \/ ~MayLock(rows[pos], TransactionId)
          THEN /\ transactions' = MovedCursor(h, cursor, pos)
               /\ UNCHANGED storeVars
          ELSE /\ TakeIds(present, supplied)
               /\ rows' = UpdatedRows(TransactionId, pos, present, supplied)
               /\ transactions' =
                    IF InsertCode(present, supplied) = "SUCCESS"
                      THEN [transactions EXCEPT ![h] = Replaced(@, cursor)]
                      ELSE MovedCursor(h, cursor, pos)
  BY DEF UpdateColumns
<1>5. /\ old \in TransactionType /\ CursorsIn(old, DOMAIN rows)
      /\ DOMAIN rows \subseteq RowId
  BY <1>1, <1>2, TransactionTyped
<1>6. pos \in DOMAIN rows \cup {End}
  <2>1. old.cursors[cursor] \in DOMAIN rows \cup {End}
    BY <1>2, <1>5 DEF CursorsIn
  <2> QED
    BY <2>1, <1>4, SettledRow
<1>7. ASSUME transactions' = MovedCursor(h, cursor, pos), rows' = rows, PagesGrow
      PROVE  StepOK
  <2>1. /\ TxnsOK(transactions', DOMAIN rows)
        /\ DOMAIN transactions' = DOMAIN transactions
        /\ SameLists
    BY <1>1, <1>2, <1>6, <1>7, CursorMoved
  <2> QED
    BY <1>2, <1>3, <1>7, <2>1 DEF StepOK, Quiet, HandlesStep
<1>8. CASE pos = End \/ ~MayLock(rows[pos], TransactionId)
  <2>1. transactions' = MovedCursor(h, cursor, pos) /\ UNCHANGED storeVars
    BY <1>4, <1>8
  <2>2. rows' = rows /\ PagesGrow
    BY <1>1, <2>1, PagesStay DEF storeVars
  <2> QED
    BY <1>7, <2>1, <2>2
<1>9. CASE ~(pos = End \/ ~MayLock(rows[pos], TransactionId))
  <2> DEFINE older == rows[pos]
             newer == Update(Inserted(TransactionId, present), TransactionId,
                             present, older)
             n == row_id_generator + 1
  <2>1. /\ TakeIds(present, supplied)
        /\ rows' = UpdatedRows(TransactionId, pos, present, supplied)
        /\ transactions' =
             IF InsertCode(present, supplied) = "SUCCESS"
               THEN [transactions EXCEPT ![h] = Replaced(@, cursor)]
               ELSE MovedCursor(h, cursor, pos)
    BY <1>4, <1>9
  <2>2. pos \in DOMAIN rows /\ older \in Rows
        /\ rows = [r \in DOMAIN rows |-> rows[r]]
    BY <1>1, <1>6, <1>9, StoreIs DEF Lists
  <2>3. Lock(older, TransactionId) = older /\ Remove(older, TransactionId) = older
    BY <2>2, OpenRow
  <2>4. [rows EXCEPT ![pos] = older] = rows
    BY <2>2
  <2>5. rows' = IF InsertCode(present, supplied) = "SUCCESS"
                  THEN RowsWith(rows, newer) ELSE rows
    BY <2>1, <2>3, <2>4 DEF UpdatedRows
  <2>6. /\ PagesGrow /\ n \in RowId
        /\ \A c \in Column : stored[c] \subseteq stored'[c]
        /\ InsertCode(present, supplied) = "SUCCESS"
             => \A c \in present : next_oid[c] \in stored'[c]
    BY <1>1, <2>1, TakenIds DEF PagesGrow
  <2>7. CASE InsertCode(present, supplied) # "SUCCESS"
    BY <1>7, <2>1, <2>5, <2>6, <2>7
  <2>8. CASE InsertCode(present, supplied) = "SUCCESS"
    <3> DEFINE txn == Replaced(old, cursor)
    <3>1. /\ txn \in TransactionType
          /\ txn.added = old.added \cup {n}
          /\ CursorsIn(txn, DOMAIN rows \cup {n})
      BY <1>2, <1>5, <2>6, Replacing
    <3>2. transactions' = [transactions EXCEPT ![h] = txn]
      BY <2>1, <2>8
    <3>3. /\ newer \in Rows /\ ~newer.committed
          /\ \A c \in Column : newer.column_oids[c] =
               IF c \in present THEN next_oid[c] ELSE older.column_oids[c]
      <4>1. next_oid \in [Column -> Nat \ {0}]
        BY <1>1, StoreIs DEF Lists
      <4> QED
        BY <4>1, <2>2, UpdatedRow
    <3>4. \A c \in Column : newer.column_oids[c] \in stored'[c]
      <4>1. \A c \in Column : older.column_oids[c] \in stored[c]
        BY <1>1, <2>2 DEF Lists, Whole
      <4> QED
        BY <4>1, <3>3, <2>6, <2>8
    <3>5. rows' = RowsWith(rows, newer)
      BY <2>5, <2>8
    <3> HIDE DEF newer, txn
    <3>6. Adds(h)
      BY <1>1, <1>2, <2>1, <3>1, <3>2, <3>3, <3>4, <3>5, RowAdded
    <3>7. DOMAIN transactions' = DOMAIN transactions
      BY <3>6 DEF Adds
    <3> QED
      BY <1>2, <1>3, <3>6, <3>7 DEF StepOK, HandlesStep
  <2> QED
    BY <2>7, <2>8
<1> QED
  BY <1>8, <1>9

(* commit of a transaction commits the rows of its list.                   *)
LEMMA CommitTransactionStep ==
  ASSUME IInv, NEW h \in Handle, CommitTransaction(h)
  PROVE  StepOK
<1>1. Lists /\ Rest
  BY DEF IInv
<1>2. /\ h \in DOMAIN transactions /\ exchange' = NoExchange
      /\ UNCHANGED <<row_id_generator, pageVars, transactions,
                     next_transaction_id, died>>
      /\ rows' = [r \in DOMAIN rows |->
                    IF r \in transactions[h].added
                      THEN Commit(rows[r], TransactionId) ELSE rows[r]]
  BY DEF CommitTransaction, cellVars, ToCommit
<1>3. ASSUME NEW r \in DOMAIN rows
      PROVE  /\ rows'[r] \in Rows
             /\ rows'[r].column_oids = rows[r].column_oids
             /\ rows'[r].committed
                  <=> rows[r].committed \/ r \in transactions[h].added
  <2>1. rows[r] \in Rows
    BY <1>1, StoreIs DEF Lists
  <2>2. CASE r \in transactions[h].added
    <3>1. rows'[r] = Commit(rows[r], TransactionId)
      BY <1>2, <2>2
    <3> QED
      BY <2>1, <2>2, <3>1, CommittedRow
  <2>3. CASE r \notin transactions[h].added
    BY <1>2, <2>1, <2>3
  <2> QED
    BY <2>2, <2>3
<1>4. DOMAIN rows' = DOMAIN rows /\ rows' = [r \in DOMAIN rows |-> rows'[r]]
  BY <1>2
<1>5. Commits(h)
  BY <1>2, <1>3, <1>4 DEF Commits
<1>6. Rest'
  BY <1>1, <1>2, NoExchangeOK DEF Rest
<1> QED
  BY <1>2, <1>5, <1>6 DEF StepOK, HandlesStep

(* All actions.                                                            *)
LEMMA EachStep == IInv /\ [Next]_vars => StepOK
<1> SUFFICES ASSUME IInv, [Next]_vars PROVE StepOK
  OBVIOUS
<1>1. CASE UNCHANGED vars
  <2>1. Lists /\ Rest /\ TxnsOK(transactions, DOMAIN rows)
    BY DEF IInv, Lists
  <2>2. UNCHANGED <<rows, row_id_generator, pageVars, transactions,
                    next_transaction_id, died, exchange>>
    BY <1>1 DEF vars, storeVars, cellVars
  <2>3. Quiet
    BY <2>1, <2>2, PagesStay DEF Quiet, SameLists, TxnsOK
  <2> QED
    BY <2>1, <2>2, <2>3 DEF StepOK, HandlesStep, Rest
<1>2. ASSUME NEW level \in Level, NEW table, PrepareNew(level, table)
      PROVE  StepOK
  BY <1>2, PrepareNewStep
<1>3. ASSUME NEW h \in Handle, NEW table, Prepare(h, table) PROVE StepOK
  BY <1>3, PrepareStep
<1>4. ASSUME NEW h \in Handle, NEW known, NEW supplied, Insert(h, known, supplied)
      PROVE  StepOK
  BY <1>4, InsertStep
<1>5. ASSUME NEW h \in Handle, NEW cursor, Fetch(h, cursor) PROVE StepOK
  BY <1>5, FetchStep
<1>6. ASSUME NEW h \in Handle, NEW cursor, NEW present \in SUBSET Column,
             NEW supplied, UpdateColumns(h, cursor, present, supplied)
      PROVE  StepOK
  BY <1>6, UpdateStep
<1>7. ASSUME NEW h \in Handle, CommitTransaction(h) PROVE StepOK
  BY <1>7, CommitTransactionStep
<1> QED
  BY <1>1, <1>2, <1>3, <1>4, <1>5, <1>6, <1>7 DEF Next

-----------------------------------------------------------------------------
(***************************************************************************)
(* The theorems.                                                           *)
(***************************************************************************)
(* An empty cell satisfies the invariant, whatever the counter holds.      *)
LEMMA Initially == Init => IInv
<1> SUFFICES ASSUME Init PROVE IInv
  OBVIOUS
<1>1. DOMAIN rows = {} /\ DOMAIN transactions = {}
  BY DEF Init, StoreInit
<1>2. rows = [r \in DOMAIN rows |-> rows[r]]
      /\ transactions = [h \in DOMAIN transactions |-> transactions[h]]
  BY DEF Init, StoreInit
<1>3. /\ row_id_generator \in 0..MaxRow
      /\ next_oid \in [Column -> Nat \ {0}] /\ stored \in [Column -> SUBSET Oid]
  BY CellAssumption DEF Init, StoreInit
<1>4. StoreTypeOK({})
  BY <1>1, <1>2, <1>3, StoreIs
<1>5. Whole /\ TxnsOK(transactions, DOMAIN rows) /\ AddedExactlyOnce /\ Recent
  BY <1>1, <1>2 DEF Whole, TxnsOK, AddedExactlyOnce, Recent
<1>6. Rest
  BY NoExchangeOK DEF Init, Rest
<1> QED
  BY <1>4, <1>5, <1>6 DEF IInv, Lists

(* Every reachable state satisfies the invariant.                          *)
THEOREM Invariance == Spec => []IInv
<1>1. IInv /\ [Next]_vars => IInv'
  <2> SUFFICES ASSUME IInv, [Next]_vars PROVE IInv'
    OBVIOUS
  <2>1. StepOK
    BY EachStep
  <2>2. Lists /\ Recent /\ Rest
    BY DEF IInv
  <2>3. Lists'
    BY <2>1, <2>2, QuietStep, AddStep, CommitStep DEF StepOK
  <2>4. Recent'
    BY <2>1, <2>2, RecentStep DEF StepOK, HandlesStep
  <2> QED
    BY <2>1, <2>3, <2>4 DEF IInv, StepOK
<1> QED
  BY Initially, <1>1, PTL DEF Spec

(* The cell is well typed, whatever its clients ask for.                   *)
THEOREM TypeCorrect == Spec => []TypeOK
<1>1. IInv => TypeOK
  BY DEF IInv, Lists, Rest, TxnsOK, TypeOK
<1> QED
  BY Invariance, <1>1, PTL

(* Every row is in the list of exactly one transaction, so that commit     *)
(* finds it and no other commit does; handles may wrap.                    *)
THEOREM ListedOnce == Spec => []AddedExactlyOnce
<1>1. IInv => AddedExactlyOnce
  BY DEF IInv, Lists
<1> QED
  BY Invariance, <1>1, PTL

(* A cursor that is not at the end is at a row that can be fetched.        *)
THEOREM CursorsFetch == Spec => []EveryCursorFetches
<1>1. IInv => EveryCursorFetches
  <2> SUFFICES ASSUME IInv, NEW h \in DOMAIN transactions,
                      NEW cursor \in DOMAIN transactions[h].cursors,
                      transactions[h].cursors[cursor] # End
               PROVE  FetchCode(TransactionId, transactions[h].cursors[cursor],
                                Column, transactions[h].il) = "SUCCESS"
    BY DEF EveryCursorFetches
  <2> DEFINE pos == transactions[h].cursors[cursor]
  <2>1. Lists
    BY DEF IInv
  <2>2. pos \in DOMAIN rows
    BY <2>1, TransactionTyped DEF CursorsIn
  <2>3. rows[pos] \in Rows
    BY <2>1, <2>2, StoreIs DEF Lists
  <2>4. transactions[h].il \in IsolationLevel
    BY <2>1, TransactionTyped, TransactionIs, CellAssumption
  <2>5. RowIsVisible(rows[pos], TransactionId, transactions[h].il)
    BY <2>3, <2>4, OpenRow
  <2>6. \A c \in Column : rows[pos].column_oids[c] \in stored[c]
    BY <2>1, <2>2 DEF Lists, Whole
  <2> HIDE DEF pos
  <2>7. FetchCode(TransactionId, pos, Column, transactions[h].il) = "SUCCESS"
    BY <2>2, <2>5, <2>6 DEF FetchCode
  <2> QED
    BY <2>7 DEF pos
<1> QED
  BY Invariance, <1>1, PTL

-----------------------------------------------------------------------------
(***************************************************************************)
(* The transaction log a cell is.                                          *)
(***************************************************************************)
Owners == [r \in DOMAIN rows |-> OwnerOf(r)]
Committed == {r \in DOMAIN rows : rows[r].committed}

(* The owner of a row is the one transaction that has it in its list.      *)
LEMMA OwnerIs ==
  AddedExactlyOnce =>
    /\ \A h \in DOMAIN transactions : \A r \in transactions[h].added :
         r \in DOMAIN rows /\ OwnerOf(r) = h
    /\ \A r \in DOMAIN rows :
         /\ OwnerOf(r) \in DOMAIN transactions
         /\ r \in transactions[OwnerOf(r)].added
<1> SUFFICES ASSUME AddedExactlyOnce
             PROVE  /\ \A h \in DOMAIN transactions : \A r \in transactions[h].added :
                         r \in DOMAIN rows /\ OwnerOf(r) = h
                    /\ \A r \in DOMAIN rows :
                         /\ OwnerOf(r) \in DOMAIN transactions
                         /\ r \in transactions[OwnerOf(r)].added
  OBVIOUS
<1>1. ASSUME NEW h \in DOMAIN transactions, NEW r \in transactions[h].added
      PROVE  r \in DOMAIN rows /\ OwnerOf(r) = h
  <2>1. r \in DOMAIN rows
    BY DEF AddedExactlyOnce
  <2>2. \A g \in DOMAIN transactions : r \in transactions[g].added => g = h
    BY DEF AddedExactlyOnce
  <2> QED
    BY <2>1, <2>2 DEF OwnerOf
<1>2. ASSUME NEW r \in DOMAIN rows
      PROVE  /\ OwnerOf(r) \in DOMAIN transactions
             /\ r \in transactions[OwnerOf(r)].added
  <2>1. \E h \in DOMAIN transactions : r \in transactions[h].added
    BY DEF AddedExactlyOnce
  <2> QED
    BY <2>1 DEF OwnerOf
<1> QED
  BY <1>1, <1>2

(* The same after a step.                                                  *)
LEMMA OwnerNext ==
  (AddedExactlyOnce =>
    /\ \A h \in DOMAIN transactions : \A r \in transactions[h].added :
         r \in DOMAIN rows /\ OwnerOf(r) = h
    /\ \A r \in DOMAIN rows :
         /\ OwnerOf(r) \in DOMAIN transactions
         /\ r \in transactions[OwnerOf(r)].added)'
  BY OwnerIs, PTL

(* Each step of a cell is one of the log, or none.                         *)
LEMMA LogStep ==
  ASSUME IInv, IInv', StepOK
  PROVE  [Log!Next]_(Log!vars)
<1>1. AddedExactlyOnce /\ AddedExactlyOnce'
  BY DEF IInv, Lists
<1>2. DOMAIN transactions \subseteq Handle
  BY DEF IInv, Lists, TxnsOK
<1>3. ASSUME NEW r \in DOMAIN rows, NEW h \in DOMAIN transactions',
             r \in transactions'[h].added
      PROVE  OwnerOf(r)' = h
  BY <1>1, <1>3, OwnerNext
<1>4. CASE Quiet
  <2>1. Committed' = Committed /\ DOMAIN rows' = DOMAIN rows
    BY <1>4 DEF Quiet, Committed
  <2>2. ASSUME NEW r \in DOMAIN rows PROVE OwnerOf(r)' = OwnerOf(r)
    <3>1. /\ OwnerOf(r) \in DOMAIN transactions
          /\ r \in transactions[OwnerOf(r)].added
      BY <1>1, OwnerIs
    <3>2. /\ OwnerOf(r) \in DOMAIN transactions'
          /\ r \in transactions'[OwnerOf(r)].added
      BY <1>4, <3>1 DEF Quiet, SameLists
    <3> QED
      BY <1>3, <3>2
  <2>3. Owners' = Owners
    BY <2>1, <2>2 DEF Owners
  <2> QED
    BY <2>1, <2>3 DEF Log!vars, Owners, Committed
<1>5. ASSUME NEW h \in DOMAIN transactions, Adds(h)
      PROVE  Log!Next
  <2> DEFINE n == row_id_generator + 1
  <2>1. /\ n \notin DOMAIN rows /\ DOMAIN rows' = DOMAIN rows \cup {n}
        /\ \A r \in DOMAIN rows : rows'[r] = rows[r]
        /\ ~rows'[n].committed
        /\ DOMAIN transactions' = DOMAIN transactions
        /\ \A g \in DOMAIN transactions :
             transactions'[g].added =
               IF g = h THEN transactions[h].added \cup {n}
               ELSE transactions[g].added
    BY <1>5 DEF Adds
  <2>2. n \in RowId
    <3>1. DOMAIN rows' \subseteq RowId
      <4>1. (DOMAIN rows \subseteq 1..row_id_generator
               /\ row_id_generator \in 0..MaxRow)'
        BY StoreNext DEF IInv, Lists
      <4> QED
        BY <4>1, CellAssumption DEF RowId
    <3> QED
      BY <3>1, <2>1
  <2> HIDE DEF n
  <2>3. Committed' = Committed
    BY <2>1 DEF Committed
  <2>4. ASSUME NEW r \in DOMAIN rows PROVE OwnerOf(r)' = OwnerOf(r)
    <3>1. /\ OwnerOf(r) \in DOMAIN transactions
          /\ r \in transactions[OwnerOf(r)].added
      BY <1>1, OwnerIs
    <3> QED
      BY <1>3, <2>1, <3>1
  <2>5. ASSUME NEW r, r = n PROVE OwnerOf(r)' = h
    <3>1. r \in transactions'[h].added
      BY <2>1, <2>5
    <3> QED
      BY <3>1, <2>1, <1>1, OwnerNext
  <2>6. Owners' = [s \in DOMAIN Owners \cup {n} |-> IF s = n THEN h ELSE Owners[s]]
    BY <2>1, <2>4, <2>5 DEF Owners
  <2>7. n \notin DOMAIN Owners
    BY <2>1 DEF Owners
  <2>8. Log!Add(h, n)
    BY <2>3, <2>6, <2>7 DEF Log!Add, Owners, Committed
  <2> QED
    BY <1>2, <2>2, <2>8 DEF Log!Next
<1>6. ASSUME NEW h \in DOMAIN transactions, Commits(h)
      PROVE  Log!Next
  <2>1. /\ transactions' = transactions /\ DOMAIN rows' = DOMAIN rows
        /\ \A r \in DOMAIN rows : rows'[r].committed <=>
             rows[r].committed \/ r \in transactions[h].added
    BY <1>6 DEF Commits
  <2>2. \A r \in DOMAIN rows : OwnerOf(r) = h <=> r \in transactions[h].added
    BY <1>1, OwnerIs
  <2>3. Committed' = Committed \cup {r \in DOMAIN Owners : Owners[r] = h}
    BY <2>1, <2>2 DEF Committed, Owners
  <2>4. Owners' = Owners
    BY <2>1 DEF Owners, OwnerOf
  <2>5. Log!CommitAll(h)
    BY <2>3, <2>4 DEF Log!CommitAll, Owners, Committed
  <2> QED
    BY <1>2, <2>5 DEF Log!Next
<1> QED
  BY <1>4, <1>5, <1>6 DEF StepOK

(* Rows are committed by commit of the transaction that added them, all of *)
(* them at once, and by nothing else.                                      *)
THEOREM IsTransactionLog == Spec => ImplementsTransactionLog
<1>1. Init => Log!Init
  <2> SUFFICES ASSUME Init PROVE Log!Init
    OBVIOUS
  <2>1. DOMAIN rows = {}
    BY DEF Init, StoreInit
  <2> QED
    BY <2>1 DEF Log!Init
<1>2. IInv /\ IInv' /\ [Next]_vars => [Log!Next]_(Log!vars)
  BY LogStep, EachStep
<1> QED
  BY Invariance, <1>1, <1>2, PTL DEF Spec, ImplementsTransactionLog, Log!Spec
=============================================================================
