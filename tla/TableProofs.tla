---------------------------- MODULE TableProofs ------------------------------
(***************************************************************************)
(* What the runs of Table check for two transactions and three insertions, *)
(* for any number of transactions, rows and columns, with or without a     *)
(* lock manager.                                                           *)
(*                                                                         *)
(* Most of it rests on one fact about single rows: a row that is not       *)
(* committed is locked by its writer, so that whoever else calls finds it  *)
(* locked.  Together with the types and with OidsStored that is inductive. *)
(* Two more invariants follow from it in turn: LmKnows, what the lock      *)
(* manager knows of those that run, and Descent, from which insertion each *)
(* value of a row comes.                                                   *)
(***************************************************************************)
EXTENDS Table, FiniteSetTheorems, TLAPS

Rows == RowType(TxnId, Column, Oid)

(* Every object id in a row but 0 is held by the page of its column.       *)
OidsStored ==
  \A r \in DOMAIN rows, c \in Column :
    rows[r].column_oids[c] # 0 => rows[r].column_oids[c] \in stored[c]

IInv == TypeOK /\ UncommittedIsLockedByWriter /\ OidsStored

-----------------------------------------------------------------------------
(***************************************************************************)
(* The operations of a row.                                                *)
(***************************************************************************)

(* lock gives a row that may be locked to the caller, and nothing else.    *)
LEMMA LockedRow ==
  ASSUME NEW row \in Rows, NEW t \in TxnId, MayLock(row, t)
  PROVE  /\ Lock(row, t) \in Rows
         /\ Lock(row, t).transaction_lock_id = t
         /\ Lock(row, t).committed = row.committed
         /\ Lock(row, t).column_oids = row.column_oids
  BY DEF Lock, MayLock, IsLocked, Rows, RowType

(* commit keeps the data of a row and never takes committed back; a row    *)
(* that somebody else has locked stays as it is.                           *)
LEMMA CommittedRow ==
  ASSUME NEW row \in Rows, NEW t \in TxnId
  PROVE  /\ Commit(row, t) \in Rows
         /\ Commit(row, t).column_oids = row.column_oids
         /\ row.committed => Commit(row, t).committed
         /\ ~Commit(row, t).committed => Commit(row, t) = row
         /\ IsLocked(row, t) => Commit(row, t) = row
  BY DEF Commit, Unlock, MayUnlock, IsLocked, Rows, RowType

(* A new row is its writer's, who may fill in columns of an older one.     *)
LEMMA UpdatedRow ==
  ASSUME NEW t \in TxnId, NEW present, NEW older, NEW oids,
         older \in Rows, oids \in [Column -> Oid]
  PROVE  LET new == Update(NewRow(t, oids), t, present, older)
         IN  /\ new \in Rows
             /\ new.transaction_lock_id = t
             /\ \A c \in Column : new.column_oids[c] =
                  IF c \in present THEN oids[c] ELSE older.column_oids[c]
  BY DEF NewRow, Update, IsLocked, Rows, RowType

(* remove leaves a row alone that its caller has locked.                   *)
LEMMA RemovedRow ==
  ASSUME NEW row, NEW t, row.transaction_lock_id = t
  PROVE  Remove(row, t) = row
  BY DEF Remove, IsLocked

-----------------------------------------------------------------------------
(***************************************************************************)
(* The lock manager keeps its types.                                       *)
(***************************************************************************)
(* A report of fetch_row or update_row leaves the lock manager typed.      *)
LEMMA LmTypeTrack ==
  ASSUME LmTypeOK, NEW t \in TxnId, NEW tbl \in TableId, NEW rid \in RowId,
         TrackRead(t, tbl, rid) \/ TrackWrite(t, tbl, rid)
  PROVE  LmTypeOK'
<1> USE DEF LmTypeOK
<1>1. <<tbl, rid>> \in TableId \X RowId
  OBVIOUS
<1>2. CASE AddTransactionFaults(t)
  BY <1>2 DEF AddTransactionFaults
<1>3. CASE AddTransaction(t) /\ range_map' = [range_map EXCEPT ![t] = @ \cup {<<tbl, rid>>}]
             /\ UNCHANGED dep_map
  BY <1>1, <1>3 DEF AddTransaction
<1>4. CASE AddTransaction(t) /\ UNCHANGED range_map
             /\ dep_map' = [r \in TxnId |->
                      IF r \in OtherReaders(t, tbl, rid)
                        THEN dep_map[r] \cup {t} ELSE dep_map[r]]
  BY <1>4 DEF AddTransaction
<1> QED
  BY <1>2, <1>3, <1>4 DEF TrackRead, TrackWrite

(* The tear-down at the end of a transaction leaves it typed.              *)
LEMMA LmTypeCollect ==
  ASSUME LmTypeOK, NEW t \in TxnId, Collect(t)
  PROVE  LmTypeOK'
<1> USE DEF LmTypeOK
<1>1. CASE active_transactions' = {}
  <2> DEFINE none == [u \in {} |-> {}]
  <2>1. concurrent_transactions' = none
    BY <1>1 DEF Collect
  <2>2. DOMAIN none = {} /\ none \in [{} -> SUBSET TxnId]
    OBVIOUS
  <2>3. /\ DOMAIN concurrent_transactions' \subseteq TxnId
        /\ concurrent_transactions' \in
             [DOMAIN concurrent_transactions' -> SUBSET TxnId]
    <3> HIDE DEF none
    <3> QED BY <2>1, <2>2
  <2> QED
    BY <1>1, <2>3 DEF Collect
<1>2. CASE active_transactions' # {}
  <2>1. range_map' \in [TxnId -> SUBSET (TableId \X RowId)]
    BY <1>2 DEF Collect, DelTransaction
  <2>2. /\ DOMAIN concurrent_transactions' \subseteq TxnId
        /\ concurrent_transactions' \in
             [DOMAIN concurrent_transactions' -> SUBSET TxnId]
    BY <1>2 DEF Collect, DelTransaction, Emptied
  <2> QED
    BY <1>2, <2>1, <2>2 DEF Collect
<1> QED
  BY <1>1, <1>2

-----------------------------------------------------------------------------
(***************************************************************************)
(* Types and row locks: one lemma for each call.                           *)
(***************************************************************************)
(* The invariant holds of the empty table.                                 *)
LEMMA InitIInv == Init => IInv
<1> SUFFICES ASSUME Init PROVE IInv
  OBVIOUS
<1>1. LmTypeOK
  BY DEF Init, StoreInit, LmInit, LmTypeOK
<1>2. row_id_generator \in 0..MaxRow /\ next_oid \in [Column -> Nat \ {0}]
      /\ stored \in [Column -> SUBSET Oid] /\ finished \subseteq TxnId
      /\ fetched \in [TxnId -> SUBSET RowId]
      /\ call \in [by : TxnId \cup {NoId}, tracked : BOOLEAN]
  BY TableAssumption DEF Init, StoreInit, Oid
<1>3. DOMAIN rows = {} /\ DOMAIN origin = {}
  BY DEF Init, StoreInit
<1>4. rows \in [DOMAIN rows -> Rows]
      /\ origin \in [DOMAIN rows -> [by : TxnId, from : RowId \cup {0}]]
  <2> DEFINE none == [r \in {} |-> {}]
  <2>1. rows = none /\ origin = none
    BY DEF Init, StoreInit
  <2>2. DOMAIN none = {} /\ none \in [{} -> Rows]
        /\ none \in [{} -> [by : TxnId, from : RowId \cup {0}]]
    OBVIOUS
  <2> HIDE DEF none
  <2> QED BY <2>1, <2>2
<1> QED
  BY <1>1, <1>2, <1>3, <1>4 DEF IInv, TypeOK, StoreTypeOK, UncommittedIsLockedByWriter,
                                OidsStored, Rows

(* The row that an insertion adds is new, and what it holds is typed.      *)
LEMMA TakenIds ==
  ASSUME IInv, NEW present \in SUBSET Column, NEW supplied \in Nat,
         TakeIds(present, supplied)
  PROVE  /\ row_id_generator' \in 0..MaxRow
         /\ row_id_generator' = row_id_generator + 1
         /\ row_id_generator + 1 \notin DOMAIN rows
         /\ DOMAIN rows \subseteq 1..row_id_generator'
         /\ next_oid' \in [Column -> Nat \ {0}]
         /\ stored' \in [Column -> SUBSET Oid]
         /\ \A c \in Column : stored[c] \subseteq stored'[c]
         /\ InsertCode(present, supplied) = "SUCCESS"
              => \A c \in present : next_oid[c] \in stored'[c]
<1> USE TableAssumption DEF IInv, TypeOK, StoreTypeOK, TakeIds
<1>1. /\ row_id_generator' \in 0..MaxRow
      /\ row_id_generator' = row_id_generator + 1
      /\ row_id_generator + 1 \notin DOMAIN rows
      /\ DOMAIN rows \subseteq 1..row_id_generator'
  OBVIOUS
<1>2. /\ next_oid' \in [Column -> Nat \ {0}]
      /\ stored' \in [Column -> SUBSET Oid]
      /\ \A c \in Column : stored[c] \subseteq stored'[c]
  BY DEF Oid
<1>3. ASSUME InsertCode(present, supplied) = "SUCCESS", NEW c \in present
      PROVE  next_oid[c] \in stored'[c]
  <2>1. Stops(present, supplied) = {}
    BY <1>3 DEF InsertCode
  <2>2. c \in Stored(present, supplied)
    BY <1>3, <2>1 DEF Stored, Reached
  <2> QED
    BY <2>2
<1> QED
  BY <1>1, <1>2, <1>3

(* Adding a row, typed, locked by its inserter and with stored values, to  *)
(* rows that satisfy the invariant.                                        *)
LEMMA AddedRow ==
  ASSUME IInv, NEW t \in TxnId, NEW from \in RowId \cup {0},
         NEW present \in SUBSET Column, NEW supplied \in Nat,
         TakeIds(present, supplied),
         NEW new \in Rows, new.transaction_lock_id = t,
         \A c \in Column : new.column_oids[c] # 0 => new.column_oids[c] \in stored'[c],
         rows' = RowsWith(rows, new), origin' = OriginWith(t, from)
  PROVE  /\ DOMAIN rows' = DOMAIN rows \cup {row_id_generator + 1}
         /\ \A r \in DOMAIN rows : rows'[r] = rows[r] /\ origin'[r] = origin[r]
         /\ rows'[row_id_generator + 1] = new
         /\ origin'[row_id_generator + 1] = [by |-> t, from |-> from]
         /\ DOMAIN rows' \subseteq 1..row_id_generator'
         /\ rows' \in [DOMAIN rows' -> Rows]
         /\ DOMAIN origin' = DOMAIN rows'
         /\ origin' \in [DOMAIN rows' -> [by : TxnId, from : RowId \cup {0}]]
         /\ UncommittedIsLockedByWriter'
         /\ OidsStored'
<1> DEFINE n == row_id_generator + 1
<1>1. n \notin DOMAIN rows /\ DOMAIN rows \subseteq 1..row_id_generator'
      /\ n \in 1..row_id_generator'
      /\ \A c \in Column : stored[c] \subseteq stored'[c]
  <2>1. /\ n \notin DOMAIN rows /\ DOMAIN rows \subseteq 1..row_id_generator'
        /\ row_id_generator' = n
        /\ \A c \in Column : stored[c] \subseteq stored'[c]
    BY TakenIds
  <2>2. n \in 1..n
    BY TableAssumption DEF IInv, TypeOK, StoreTypeOK
  <2> QED
    BY <2>1, <2>2
<1>2. /\ rows \in [DOMAIN rows -> Rows] /\ DOMAIN origin = DOMAIN rows
      /\ origin \in [DOMAIN rows -> [by : TxnId, from : RowId \cup {0}]]
  BY DEF IInv, TypeOK, StoreTypeOK, Rows
<1>3. /\ DOMAIN rows' = DOMAIN rows \cup {n}
      /\ DOMAIN origin' = DOMAIN rows \cup {n}
      /\ \A r \in DOMAIN rows : rows'[r] = rows[r] /\ origin'[r] = origin[r]
      /\ rows'[n] = new /\ origin'[n] = [by |-> t, from |-> from]
  BY <1>1, <1>2 DEF RowsWith, OriginWith
<1>4. /\ rows' \in [DOMAIN rows' -> Rows]
      /\ origin' \in [DOMAIN rows' -> [by : TxnId, from : RowId \cup {0}]]
  BY <1>2 DEF RowsWith, OriginWith
<1> HIDE DEF n
<1>5. UncommittedIsLockedByWriter'
  BY <1>1, <1>3 DEF IInv, UncommittedIsLockedByWriter
<1>6. OidsStored'
  <2> SUFFICES ASSUME NEW r \in DOMAIN rows', NEW c \in Column,
                      rows'[r].column_oids[c] # 0
               PROVE  rows'[r].column_oids[c] \in stored'[c]
    BY DEF OidsStored
  <2>1. CASE r = n
    BY <1>3, <2>1
  <2>2. CASE r \in DOMAIN rows
    BY <1>1, <1>3, <2>2 DEF IInv, OidsStored
  <2> QED
    BY <1>3, <2>1, <2>2
<1>7. DOMAIN rows' \subseteq 1..row_id_generator' /\ DOMAIN origin' = DOMAIN rows'
  BY <1>1, <1>3
<1>8. /\ DOMAIN rows' = DOMAIN rows \cup {row_id_generator + 1}
      /\ rows'[row_id_generator + 1] = new
      /\ origin'[row_id_generator + 1] = [by |-> t, from |-> from]
  BY <1>3 DEF n
<1> QED
  BY <1>3, <1>4, <1>5, <1>6, <1>7, <1>8

(* What LockExcludesOthers and VersionsAreImmutable say of one call.       *)
OthersExcluded ==
  \A r \in DOMAIN rows :
    /\ rows[r].transaction_lock_id \notin {NoId, call'.by}
    => /\ rows'[r] = rows[r]
       /\ \A s \in DOMAIN rows' \ DOMAIN rows : origin'[s].from # r

VersionsKept ==
  \A r \in DOMAIN rows :
    /\ r \in DOMAIN rows'
    /\ rows'[r].column_oids = rows[r].column_oids
    /\ rows[r].committed => rows'[r].committed

Good == IInv' /\ OthersExcluded /\ VersionsKept

(* The part of the types that a call leaves to the table.                  *)
RowsTyped ==
  /\ row_id_generator \in 0..MaxRow
  /\ DOMAIN rows \subseteq 1..row_id_generator
  /\ rows \in [DOMAIN rows -> Rows]
  /\ next_oid \in [Column -> Nat \ {0}]
  /\ stored \in [Column -> SUBSET Oid]
  /\ DOMAIN origin = DOMAIN rows
  /\ origin \in [DOMAIN rows -> [by : TxnId, from : RowId \cup {0}]]

(* The history variable call names the caller.                             *)
LEMMA CallTyped ==
  ASSUME NEW t, NEW level, Calls(t, level)
  PROVE  t \in TxnId /\ call'.by = t
         /\ call' \in [by : TxnId \cup {NoId}, tracked : BOOLEAN]
  BY TableAssumption DEF Calls, Tracked

(* A call that leaves rows and pages alone is good if its types are.       *)
LEMMA RowsUntouched ==
  ASSUME IInv, TypeOK', UNCHANGED <<rows, origin, row_id_generator, pageVars>>
  PROVE  Good
  BY DEF Good, IInv, UncommittedIsLockedByWriter, OidsStored, OthersExcluded,
         VersionsKept, pageVars

(* insert_row adds a row locked by its caller, or stops before it does,    *)
(* and leaves all other rows alone.                                        *)
LEMMA StepInsert ==
  ASSUME IInv, NEW t \in TxnId, NEW present \in SUBSET Column,
         NEW supplied \in Nat, InsertRow(t, present, supplied)
  PROVE  Good
<1>1. /\ TakeIds(present, supplied) /\ UNCHANGED <<lmVars, finished, fetched>>
      /\ call' \in [by : TxnId \cup {NoId}, tracked : BOOLEAN] /\ call'.by = t
  BY CallTyped DEF InsertRow
<1>2. LmTypeOK' /\ finished' \subseteq TxnId
      /\ fetched' \in [TxnId -> SUBSET RowId]
  BY <1>1 DEF IInv, TypeOK, StoreTypeOK, LmTypeOK, lmVars
<1>3. CASE UNCHANGED <<rows, origin>>
  <2>1. RowsTyped'
    BY <1>1, <1>3, TakenIds DEF IInv, TypeOK, StoreTypeOK, RowsTyped, Rows
  <2>2. TypeOK'
    BY <1>1, <1>2, <2>1 DEF TypeOK, StoreTypeOK, RowsTyped, Rows
  <2>3. OidsStored' /\ UncommittedIsLockedByWriter'
    BY <1>1, <1>3, TakenIds DEF IInv, OidsStored, UncommittedIsLockedByWriter
  <2> QED
    BY <1>3, <2>2, <2>3 DEF Good, IInv, OthersExcluded, VersionsKept
<1>4. CASE /\ InsertCode(present, supplied) = "SUCCESS"
           /\ rows' = RowsWith(rows, Inserted(t, present))
           /\ origin' = OriginWith(t, 0)
  <2> DEFINE new == Inserted(t, present)
             n == row_id_generator + 1
  <2>1. [c \in Column |-> IF c \in present THEN next_oid[c] ELSE 0]
          \in [Column -> Oid]
    BY DEF IInv, TypeOK, StoreTypeOK, Oid
  <2>2. new \in Rows /\ new.transaction_lock_id = t
    BY <2>1 DEF Inserted, NewRow, Rows, RowType
  <2>3. \A c \in Column : new.column_oids[c] # 0 => new.column_oids[c] \in stored'[c]
    BY <1>1, <1>4, TakenIds DEF Inserted, NewRow
  <2>4. /\ DOMAIN rows' = DOMAIN rows \cup {n}
        /\ \A r \in DOMAIN rows : rows'[r] = rows[r] /\ origin'[r] = origin[r]
        /\ origin'[n] = [by |-> t, from |-> 0]
        /\ DOMAIN rows' \subseteq 1..row_id_generator'
        /\ rows' \in [DOMAIN rows' -> Rows]
        /\ DOMAIN origin' = DOMAIN rows'
        /\ origin' \in [DOMAIN rows' -> [by : TxnId, from : RowId \cup {0}]]
        /\ UncommittedIsLockedByWriter'
        /\ OidsStored'
    BY <1>1, <1>4, <2>2, <2>3, AddedRow
  <2>5. RowsTyped'
    BY <1>1, <2>4, TakenIds DEF RowsTyped
  <2>6. TypeOK'
    BY <1>1, <1>2, <2>5 DEF TypeOK, StoreTypeOK, RowsTyped, Rows
  <2>7. 0 \notin DOMAIN rows
    BY DEF IInv, TypeOK, StoreTypeOK
  <2>8. OthersExcluded /\ VersionsKept
    BY <2>4, <2>7 DEF OthersExcluded, VersionsKept
  <2> QED
    BY <2>4, <2>6, <2>8 DEF Good, IInv
<1> QED
  BY <1>3, <1>4 DEF InsertRow

(* Replacing one row by a version of it that a caller who may lock it      *)
(* leaves behind.                                                          *)
LEMMA ReplacedRow ==
  ASSUME IInv, NEW t \in TxnId, NEW rid \in DOMAIN rows, NEW changed,
         DOMAIN changed = DOMAIN rows,
         \A r \in DOMAIN rows \ {rid} : changed[r] = rows[r],
         changed[rid].column_oids = rows[rid].column_oids,
         rows[rid].committed => changed[rid].committed,
         ~changed[rid].committed =>
           \/ changed[rid].transaction_lock_id = rows[rid].transaction_lock_id
           \/ rows[rid].transaction_lock_id = NoId,
         IsLocked(rows[rid], t) => changed[rid] = rows[rid]
  PROVE  \A r \in DOMAIN rows :
           /\ changed[r].column_oids = rows[r].column_oids
           /\ rows[r].committed => changed[r].committed
           /\ ~changed[r].committed
                => changed[r].transaction_lock_id = origin[r].by
           /\ rows[r].transaction_lock_id \notin {NoId, t}
                => changed[r] = rows[r]
<1>1. SUFFICES ASSUME NEW r \in DOMAIN rows
               PROVE  /\ changed[r].column_oids = rows[r].column_oids
                      /\ rows[r].committed => changed[r].committed
                      /\ ~changed[r].committed
                           => changed[r].transaction_lock_id = origin[r].by
                      /\ rows[r].transaction_lock_id \notin {NoId, t}
                           => changed[r] = rows[r]
  OBVIOUS
<1>2. origin[rid].by \in TxnId /\ NoId \notin TxnId
  BY TableAssumption DEF IInv, TypeOK, StoreTypeOK
<1>3. CASE r = rid
  BY <1>2, <1>3 DEF IInv, UncommittedIsLockedByWriter, IsLocked
<1>4. CASE r # rid
  BY <1>4 DEF IInv, UncommittedIsLockedByWriter
<1> QED
  BY <1>3, <1>4

(* commit_row releases the caller's lock and makes the row committed.      *)
LEMMA StepCommitRow ==
  ASSUME IInv, NEW t \in TxnId, NEW rid \in RowId, CommitRow(t, rid)
  PROVE  Good
<1>1. /\ UNCHANGED <<lmVars, row_id_generator, pageVars, finished, historyVars>>
      /\ call' \in [by : TxnId \cup {NoId}, tracked : BOOLEAN] /\ call'.by = t
  BY CallTyped DEF CommitRow
<1>2. LmTypeOK' /\ finished' \subseteq TxnId
      /\ fetched' \in [TxnId -> SUBSET RowId]
  BY <1>1 DEF IInv, TypeOK, StoreTypeOK, LmTypeOK, lmVars, historyVars
<1>3. CASE rid \notin DOMAIN rows
  <2>1. rows' = rows
    BY <1>3 DEF CommitRow
  <2>2. TypeOK'
    BY <1>1, <1>2, <2>1 DEF IInv, TypeOK, StoreTypeOK, pageVars, historyVars
  <2> QED
    BY <1>1, <2>1, <2>2, RowsUntouched DEF historyVars
<1>4. CASE rid \in DOMAIN rows
  <2> DEFINE new == Commit(rows[rid], t)
  <2>1. rows[rid] \in Rows /\ rows' = [rows EXCEPT ![rid] = new]
    BY <1>4 DEF CommitRow, IInv, TypeOK, StoreTypeOK, Rows
  <2>2. /\ new \in Rows /\ new.column_oids = rows[rid].column_oids
        /\ rows[rid].committed => new.committed
        /\ ~new.committed => new.transaction_lock_id = rows[rid].transaction_lock_id
        /\ IsLocked(rows[rid], t) => new = rows[rid]
    BY <2>1, CommittedRow
  <2> HIDE DEF new
  <2>3. /\ DOMAIN rows' = DOMAIN rows /\ rows' \in [DOMAIN rows -> Rows]
        /\ \A r \in DOMAIN rows \ {rid} : rows'[r] = rows[r]
        /\ rows'[rid] = new
    BY <1>4, <2>1, <2>2 DEF IInv, TypeOK, StoreTypeOK, Rows
  <2>4. \A r \in DOMAIN rows :
              /\ rows'[r].column_oids = rows[r].column_oids
              /\ rows[r].committed => rows'[r].committed
              /\ ~rows'[r].committed
                   => rows'[r].transaction_lock_id = origin[r].by
              /\ rows[r].transaction_lock_id \notin {NoId, t}
                   => rows'[r] = rows[r]
    BY <1>4, <2>2, <2>3, ReplacedRow
  <2>5. TypeOK'
    <3>1. DOMAIN rows' = DOMAIN rows /\ rows' \in [DOMAIN rows' -> Rows]
      BY <2>3
    <3>2. RowsTyped'
      BY <1>1, <3>1 DEF IInv, TypeOK, StoreTypeOK, RowsTyped, pageVars, historyVars
    <3> QED
      BY <1>1, <1>2, <3>2 DEF TypeOK, StoreTypeOK, RowsTyped, Rows
  <2>6. UncommittedIsLockedByWriter' /\ OidsStored'
    BY <1>1, <2>3, <2>4 DEF IInv, UncommittedIsLockedByWriter, OidsStored,
                            pageVars, historyVars
  <2>7. OthersExcluded /\ VersionsKept
    BY <1>1, <2>3, <2>4 DEF OthersExcluded, VersionsKept
  <2> QED
    BY <2>5, <2>6, <2>7 DEF Good, IInv
<1> QED
  BY <1>3, <1>4

(* fetch_row changes nothing but what the lock manager knows.              *)
LEMMA StepFetch ==
  ASSUME IInv, NEW t \in TxnId, NEW rid \in RowId, NEW present \in SUBSET Column,
         NEW level \in Level, FetchRow(t, rid, present, level)
  PROVE  Good
<1>1. /\ UNCHANGED <<rows, row_id_generator, pageVars, finished, origin>>
      /\ call' \in [by : TxnId \cup {NoId}, tracked : BOOLEAN]
  BY CallTyped DEF FetchRow, storeVars
<1>2. LmTypeOK'
  <2>1. CASE UNCHANGED lmVars
    BY <2>1 DEF IInv, TypeOK, StoreTypeOK, LmTypeOK, lmVars
  <2>2. CASE TrackRead(t, TableNo, rid)
    BY <2>2, LmTypeTrack, TableAssumption DEF IInv, TypeOK, StoreTypeOK
  <2> QED
    BY <2>1, <2>2 DEF FetchRow, storeVars
<1>3. fetched' \in [TxnId -> SUBSET RowId]
  BY DEF FetchRow, storeVars, IInv, TypeOK, StoreTypeOK
<1>4. TypeOK'
  BY <1>1, <1>2, <1>3 DEF IInv, TypeOK, StoreTypeOK, pageVars
<1> QED
  BY <1>1, <1>4, RowsUntouched

(* The end of a transaction does not touch the rows.                       *)
LEMMA StepFinish ==
  ASSUME IInv, NEW t \in TxnId, Finish(t)
  PROVE  Good
<1>1. /\ UNCHANGED <<rows, row_id_generator, pageVars, historyVars>>
      /\ call' \in [by : TxnId \cup {NoId}, tracked : BOOLEAN]
      /\ finished' \subseteq TxnId
  BY CallTyped DEF Finish, storeVars, IInv, TypeOK, StoreTypeOK
<1>2. LmTypeOK'
  <2>1. CASE UNCHANGED lmVars
    BY <2>1 DEF IInv, TypeOK, StoreTypeOK, LmTypeOK, lmVars
  <2>2. CASE Collect(t)
    BY <2>2, LmTypeCollect DEF IInv, TypeOK, StoreTypeOK
  <2> QED
    BY <2>1, <2>2 DEF Finish, storeVars
<1>3. TypeOK'
  BY <1>1, <1>2 DEF IInv, TypeOK, StoreTypeOK, pageVars, historyVars
<1> QED
  BY <1>1, <1>3, RowsUntouched DEF historyVars

(* update_row locks the old version, derives a locked new one from it and  *)
(* removes the old one; it can stop after each of these.                   *)
LEMMA StepUpdate ==
  ASSUME IInv, NEW t \in TxnId, NEW rid \in RowId, NEW present \in SUBSET Column,
         NEW supplied \in Nat, NEW level \in Level,
         UpdateRow(t, rid, present, supplied, level)
  PROVE  Good
<1>1. /\ call' \in [by : TxnId \cup {NoId}, tracked : BOOLEAN] /\ call'.by = t
      /\ finished' = finished
  BY CallTyped DEF UpdateRow
<1>2. CASE UpdateRefused(t, rid, level)
  <2>1. UNCHANGED <<lmVars, rows, row_id_generator, pageVars, historyVars>>
    BY <1>2 DEF UpdateRefused, storeVars
  <2>2. TypeOK'
    BY <1>1, <2>1 DEF IInv, TypeOK, StoreTypeOK, LmTypeOK, lmVars, pageVars, historyVars
  <2> QED
    BY <2>1, <2>2, RowsUntouched DEF historyVars
<1>3. CASE UpdateAdmitted(t, rid, present, supplied, level)
  <2> DEFINE older == Lock(rows[rid], t)
             locked == [rows EXCEPT ![rid] = older]
             newer == Update(Inserted(t, present), t, present, older)
             n == row_id_generator + 1
  <2>1. /\ rid \in DOMAIN rows /\ MayLock(rows[rid], t)
        /\ TakeIds(present, supplied) /\ UNCHANGED fetched
    BY <1>3 DEF UpdateAdmitted, UpdatedRows, Updatable
  <2>2. LmTypeOK' /\ finished' \subseteq TxnId
        /\ fetched' \in [TxnId -> SUBSET RowId]
    <3>1. CASE UNCHANGED lmVars
      BY <1>1, <2>1, <3>1 DEF IInv, TypeOK, StoreTypeOK, LmTypeOK, lmVars
    <3>2. CASE TrackWrite(t, TableNo, rid)
      BY <1>1, <2>1, <3>2, LmTypeTrack, TableAssumption DEF IInv, TypeOK, StoreTypeOK
    <3> QED
      BY <1>3, <3>1, <3>2 DEF UpdateAdmitted, UpdatedRows
  <2>3. rows[rid] \in Rows
    BY <2>1 DEF IInv, TypeOK, StoreTypeOK, Rows
  <2>4. /\ older \in Rows /\ older.transaction_lock_id = t
        /\ older.committed = rows[rid].committed
        /\ older.column_oids = rows[rid].column_oids
    BY <2>1, <2>3, LockedRow
  <2>5. ~rows[rid].committed => rows[rid].transaction_lock_id = t
    BY <2>1, TableAssumption DEF IInv, TypeOK, StoreTypeOK, UncommittedIsLockedByWriter,
                                 MayLock, IsLocked
  <2> HIDE DEF older
  <2>6. /\ DOMAIN locked = DOMAIN rows /\ locked \in [DOMAIN rows -> Rows]
        /\ \A r \in DOMAIN rows \ {rid} : locked[r] = rows[r]
        /\ locked[rid] = older
    BY <2>1, <2>4 DEF IInv, TypeOK, StoreTypeOK, Rows
  <2> HIDE DEF locked
  <2>7. ~IsLocked(rows[rid], t)
    BY <2>1 DEF MayLock
  <2>8. \A r \in DOMAIN rows :
          /\ locked[r].column_oids = rows[r].column_oids
          /\ rows[r].committed => locked[r].committed
          /\ ~locked[r].committed => locked[r].transaction_lock_id = origin[r].by
          /\ rows[r].transaction_lock_id \notin {NoId, t} => locked[r] = rows[r]
    BY <2>1, <2>4, <2>5, <2>6, <2>7, ReplacedRow
  <2>9. CASE rows' = locked /\ UNCHANGED origin
    <3>1. DOMAIN rows' = DOMAIN rows /\ rows' \in [DOMAIN rows' -> Rows]
      BY <2>6, <2>9
    <3>2. RowsTyped'
      BY <2>1, <2>9, <3>1, TakenIds DEF IInv, TypeOK, StoreTypeOK, RowsTyped
    <3>3. TypeOK'
      BY <1>1, <2>2, <3>2 DEF TypeOK, StoreTypeOK, RowsTyped, Rows
    <3>4. UncommittedIsLockedByWriter' /\ OidsStored'
      BY <2>1, <2>8, <2>9, <3>1, TakenIds
        DEF IInv, UncommittedIsLockedByWriter, OidsStored
    <3>5. OthersExcluded /\ VersionsKept
      BY <1>1, <2>8, <2>9, <3>1 DEF OthersExcluded, VersionsKept
    <3> QED
      BY <3>3, <3>4, <3>5 DEF Good, IInv
  <2>10. CASE /\ InsertCode(present, supplied) = "SUCCESS"
              /\ rows' = RowsWith([rows EXCEPT ![rid] = Remove(older, t)], newer)
              /\ origin' = OriginWith(t, rid)
    <3> DEFINE oids == [c \in Column |-> IF c \in present THEN next_oid[c] ELSE 0]
    <3>1. oids \in [Column -> Oid] /\ Inserted(t, present) = NewRow(t, oids)
      BY DEF IInv, TypeOK, StoreTypeOK, Oid, Inserted
    <3> HIDE DEF oids
    <3>2. /\ newer \in Rows /\ newer.transaction_lock_id = t
          /\ \A c \in Column : newer.column_oids[c] =
                IF c \in present THEN oids[c] ELSE older.column_oids[c]
      <4>1. newer = Update(NewRow(t, oids), t, present, older)
        BY <3>1
      <4>2. LET new == Update(NewRow(t, oids), t, present, older)
            IN  /\ new \in Rows
                /\ new.transaction_lock_id = t
                /\ \A c \in Column : new.column_oids[c] =
                     IF c \in present THEN oids[c] ELSE older.column_oids[c]
        <5> HIDE DEF newer
        <5> QED
          BY ONLY <2>4, <3>1, t \in TxnId, UpdatedRow
      <4> QED
        BY <4>1, <4>2
    <3> HIDE DEF newer
    <3>3. rows' = RowsWith(locked, newer)
      BY <2>4, <2>10, RemovedRow DEF locked
    <3>4. /\ n \notin DOMAIN rows /\ row_id_generator' = n
          /\ DOMAIN rows \subseteq 1..n /\ n \in 1..n
          /\ \A c \in Column : stored[c] \subseteq stored'[c]
          /\ \A c \in present : oids[c] \in stored'[c]
      <4>1. \A c \in present : oids[c] = next_oid[c]
        BY DEF oids
      <4>2. n \in 1..n
        BY TableAssumption DEF IInv, TypeOK, StoreTypeOK
      <4> QED
        BY <2>1, <2>10, <4>1, <4>2, TakenIds
    <3>5. /\ DOMAIN rows' = DOMAIN rows \cup {n}
          /\ \A r \in DOMAIN rows : rows'[r] = locked[r]
          /\ rows'[n] = newer
      BY <2>6, <3>3, <3>4 DEF RowsWith
    <3>6. /\ DOMAIN origin' = DOMAIN rows \cup {n}
          /\ \A r \in DOMAIN rows : origin'[r] = origin[r]
          /\ origin'[n] = [by |-> t, from |-> rid]
      BY <2>10, <3>4 DEF OriginWith, IInv, TypeOK, StoreTypeOK
    <3>7. rows' \in [DOMAIN rows' -> Rows]
      BY <2>6, <3>2, <3>3, <3>4 DEF RowsWith
    <3>8. origin' \in [DOMAIN rows' -> [by : TxnId, from : RowId \cup {0}]]
      BY <2>10, <3>4, <3>5 DEF OriginWith, IInv, TypeOK, StoreTypeOK
    <3> HIDE DEF n
    <3>9. RowsTyped'
      <4>1. DOMAIN rows' \subseteq 1..row_id_generator' /\ DOMAIN origin' = DOMAIN rows'
        BY <3>4, <3>5, <3>6
      <4> QED
        BY <2>1, <3>7, <3>8, <4>1, TakenIds DEF RowsTyped
    <3>10. TypeOK'
      BY <1>1, <2>2, <3>9 DEF TypeOK, StoreTypeOK, RowsTyped, Rows
    <3>11. UncommittedIsLockedByWriter'
      BY <2>8, <3>2, <3>4, <3>5, <3>6 DEF UncommittedIsLockedByWriter
    <3>12. OidsStored'
      <4> SUFFICES ASSUME NEW r \in DOMAIN rows', NEW c \in Column,
                          rows'[r].column_oids[c] # 0
                   PROVE  rows'[r].column_oids[c] \in stored'[c]
        BY DEF OidsStored
      <4>1. CASE r \in DOMAIN rows
        BY <2>8, <3>4, <3>5, <4>1 DEF IInv, OidsStored
      <4>2. CASE r = n
        BY <2>1, <2>4, <3>2, <3>4, <3>5, <4>2 DEF IInv, OidsStored
      <4> QED
        BY <3>5, <4>1, <4>2
    <3>13. OthersExcluded /\ VersionsKept
      <4>1. rows[rid].transaction_lock_id \in {NoId, t}
        BY <2>7 DEF IsLocked
      <4> QED
        BY <1>1, <2>8, <3>4, <3>5, <3>6, <4>1 DEF OthersExcluded, VersionsKept
    <3> QED
      BY <3>10, <3>11, <3>12, <3>13 DEF Good, IInv
  <2> QED
    BY <1>3, <2>9, <2>10 DEF UpdateAdmitted, UpdatedRows, older, locked, newer
<1> QED
  BY <1>2, <1>3 DEF UpdateRow

-----------------------------------------------------------------------------
(***************************************************************************)
(* The theorems.                                                           *)
(***************************************************************************)
(* Every call keeps the invariant, leaves the rows alone that another one  *)
(* has locked, and rewrites no data.                                       *)
LEMMA NextGood == IInv /\ Next => Good
<1> SUFFICES ASSUME IInv, Next PROVE Good
  OBVIOUS
<1>1. PICK t \in TxnId :
        \/ \E present \in SUBSET Column :
             \E supplied \in 0..Cardinality(present) :
               InsertRow(t, present, supplied)
        \/ \E rid \in RowId : CommitRow(t, rid)
        \/ \E rid \in RowId, present \in SUBSET Column, level \in Level :
             \/ FetchRow(t, rid, present, level)
             \/ \E supplied \in 0..Cardinality(present) :
                  UpdateRow(t, rid, present, supplied, level)
        \/ Finish(t)
  BY DEF Next, CallsOf
<1>2. ASSUME NEW present \in SUBSET Column,
             NEW supplied \in 0..Cardinality(present)
      PROVE  supplied \in Nat
  <2>1. IsFiniteSet(present)
    BY TableAssumption, FS_Subset
  <2> QED
    BY <2>1, FS_CardinalityType
<1>3. CASE \E present \in SUBSET Column :
             \E supplied \in 0..Cardinality(present) :
               InsertRow(t, present, supplied)
  BY <1>2, <1>3, StepInsert
<1>4. CASE \E rid \in RowId : CommitRow(t, rid)
  BY <1>4, StepCommitRow
<1>5. CASE \E rid \in RowId, present \in SUBSET Column, level \in Level :
             FetchRow(t, rid, present, level)
  BY <1>5, StepFetch
<1>6. CASE \E rid \in RowId, present \in SUBSET Column, level \in Level :
             \E supplied \in 0..Cardinality(present) :
               UpdateRow(t, rid, present, supplied, level)
  BY <1>2, <1>6, StepUpdate
<1>7. CASE Finish(t)
  BY <1>7, StepFinish
<1> QED
  BY <1>1, <1>3, <1>4, <1>5, <1>6, <1>7

(* The invariant is inductive.                                             *)
LEMMA StepIInv == IInv /\ [Next]_vars => IInv'
<1> SUFFICES ASSUME IInv, [Next]_vars PROVE IInv'
  OBVIOUS
<1>1. CASE Next
  BY <1>1, NextGood DEF Good
<1>2. CASE UNCHANGED vars
  BY <1>2 DEF IInv, TypeOK, StoreTypeOK, LmTypeOK, UncommittedIsLockedByWriter, OidsStored,
              vars, lmVars, tableVars, storeVars, pageVars, historyVars
<1> QED
  BY <1>1, <1>2

(* The inductive invariant holds for any number of transactions, rows and  *)
(* columns, whatever calls fail half-way.                                  *)
THEOREM InvCorrect == Spec => []IInv
  BY InitIInv, StepIInv, PTL DEF Spec

(* The state of the table and of the lock manager it reports to is well    *)
(* typed.                                                                  *)
THEOREM TypeCorrect == Spec => []TypeOK
  BY InvCorrect, PTL DEF IInv

(* A version that is not committed stays locked by its inserter.           *)
THEOREM LockedByWriter == Spec => []UncommittedIsLockedByWriter
  BY InvCorrect, PTL DEF IInv

(* From READ_COMMITTED on nobody gets at an uncommitted version of another *)
(* transaction, because visibility asks for the lock.                      *)
THEOREM DirtyReadsExcluded == Spec => []NoDirtyRead
<1>1. IInv => NoDirtyRead
  <2> SUFFICES ASSUME IInv, NEW r \in DOMAIN rows, NEW t \in TxnId,
                      NEW level \in IsolationLevel \ {"READ_UNCOMMITTED"},
                      RowIsVisible(rows[r], t, level), ~rows[r].committed
               PROVE  origin[r].by = t
    BY DEF NoDirtyRead
  <2>1. OwnUncommitted(rows[r], t)
    BY DEF IsolationLevel, RowIsVisible, IsVisible, IsSnapshotVisible
  <2> QED
    BY <2>1 DEF OwnUncommitted, IInv, UncommittedIsLockedByWriter
<1> QED
  BY <1>1, InvCorrect, PTL

(* fetch_row reports CORRUPT_PAGE only for a column without a value, after *)
(* any mixture of calls that failed half-way.                              *)
THEOREM PagesIntact == Spec => []OnlyNullIsCorrupt
<1>1. IInv => OnlyNullIsCorrupt
  <2> SUFFICES ASSUME IInv, NEW t \in TxnId, NEW r \in DOMAIN rows,
                      NEW present \in SUBSET Column,
                      FetchCode(t, r, present, "READ_UNCOMMITTED") = "CORRUPT_PAGE"
               PROVE  \E c \in present : rows[r].column_oids[c] = 0
    BY DEF OnlyNullIsCorrupt
  <2>1. PICK c \in present : rows[r].column_oids[c] \notin stored[c]
    BY DEF FetchCode
  <2> QED
    BY <2>1 DEF IInv, OidsStored
<1> QED
  BY <1>1, InvCorrect, PTL

(* While a version is locked nobody but the holder changes it or derives a *)
(* new version from it.                                                    *)
THEOREM LocksExclude == Spec => LockExcludesOthers
<1>1. IInv /\ [Next]_vars => [OthersExcluded]_vars
  BY NextGood DEF Good
<1>2. Spec => [][OthersExcluded]_vars
  BY <1>1, InvCorrect, PTL DEF Spec
<1> QED
  BY <1>2 DEF LockExcludesOthers, OthersExcluded

(* No call drops a row, rewrites the data of one or takes a commit back.   *)
THEOREM VersionsImmutable == Spec => VersionsAreImmutable
<1>1. IInv /\ [Next]_vars => [VersionsKept]_vars
  BY NextGood DEF Good
<1>2. Spec => [][VersionsKept]_vars
  BY <1>1, InvCorrect, PTL DEF Spec
<1> QED
  BY <1>2 DEF VersionsAreImmutable, VersionsKept

-----------------------------------------------------------------------------
(***************************************************************************)
(* What the lock manager knows of the transactions that fetched.  An entry *)
(* and the read locks under it go when nobody is left who ran together     *)
(* with their owner; the owner may still be running, but then it is alone, *)
(* and whoever begins next finds the entry missing.                        *)
(***************************************************************************)
LmKnows ==
  ~crashed =>
    /\ DOMAIN concurrent_transactions \subseteq active_transactions \cup finished
    /\ \A u \in TxnId \ finished : fetched[u] # {} => u \in active_transactions
    /\ \A u, v \in active_transactions :
         u # v => /\ u \in DOMAIN concurrent_transactions
                  /\ v \in concurrent_transactions[u]
    /\ \A u \in active_transactions :
         u \in DOMAIN concurrent_transactions =>
           \A rid \in fetched[u] : <<TableNo, rid>> \in range_map[u]

(* A transaction that has not ended is either known as active or has never *)
(* been heard of, and has fetched nothing.                                 *)
LEMMA KnownIsActive ==
  ASSUME LmKnows, ~crashed, NEW t \in TxnId \ finished, t \notin active_transactions
  PROVE  t \notin DOMAIN concurrent_transactions /\ fetched[t] = {}
  BY DEF LmKnows

(* add_transaction makes the new one and all active ones know each other,  *)
(* and dies if an active one has no entry.                                 *)
LEMMA AddKnows ==
  ASSUME IInv, LmKnows, ~crashed, NEW t \in TxnId \ finished, AddTransaction(t)
  PROVE  /\ active_transactions' = active_transactions \cup {t}
         /\ DOMAIN concurrent_transactions'
              \subseteq DOMAIN concurrent_transactions \cup {t}
         /\ \A u, v \in active_transactions' :
              u # v => /\ u \in DOMAIN concurrent_transactions'
                       /\ v \in concurrent_transactions'[u]
         /\ \A u \in active_transactions' :
              u \in DOMAIN concurrent_transactions' =>
                u \in DOMAIN concurrent_transactions \/ fetched[u] = {}
         /\ \A u \in active_transactions' \ {t} :
              u \in DOMAIN concurrent_transactions
<1>1. CASE t \in active_transactions
  BY <1>1 DEF AddTransaction, LmKnows
<1>2. CASE t \notin active_transactions
  <2> DEFINE known == DOMAIN concurrent_transactions
  <2>1. t \notin known /\ fetched[t] = {} /\ active_transactions \subseteq known
    BY <1>2, KnownIsActive DEF AddTransaction, EntriesPresent
  <2>2. /\ active_transactions' = active_transactions \cup {t}
        /\ concurrent_transactions' =
             [u \in known \cup {t} |->
                IF u \in active_transactions
                  THEN concurrent_transactions[u] \cup {t}
                ELSE IF u \in known THEN concurrent_transactions[u]
                ELSE active_transactions]
    BY <1>2 DEF AddTransaction
  <2>3. DOMAIN concurrent_transactions' = known \cup {t}
    BY <2>2
  <2>4. ASSUME NEW u \in active_transactions', NEW v \in active_transactions', u # v
        PROVE  v \in concurrent_transactions'[u]
    BY <1>2, <2>1, <2>2, <2>4 DEF LmKnows
  <2> QED
    BY <2>1, <2>2, <2>3, <2>4
<1> QED
  BY <1>1, <1>2

(* The tear-down at the end of t takes the entry of another active         *)
(* transaction only if that one is then alone, and its read locks only     *)
(* together with its entry.                                                *)
LEMMA CollectKnows ==
  ASSUME IInv, LmKnows, ~crashed, NEW t \in TxnId \ finished, Collect(t)
  PROVE  /\ active_transactions' = active_transactions \ {t}
         /\ DOMAIN concurrent_transactions' \subseteq DOMAIN concurrent_transactions
         /\ \A u, v \in active_transactions' :
              u # v => /\ u \in DOMAIN concurrent_transactions'
                       /\ v \in concurrent_transactions'[u]
         /\ \A u \in active_transactions' :
              u \in DOMAIN concurrent_transactions' => range_map'[u] = range_map[u]
<1> DEFINE known == DOMAIN concurrent_transactions
           gone == IF t \in known THEN Emptied(t) ELSE {}
<1>1. active_transactions' = active_transactions \ {t}
  BY DEF Collect
<1>2. CASE active_transactions' = {}
  <2>1. concurrent_transactions' = [u \in {} |-> {}]
    BY <1>2 DEF Collect
  <2>2. DOMAIN concurrent_transactions' = {}
    BY <2>1
  <2> QED
    BY <1>1, <1>2, <2>2
<1>3. CASE active_transactions' # {}
  <2>1. /\ range_map' = [u \in TxnId |-> IF u \in gone THEN {} ELSE range_map[u]]
        /\ concurrent_transactions' =
             [u \in known \ gone |->
                IF t \notin known THEN concurrent_transactions[u]
                ELSE IF u = t THEN concurrent_transactions[t] \ gone
                ELSE IF u \in concurrent_transactions[t]
                  THEN concurrent_transactions[u] \ {t}
                ELSE concurrent_transactions[u]]
    BY <1>3 DEF Collect, DelTransaction
  <2>2. \A u \in gone : u \in known /\ concurrent_transactions[u] \subseteq {t}
    BY DEF Emptied
  <2> HIDE DEF gone
  <2>3. DOMAIN concurrent_transactions' = known \ gone
    BY <2>1
  <2>4. active_transactions' \subseteq TxnId
    BY <1>1 DEF IInv, TypeOK, LmTypeOK
  <2>5. ASSUME NEW u \in active_transactions', NEW v \in active_transactions', u # v
        PROVE  /\ u \in DOMAIN concurrent_transactions'
               /\ v \in concurrent_transactions'[u]
    <3>1. u # t /\ v # t /\ u \in known /\ v \in concurrent_transactions[u]
      BY <1>1, <2>5 DEF LmKnows
    <3>2. u \notin gone
      BY <2>2, <3>1
    <3> QED
      BY <2>1, <2>3, <3>1, <3>2
  <2>6. \A u \in active_transactions' :
          u \in DOMAIN concurrent_transactions' => range_map'[u] = range_map[u]
    BY <2>1, <2>3, <2>4
  <2> QED
    BY <1>1, <2>3, <2>5, <2>6
<1> QED
  BY <1>2, <1>3

(* What AntidependencyNoted says of one call.                              *)
WritersNoted ==
  call'.tracked /\ ~crashed' =>
    \A s \in DOMAIN rows' \ DOMAIN rows :
      \A u \in TxnId \ (finished \cup {call'.by}) :
        origin'[s].from \in fetched[u] => call'.by \in dep_map'[u]

(* A call that tells the lock manager nothing.                             *)
LEMMA QuietKnows ==
  ASSUME LmKnows, UNCHANGED <<lmVars, finished, fetched>>
  PROVE  LmKnows'
  BY DEF LmKnows, lmVars

(* A fetch that is reported puts the row under the entry of its reader, if *)
(* there is one.                                                           *)
LEMMA FetchKnows ==
  ASSUME IInv, LmKnows, NEW t \in TxnId, NEW rid \in RowId,
         NEW present \in SUBSET Column, NEW level \in Level,
         FetchRow(t, rid, present, level)
  PROVE  LmKnows'
<1>1. ~crashed /\ t \in TxnId \ finished /\ finished' = finished
  BY DEF FetchRow, Calls
<1>2. CASE UNCHANGED <<lmVars, fetched>>
  BY <1>1, <1>2, QuietKnows
<1>3. CASE /\ TrackRead(t, TableNo, rid)
           /\ fetched' = [fetched EXCEPT ![t] = @ \cup {rid}]
  <2>1. CASE AddTransactionFaults(t)
    BY <2>1 DEF AddTransactionFaults, LmKnows
  <2>2. CASE /\ AddTransaction(t)
             /\ range_map' = [range_map EXCEPT ![t] = @ \cup {<<TableNo, rid>>}]
    <3>1. /\ active_transactions' = active_transactions \cup {t}
          /\ DOMAIN concurrent_transactions'
               \subseteq DOMAIN concurrent_transactions \cup {t}
          /\ \A u, v \in active_transactions' :
               u # v => /\ u \in DOMAIN concurrent_transactions'
                        /\ v \in concurrent_transactions'[u]
          /\ \A u \in active_transactions' :
               u \in DOMAIN concurrent_transactions' =>
                 u \in DOMAIN concurrent_transactions \/ fetched[u] = {}
      BY <1>1, <2>2, AddKnows
    <3>2. /\ \A u \in TxnId : fetched'[u] =
               IF u = t THEN fetched[t] \cup {rid} ELSE fetched[u]
          /\ \A u \in TxnId : range_map'[u] =
               IF u = t THEN range_map[t] \cup {<<TableNo, rid>>} ELSE range_map[u]
          /\ active_transactions' \subseteq TxnId
      BY <1>3, <2>2, <3>1 DEF IInv, TypeOK, LmTypeOK
    <3>3. \A u \in TxnId \ finished' : fetched'[u] # {} => u \in active_transactions'
      BY <1>1, <3>1, <3>2 DEF LmKnows
    <3>4. DOMAIN concurrent_transactions' \subseteq active_transactions' \cup finished'
      BY <1>1, <3>1 DEF LmKnows
    <3>5. ASSUME NEW u \in active_transactions',
                 u \in DOMAIN concurrent_transactions', NEW r \in fetched'[u]
          PROVE  <<TableNo, r>> \in range_map'[u]
      <4>1. r \in fetched[u] \/ (u = t /\ r = rid)
        BY <3>2
      <4>2. CASE r \in fetched[u]
        <5>1. u \in DOMAIN concurrent_transactions
          BY <3>1, <3>5, <4>2
        <5>2. u \in active_transactions
          BY <1>1, <3>1, <4>2, <5>1, KnownIsActive
        <5>3. <<TableNo, r>> \in range_map[u]
          BY <1>1, <4>2, <5>1, <5>2 DEF LmKnows
        <5> QED
          BY <3>2, <5>3
      <4>3. CASE u = t /\ r = rid
        BY <3>2, <4>3
      <4> QED
        BY <4>1, <4>2, <4>3
    <3> QED
      BY <3>1, <3>3, <3>4, <3>5 DEF LmKnows
  <2> QED
    BY <1>3, <2>1, <2>2 DEF TrackRead
<1> QED
  BY <1>2, <1>3 DEF FetchRow

(* A write that is reported is put down for every other running reader of  *)
(* the row: the reader has its entry, or add_transaction dies, or the      *)
(* writer runs alone.                                                      *)
LEMMA WriteKnows ==
  ASSUME IInv, LmKnows, ~crashed, NEW t \in TxnId \ finished, NEW rid \in RowId,
         TrackWrite(t, TableNo, rid), UNCHANGED <<finished, fetched>>
  PROVE  /\ LmKnows'
         /\ ~crashed' => \A u \in TxnId \ (finished \cup {t}) :
                           rid \in fetched[u] => t \in dep_map'[u]
<1>1. CASE AddTransactionFaults(t)
  BY <1>1 DEF AddTransactionFaults, LmKnows
<1>2. CASE /\ AddTransaction(t)
           /\ dep_map' = [r \in TxnId |->
                            IF r \in OtherReaders(t, TableNo, rid)
                              THEN dep_map[r] \cup {t} ELSE dep_map[r]]
           /\ UNCHANGED range_map
  <2>1. /\ active_transactions' = active_transactions \cup {t}
        /\ DOMAIN concurrent_transactions'
             \subseteq DOMAIN concurrent_transactions \cup {t}
        /\ \A u, v \in active_transactions' :
             u # v => /\ u \in DOMAIN concurrent_transactions'
                      /\ v \in concurrent_transactions'[u]
        /\ \A u \in active_transactions' :
             u \in DOMAIN concurrent_transactions' =>
               u \in DOMAIN concurrent_transactions \/ fetched[u] = {}
        /\ \A u \in active_transactions' \ {t} :
             u \in DOMAIN concurrent_transactions
    BY <1>2, AddKnows
  <2>2. DOMAIN concurrent_transactions' \subseteq active_transactions' \cup finished'
    BY <2>1 DEF LmKnows
  <2>3. \A u \in TxnId \ finished' : fetched'[u] # {} => u \in active_transactions'
    BY <2>1 DEF LmKnows
  <2>4. ASSUME NEW u \in active_transactions',
               u \in DOMAIN concurrent_transactions', NEW r \in fetched'[u]
        PROVE  <<TableNo, r>> \in range_map'[u]
    <3>1. u \in DOMAIN concurrent_transactions
      BY <2>1, <2>4
    <3>2. u \in active_transactions
      BY <2>1, <2>4, <3>1, KnownIsActive
    <3> QED
      BY <1>2, <2>4, <3>1, <3>2 DEF LmKnows
  <2>5. LmKnows'
    BY <2>1, <2>2, <2>3, <2>4 DEF LmKnows
  <2>6. ASSUME NEW u \in TxnId \ (finished \cup {t}), rid \in fetched[u]
        PROVE  t \in dep_map'[u]
    <3>1. u \in active_transactions
      BY <2>6 DEF LmKnows
    <3>2. u \in DOMAIN concurrent_transactions
      BY <2>1, <2>6, <3>1
    <3>3. <<TableNo, rid>> \in range_map[u]
      BY <2>6, <3>1, <3>2 DEF LmKnows
    <3>4. u \in OtherReaders(t, TableNo, rid)
      BY <2>6, <3>3 DEF OtherReaders
    <3> QED
      BY <1>2, <3>4
  <2> QED
    BY <2>5, <2>6
<1> QED
  BY <1>1, <1>2 DEF TrackWrite

(* The end of a transaction, with and without a lock manager.              *)
LEMMA FinishKnows ==
  ASSUME IInv, LmKnows, NEW t \in TxnId, Finish(t)
  PROVE  LmKnows'
<1>1. /\ ~crashed /\ t \in TxnId \ finished /\ finished' = finished \cup {t}
      /\ fetched' = fetched
  BY DEF Finish, Calls, historyVars
<1>2. CASE UNCHANGED lmVars
  BY <1>1, <1>2 DEF LmKnows, lmVars
<1>3. CASE Collect(t)
  <2>1. /\ active_transactions' = active_transactions \ {t}
        /\ DOMAIN concurrent_transactions' \subseteq DOMAIN concurrent_transactions
        /\ \A u, v \in active_transactions' :
             u # v => /\ u \in DOMAIN concurrent_transactions'
                      /\ v \in concurrent_transactions'[u]
        /\ \A u \in active_transactions' :
             u \in DOMAIN concurrent_transactions' => range_map'[u] = range_map[u]
    BY <1>1, <1>3, CollectKnows
  <2> QED
    BY <1>1, <2>1 DEF LmKnows
<1> QED
  BY <1>2, <1>3 DEF Finish

(* An update adds one row, made from the row updated, and its report is in *)
(* time.                                                                   *)
LEMMA UpdateKnows ==
  ASSUME IInv, LmKnows, NEW t \in TxnId, NEW rid \in RowId,
         NEW present \in SUBSET Column, NEW supplied \in Nat, NEW level \in Level,
         UpdateRow(t, rid, present, supplied, level)
  PROVE  LmKnows' /\ WritersNoted
<1>1. /\ ~crashed /\ t \in TxnId \ finished /\ finished' = finished
      /\ call'.by = t /\ call'.tracked = Tracked(level)
  BY DEF UpdateRow, Calls
<1>2. CASE UpdateRefused(t, rid, level)
  <2>1. UNCHANGED <<lmVars, finished, fetched, rows>>
    BY <1>1, <1>2 DEF UpdateRefused, storeVars, historyVars
  <2> QED
    BY <2>1, QuietKnows DEF WritersNoted
<1>3. CASE UpdateAdmitted(t, rid, present, supplied, level)
  <2> DEFINE n == row_id_generator + 1
             succeeds == InsertCode(present, supplied) = "SUCCESS"
  <2>1. /\ fetched' = fetched /\ rid \in DOMAIN rows
        /\ rows' = UpdatedRows(t, rid, present, supplied)
        /\ origin' = IF succeeds THEN OriginWith(t, rid) ELSE origin
    BY <1>3 DEF UpdateAdmitted, Updatable
  <2>2. CASE ~(succeeds /\ Tracked(level))
    <3>1. UNCHANGED <<lmVars, finished, fetched>>
      BY <1>1, <1>3, <2>1, <2>2 DEF UpdateAdmitted
    <3>2. CASE ~Tracked(level)
      BY <1>1, <3>1, <3>2, QuietKnows DEF WritersNoted
    <3>3. CASE ~succeeds
      <4>1. DOMAIN rows' = DOMAIN rows
        BY <2>1, <3>3 DEF UpdatedRows
      <4> QED
        BY <3>1, <4>1, QuietKnows DEF WritersNoted
    <3> QED
      BY <2>2, <3>2, <3>3
  <2>3. CASE succeeds /\ Tracked(level)
    <3>1. TrackWrite(t, TableNo, rid)
      BY <1>3, <2>3 DEF UpdateAdmitted
    <3>2. /\ LmKnows'
          /\ ~crashed' => \A u \in TxnId \ (finished \cup {t}) :
                            rid \in fetched[u] => t \in dep_map'[u]
      BY <1>1, <2>1, <3>1, WriteKnows
    <3>3. ASSUME NEW s \in DOMAIN rows' \ DOMAIN rows
          PROVE  origin'[s].from = rid
      <4>1. s = n
        BY <2>1, <2>3 DEF UpdatedRows, RowsWith
      <4> QED
        BY <2>1, <2>3, <4>1 DEF OriginWith
    <3> QED
      BY <1>1, <3>2, <3>3 DEF WritersNoted
  <2> QED
    BY <2>2, <2>3
<1> QED
  BY <1>2, <1>3 DEF UpdateRow

(* Each call keeps what the lock manager knows, and notes its conflicts.   *)
LEMMA StepKnows ==
  ASSUME IInv, LmKnows, Next
  PROVE  LmKnows' /\ WritersNoted
<1>1. ASSUME NEW present \in SUBSET Column,
             NEW supplied \in 0..Cardinality(present)
      PROVE  supplied \in Nat
  <2>1. IsFiniteSet(present)
    BY TableAssumption, FS_Subset
  <2> QED
    BY <2>1, FS_CardinalityType
<1>2. ~Tracked("READ_UNCOMMITTED")
  BY DEF Tracked
<1>3. ASSUME NEW t \in TxnId, NEW present \in SUBSET Column, NEW supplied,
             InsertRow(t, present, supplied)
      PROVE  LmKnows' /\ WritersNoted
  BY <1>2, <1>3, QuietKnows DEF InsertRow, Calls, WritersNoted
<1>4. ASSUME NEW t \in TxnId, NEW rid \in RowId, CommitRow(t, rid)
      PROVE  LmKnows' /\ WritersNoted
  BY <1>2, <1>4, QuietKnows DEF CommitRow, Calls, WritersNoted, historyVars
<1>5. ASSUME NEW t \in TxnId, NEW rid \in RowId, NEW present \in SUBSET Column,
             NEW level \in Level, FetchRow(t, rid, present, level)
      PROVE  LmKnows' /\ WritersNoted
  <2>1. rows' = rows
    BY <1>5 DEF FetchRow, storeVars
  <2> QED
    BY <1>5, <2>1, FetchKnows DEF WritersNoted
<1>6. ASSUME NEW t \in TxnId, Finish(t)
      PROVE  LmKnows' /\ WritersNoted
  BY <1>2, <1>6, FinishKnows DEF Finish, Calls, WritersNoted
<1>7. ASSUME NEW t \in TxnId, NEW rid \in RowId, NEW present \in SUBSET Column,
             NEW level \in Level, NEW supplied \in Nat,
             UpdateRow(t, rid, present, supplied, level)
      PROVE  LmKnows' /\ WritersNoted
  BY <1>7, UpdateKnows
<1> QED
  BY <1>1, <1>3, <1>4, <1>5, <1>6, <1>7 DEF Next, CallsOf

(* What is on record of those that fetched is exact as long as it matters, *)
(* for any number of transactions.                                         *)
THEOREM ReadersKnown == Spec => []LmKnows
<1>1. Init => LmKnows
  BY DEF Init, LmInit, LmKnows
<1>2. IInv /\ LmKnows /\ [Next]_vars => LmKnows'
  <2>1. IInv /\ LmKnows /\ UNCHANGED vars => LmKnows'
    BY QuietKnows DEF vars, tableVars, historyVars
  <2> QED
    BY <2>1, StepKnows
<1> QED
  BY <1>1, <1>2, InvCorrect, PTL DEF Spec

(* A SERIALIZABLE update of a version that another running transaction has *)
(* fetched puts the updater down as its successor, or the call dies.       *)
THEOREM ConflictsNoted == Spec => AntidependencyNoted
<1>1. IInv /\ LmKnows /\ [Next]_vars => [WritersNoted]_vars
  BY StepKnows
<1>2. Spec => [][WritersNoted]_vars
  BY <1>1, InvCorrect, ReadersKnown, PTL DEF Spec
<1> QED
  BY <1>2 DEF AntidependencyNoted, WritersNoted

-----------------------------------------------------------------------------
(***************************************************************************)
(* Where the values of a row come from.                                    *)
(***************************************************************************)

(* f is the root of each row, by the equation that defines root.           *)
IsRoot(f, from) ==
  f = [r \in DOMAIN from |-> IF from[r].from = 0 THEN r ELSE f[from[r].from]]

(* The rows that share a value have the same root.                         *)
SharedUnder(f) ==
  \A r, s \in DOMAIN rows : \A c \in Column :
    /\ rows[r].column_oids[c] = rows[s].column_oids[c]
    /\ rows[r].column_oids[c] # 0
    => f[r] = f[s]

(* Rows are made from rows that are there, which is why they have roots,   *)
(* and object ids that are still to be given out are in no row.            *)
Descent ==
  /\ \A r \in DOMAIN rows : origin[r].from # 0 => origin[r].from \in DOMAIN rows
  /\ \A r \in DOMAIN rows, c \in Column : rows[r].column_oids[c] < next_oid[c]
  /\ \E f : IsRoot(f, origin)
  /\ \A f : IsRoot(f, origin) => SharedUnder(f)

(* A row made from one that has a root has that root, or is its own.       *)
LEMMA RootExtends ==
  ASSUME NEW f, NEW o, NEW p, NEW n, IsRoot(f, o),
         n \notin DOMAIN o, DOMAIN p = DOMAIN o \cup {n},
         \A r \in DOMAIN o : p[r] = o[r],
         \A r \in DOMAIN o : o[r].from # 0 => o[r].from \in DOMAIN o,
         p[n].from = 0 \/ p[n].from \in DOMAIN o
  PROVE  \E g : IsRoot(g, p)
<1> DEFINE g == [r \in DOMAIN p |->
                   IF r # n THEN f[r]
                   ELSE IF p[n].from = 0 THEN n ELSE f[p[n].from]]
<1>1. \A r \in DOMAIN o : f[r] = IF o[r].from = 0 THEN r ELSE f[o[r].from]
  BY DEF IsRoot
<1>2. ASSUME NEW r \in DOMAIN p
      PROVE  g[r] = IF p[r].from = 0 THEN r ELSE g[p[r].from]
  <2>1. \A s \in DOMAIN o : s # n /\ s \in DOMAIN p /\ g[s] = f[s]
    OBVIOUS
  <2>2. CASE r = n
    BY <2>1, <2>2
  <2>3. CASE r \in DOMAIN o
    <3>1. g[r] = f[r] /\ p[r] = o[r]
      BY <2>1, <2>3
    <3>2. o[r].from # 0 => g[o[r].from] = f[o[r].from]
      BY <2>1, <2>3
    <3> QED
      BY <1>1, <2>3, <3>1, <3>2
  <2> QED
    BY <2>2, <2>3
<1>3. g = [r \in DOMAIN p |-> g[r]]
  OBVIOUS
<1> HIDE DEF g
<1>4. IsRoot(g, p)
  BY <1>2, <1>3 DEF IsRoot
<1> QED
  BY <1>4

(* The root of a row is that of the row it was made from.                  *)
LEMMA RootOf ==
  ASSUME NEW g, NEW p, IsRoot(g, p), NEW n \in DOMAIN p, NEW m,
         p[n].from = m, m # 0
  PROVE  g[n] = g[m]
<1>1. \A r \in DOMAIN p : g[r] = IF p[r].from = 0 THEN r ELSE g[p[r].from]
  BY DEF IsRoot
<1> QED
  BY <1>1

(* The roots of the older rows are those they had.                         *)
LEMMA RootRestricts ==
  ASSUME NEW g, NEW o, NEW p, NEW n, IsRoot(g, p),
         n \notin DOMAIN o, DOMAIN p = DOMAIN o \cup {n},
         \A r \in DOMAIN o : p[r] = o[r],
         \A r \in DOMAIN o : o[r].from # 0 => o[r].from \in DOMAIN o
  PROVE  \E f : IsRoot(f, o) /\ \A r \in DOMAIN o : f[r] = g[r]
<1> DEFINE f == [r \in DOMAIN o |-> g[r]]
<1>1. \A r \in DOMAIN p : g[r] = IF p[r].from = 0 THEN r ELSE g[p[r].from]
  BY DEF IsRoot
<1>2. \A r \in DOMAIN o : f[r] = IF o[r].from = 0 THEN r ELSE f[o[r].from]
  BY <1>1
<1>3. f = [r \in DOMAIN o |-> f[r]]
  OBVIOUS
<1>4. IsRoot(f, o)
  <2> HIDE DEF f
  <2> QED
    BY <1>2, <1>3 DEF IsRoot
<1>5. \A r \in DOMAIN o : f[r] = g[r]
  OBVIOUS
<1> HIDE DEF f
<1> QED
  BY <1>1, <1>4, <1>5

(* A call that adds no row and rewrites none.                              *)
LEMMA DescentStays ==
  ASSUME IInv, Descent, DOMAIN rows' = DOMAIN rows, origin' = origin,
         \A r \in DOMAIN rows : rows'[r].column_oids = rows[r].column_oids,
         \A c \in Column : next_oid'[c] \in Nat /\ next_oid[c] <= next_oid'[c]
  PROVE  Descent'
<1>1. ASSUME NEW r \in DOMAIN rows, NEW c \in Column
      PROVE  rows'[r].column_oids[c] < next_oid'[c]
  <2>1. /\ rows[r].column_oids[c] \in Nat /\ next_oid[c] \in Nat
        /\ rows[r].column_oids[c] < next_oid[c]
    BY DEF IInv, TypeOK, StoreTypeOK, RowType, Oid, Descent
  <2> QED
    BY <2>1
<1>2. \A f : IsRoot(f, origin) => SharedUnder(f)'
  BY DEF Descent, SharedUnder
<1> QED
  BY <1>1, <1>2 DEF Descent, IsRoot

(* A call that adds a row, each of whose values is new, or taken over from *)
(* the row it was made from.                                               *)
LEMMA DescentGrows ==
  ASSUME IInv, Descent, NEW n, NEW from \in DOMAIN rows \cup {0}, NEW by,
         n \notin DOMAIN rows, DOMAIN rows' = DOMAIN rows \cup {n},
         DOMAIN origin' = DOMAIN rows \cup {n},
         \A r \in DOMAIN rows :
           rows'[r].column_oids = rows[r].column_oids /\ origin'[r] = origin[r],
         origin'[n] = [by |-> by, from |-> from],
         \A c \in Column : next_oid'[c] \in Nat /\ next_oid[c] <= next_oid'[c],
         \A c \in Column :
           \/ rows'[n].column_oids[c] = 0
           \/ /\ rows'[n].column_oids[c] = next_oid[c]
              /\ next_oid[c] < next_oid'[c]
           \/ /\ from # 0
              /\ rows'[n].column_oids[c] = rows[from].column_oids[c]
  PROVE  Descent'
<1>1. DOMAIN origin = DOMAIN rows /\ origin'[n].from = from
  BY DEF IInv, TypeOK
<1>2. 0 \notin DOMAIN rows
  BY TableAssumption DEF IInv, TypeOK, StoreTypeOK
<1>3. \A r \in DOMAIN rows, c \in Column :
        /\ rows[r].column_oids[c] \in Nat /\ next_oid[c] \in Nat \ {0}
        /\ rows[r].column_oids[c] < next_oid[c]
  BY DEF IInv, TypeOK, StoreTypeOK, RowType, Oid, Descent
<1>4. ASSUME NEW r \in DOMAIN rows'
      PROVE  origin'[r].from # 0 => origin'[r].from \in DOMAIN rows'
  BY <1>1 DEF Descent
<1>5. ASSUME NEW r \in DOMAIN rows', NEW c \in Column
      PROVE  rows'[r].column_oids[c] < next_oid'[c]
  <2>1. next_oid[c] \in Nat \ {0}
    BY DEF IInv, TypeOK, StoreTypeOK
  <2>2. CASE r = n
    BY <1>3, <2>1, <2>2
  <2>3. CASE r \in DOMAIN rows
    BY <1>3, <2>3
  <2> QED
    BY <2>2, <2>3
<1>6. \A r \in DOMAIN origin : origin[r].from # 0 => origin[r].from \in DOMAIN origin
  BY <1>1 DEF Descent
<1>7. \E g : IsRoot(g, origin')
  <2>1. PICK f : IsRoot(f, origin)
    BY DEF Descent
  <2>2. origin'[n].from = 0 \/ origin'[n].from \in DOMAIN origin
    BY <1>1
  <2> QED
    BY <1>1, <1>6, <2>1, <2>2, RootExtends
<1>8. ASSUME NEW g, IsRoot(g, origin')
      PROVE  SharedUnder(g)'
  <2>1. /\ \E f : IsRoot(f, origin) /\ \A r \in DOMAIN origin : f[r] = g[r]
        /\ from # 0 => g[n] = g[from]
    <3>1. n \notin DOMAIN origin /\ DOMAIN origin' = DOMAIN origin \cup {n}
      BY <1>1
    <3>2. \A r \in DOMAIN origin : origin'[r] = origin[r]
      BY <1>1
    <3>3. IsRoot(g, origin')
      BY <1>8
    <3>4. \E f : IsRoot(f, origin) /\ \A r \in DOMAIN origin : f[r] = g[r]
      BY <1>6, <3>1, <3>2, <3>3, RootRestricts, Zenon
    <3>5. n \in DOMAIN origin' /\ origin'[n].from = from
      BY <1>1, <3>1
    <3>6. ASSUME from # 0 PROVE g[n] = g[from]
      BY <3>3, <3>5, <3>6, RootOf
    <3> QED
      BY <3>4, <3>6
  <2>2. PICK f : IsRoot(f, origin) /\ \A r \in DOMAIN origin : f[r] = g[r]
    BY <2>1
  <2>3. SharedUnder(f) /\ \A r \in DOMAIN rows : f[r] = g[r]
    BY <1>1, <2>2 DEF Descent
  <2>4. ASSUME NEW r \in DOMAIN rows, NEW s \in DOMAIN rows, NEW c \in Column,
               rows[r].column_oids[c] = rows[s].column_oids[c],
               rows[r].column_oids[c] # 0
        PROVE  g[r] = g[s]
    BY <2>3, <2>4 DEF SharedUnder
  <2>5. ASSUME NEW s \in DOMAIN rows, NEW c \in Column,
               rows'[n].column_oids[c] = rows[s].column_oids[c],
               rows[s].column_oids[c] # 0
        PROVE  g[n] = g[s]
    <3>1. rows'[n].column_oids[c] # next_oid[c]
      BY <1>3, <2>5
    <3>2. /\ from # 0 /\ from \in DOMAIN rows
          /\ rows[from].column_oids[c] = rows[s].column_oids[c]
      BY <2>5, <3>1
    <3> QED
      BY <2>1, <2>4, <2>5, <3>2
  <2> SUFFICES ASSUME NEW r \in DOMAIN rows', NEW s \in DOMAIN rows', NEW c \in Column,
                      rows'[r].column_oids[c] = rows'[s].column_oids[c],
                      rows'[r].column_oids[c] # 0
               PROVE  g[r] = g[s]
    BY DEF SharedUnder
  <2>6. CASE r = n /\ s = n
    BY <2>6
  <2>7. CASE r = n /\ s \in DOMAIN rows
    BY <2>5, <2>7
  <2>8. CASE r \in DOMAIN rows /\ s = n
    BY <2>5, <2>8
  <2>9. CASE r \in DOMAIN rows /\ s \in DOMAIN rows
    BY <2>4, <2>9
  <2> QED
    BY <2>6, <2>7, <2>8, <2>9
<1> QED
  BY <1>4, <1>5, <1>7, <1>8 DEF Descent

(* Object ids are given out in order; if the call succeeds, one for each   *)
(* column that is present.                                                 *)
LEMMA IdsGrow ==
  ASSUME IInv, NEW present \in SUBSET Column, NEW supplied \in Nat,
         TakeIds(present, supplied)
  PROVE  /\ \A c \in Column : next_oid'[c] \in Nat /\ next_oid[c] <= next_oid'[c]
         /\ InsertCode(present, supplied) = "SUCCESS" =>
              \A c \in present : next_oid[c] < next_oid'[c]
<1>1. /\ next_oid \in [Column -> Nat \ {0}]
      /\ next_oid' = [c \in Column |->
           IF c \in Numbered(present, supplied) THEN next_oid[c] + 1
           ELSE next_oid[c]]
  BY DEF IInv, TypeOK, StoreTypeOK, TakeIds
<1>2. \A c \in Column : next_oid'[c] \in Nat /\ next_oid[c] <= next_oid'[c]
  BY <1>1
<1>3. ASSUME InsertCode(present, supplied) = "SUCCESS", NEW c \in present
      PROVE  next_oid[c] < next_oid'[c]
  <2>1. Stops(present, supplied) = {}
    BY <1>3 DEF InsertCode
  <2>2. {d \in present : d < c} \in SUBSET present
    OBVIOUS
  <2>3. Needed(present, c) \in Nat
    BY <2>2, TableAssumption, FS_Subset, FS_CardinalityType DEF Needed
  <2>4. c \in Numbered(present, supplied)
    BY <2>1, <2>3 DEF Numbered, Reached, Stops
  <2> QED
    BY <1>1, <2>4
<1> QED
  BY <1>2, <1>3

(* insert_row gives each value it stores an id of its own.                 *)
LEMMA InsertDescent ==
  ASSUME IInv, Descent, NEW t \in TxnId, NEW present \in SUBSET Column,
         NEW supplied \in Nat, InsertRow(t, present, supplied)
  PROVE  Descent'
<1> DEFINE n == row_id_generator + 1
<1>1. /\ TakeIds(present, supplied)
      /\ \A c \in Column : next_oid'[c] \in Nat /\ next_oid[c] <= next_oid'[c]
  BY IdsGrow DEF InsertRow
<1>2. CASE UNCHANGED <<rows, origin>>
  BY <1>1, <1>2, DescentStays
<1>3. CASE /\ InsertCode(present, supplied) = "SUCCESS"
           /\ rows' = RowsWith(rows, Inserted(t, present))
           /\ origin' = OriginWith(t, 0)
  <2>1. n \notin DOMAIN rows /\ DOMAIN origin = DOMAIN rows
    BY <1>1, TakenIds DEF IInv, TypeOK
  <2>2. /\ DOMAIN rows' = DOMAIN rows \cup {n} /\ DOMAIN origin' = DOMAIN rows \cup {n}
        /\ \A r \in DOMAIN rows : rows'[r] = rows[r] /\ origin'[r] = origin[r]
        /\ rows'[n] = Inserted(t, present)
        /\ origin'[n] = [by |-> t, from |-> 0]
    BY <1>3, <2>1 DEF RowsWith, OriginWith
  <2>3. \A c \in Column :
          \/ rows'[n].column_oids[c] = 0
          \/ /\ rows'[n].column_oids[c] = next_oid[c]
             /\ next_oid[c] < next_oid'[c]
    BY <1>1, <1>3, <2>2, IdsGrow DEF Inserted, NewRow
  <2> HIDE DEF n
  <2> QED
    BY <1>1, <2>1, <2>2, <2>3, DescentGrows
<1> QED
  BY <1>2, <1>3 DEF InsertRow

(* update_row takes over the values it is not given, from the version it   *)
(* replaces.                                                               *)
LEMMA UpdateDescent ==
  ASSUME IInv, Descent, NEW t \in TxnId, NEW rid \in RowId,
         NEW present \in SUBSET Column, NEW supplied \in Nat, NEW level \in Level,
         UpdateRow(t, rid, present, supplied, level)
  PROVE  Descent'
<1>1. CASE UpdateRefused(t, rid, level)
  <2>1. UNCHANGED <<rows, origin, next_oid>>
    BY <1>1 DEF UpdateRefused, storeVars, pageVars, historyVars
  <2>2. \A c \in Column : next_oid'[c] \in Nat /\ next_oid[c] <= next_oid'[c]
    BY <2>1 DEF IInv, TypeOK, StoreTypeOK
  <2> QED
    BY <2>1, <2>2, DescentStays
<1>2. CASE UpdateAdmitted(t, rid, present, supplied, level)
  <2> DEFINE older == Lock(rows[rid], t)
             locked == [rows EXCEPT ![rid] = older]
             newer == Update(Inserted(t, present), t, present, older)
             n == row_id_generator + 1
             oids == [c \in Column |-> IF c \in present THEN next_oid[c] ELSE 0]
  <2>1. /\ rid \in DOMAIN rows /\ MayLock(rows[rid], t)
        /\ TakeIds(present, supplied)
        /\ rows' = UpdatedRows(t, rid, present, supplied)
        /\ \A c \in Column : next_oid'[c] \in Nat /\ next_oid[c] <= next_oid'[c]
    BY <1>2, IdsGrow DEF UpdateAdmitted, Updatable
  <2>2. rows[rid] \in Rows
    BY <2>1 DEF IInv, TypeOK, StoreTypeOK, Rows
  <2>3. /\ older \in Rows /\ older.transaction_lock_id = t
        /\ older.column_oids = rows[rid].column_oids
    BY <2>1, <2>2, LockedRow
  <2>4. oids \in [Column -> Oid] /\ Inserted(t, present) = NewRow(t, oids)
    BY DEF IInv, TypeOK, StoreTypeOK, Oid, Inserted
  <2>5. \A c \in Column : oids[c] = IF c \in present THEN next_oid[c] ELSE 0
    OBVIOUS
  <2> HIDE DEF older, oids
  <2>6. \A c \in Column : newer.column_oids[c] =
          IF c \in present THEN oids[c] ELSE older.column_oids[c]
    <3>1. newer = Update(NewRow(t, oids), t, present, older)
      BY <2>4
    <3>2. LET new == Update(NewRow(t, oids), t, present, older)
          IN  /\ new \in Rows
              /\ new.transaction_lock_id = t
              /\ \A c \in Column : new.column_oids[c] =
                   IF c \in present THEN oids[c] ELSE older.column_oids[c]
      <4> HIDE DEF newer
      <4> QED
        BY ONLY <2>3, <2>4, t \in TxnId, UpdatedRow
    <3> QED
      BY <3>1, <3>2
  <2> HIDE DEF newer
  <2>7. /\ DOMAIN locked = DOMAIN rows
        /\ \A r \in DOMAIN rows : locked[r].column_oids = rows[r].column_oids
    BY <2>1, <2>3
  <2>8. CASE rows' = locked /\ UNCHANGED origin
    <3> HIDE DEF locked
    <3> QED
      BY <2>1, <2>7, <2>8, DescentStays
  <2>9. CASE /\ InsertCode(present, supplied) = "SUCCESS"
             /\ rows' = RowsWith([rows EXCEPT ![rid] = Remove(older, t)], newer)
             /\ origin' = OriginWith(t, rid)
    <3>1. rows' = RowsWith(locked, newer)
      BY <2>3, <2>9, RemovedRow
    <3>2. n \notin DOMAIN rows /\ DOMAIN origin = DOMAIN rows
      BY <2>1, TakenIds DEF IInv, TypeOK
    <3> HIDE DEF locked
    <3>3. /\ DOMAIN rows' = DOMAIN rows \cup {n}
          /\ DOMAIN origin' = DOMAIN rows \cup {n}
          /\ \A r \in DOMAIN rows : rows'[r] = locked[r] /\ origin'[r] = origin[r]
          /\ rows'[n] = newer
          /\ origin'[n] = [by |-> t, from |-> rid]
      BY <2>7, <2>9, <3>1, <3>2 DEF RowsWith, OriginWith
    <3>4. rid # 0
      BY TableAssumption
    <3>5. \A c \in Column :
            \/ /\ rows'[n].column_oids[c] = next_oid[c]
               /\ next_oid[c] < next_oid'[c]
            \/ rows'[n].column_oids[c] = rows[rid].column_oids[c]
      BY <2>1, <2>3, <2>5, <2>6, <2>9, <3>3, IdsGrow
    <3> HIDE DEF n
    <3> QED
      BY <2>1, <2>7, <3>2, <3>3, <3>4, <3>5, DescentGrows
  <2> QED
    BY <1>2, <2>8, <2>9 DEF UpdateAdmitted, UpdatedRows, older, locked, newer
<1> QED
  BY <1>1, <1>2 DEF UpdateRow

(* Each call.                                                              *)
LEMMA StepDescent ==
  ASSUME IInv, Descent, [Next]_vars
  PROVE  Descent'
<1>1. ASSUME NEW present \in SUBSET Column,
             NEW supplied \in 0..Cardinality(present)
      PROVE  supplied \in Nat
  <2>1. IsFiniteSet(present)
    BY TableAssumption, FS_Subset
  <2> QED
    BY <2>1, FS_CardinalityType
<1>2. ASSUME UNCHANGED <<origin, next_oid>>, DOMAIN rows' = DOMAIN rows,
             \A r \in DOMAIN rows : rows'[r].column_oids = rows[r].column_oids
      PROVE  Descent'
  <2>1. \A c \in Column : next_oid'[c] \in Nat /\ next_oid[c] <= next_oid'[c]
    BY <1>2 DEF IInv, TypeOK, StoreTypeOK
  <2> QED
    BY <1>2, <2>1, DescentStays
<1>3. ASSUME NEW t \in TxnId, NEW rid \in RowId, CommitRow(t, rid)
      PROVE  Descent'
  <2>1. /\ UNCHANGED <<origin, next_oid>>
        /\ rows' = IF rid \in DOMAIN rows
                     THEN [rows EXCEPT ![rid] = Commit(@, t)] ELSE rows
    BY <1>3 DEF CommitRow, pageVars, historyVars
  <2>2. rid \in DOMAIN rows =>
          Commit(rows[rid], t).column_oids = rows[rid].column_oids
    BY CommittedRow DEF IInv, TypeOK, StoreTypeOK, Rows
  <2> QED
    BY <1>2, <2>1, <2>2
<1>4. CASE UNCHANGED vars
  BY <1>2, <1>4 DEF vars, tableVars, storeVars, pageVars, historyVars
<1>5. ASSUME NEW t \in TxnId, NEW rid \in RowId, NEW present \in SUBSET Column,
             NEW level \in Level, FetchRow(t, rid, present, level)
      PROVE  Descent'
  BY <1>2, <1>5 DEF FetchRow, storeVars, pageVars
<1>6. ASSUME NEW t \in TxnId, Finish(t)
      PROVE  Descent'
  BY <1>2, <1>6 DEF Finish, storeVars, pageVars, historyVars
<1> QED
  BY <1>1, <1>3, <1>4, <1>5, <1>6, InsertDescent, UpdateDescent DEF Next, CallsOf

(* root is what its equation says, since the rows have roots.              *)
LEMMA RootIs == Descent => IsRoot(root, origin)
<1> SUFFICES ASSUME Descent PROVE IsRoot(root, origin)
  OBVIOUS
<1>1. \E f : f = [r \in DOMAIN origin |->
                    IF origin[r].from = 0 THEN r ELSE f[origin[r].from]]
  BY DEF Descent, IsRoot
<1> QED
  BY <1>1, Zenon DEF root, IsRoot

(* Rows share a value only if they descend from the same insertion.        *)
THEOREM DescentShared == Spec => []SharedOnlyByDescent
<1>1. Init => Descent
  <2> SUFFICES ASSUME Init PROVE Descent
    OBVIOUS
  <2>1. DOMAIN rows = {} /\ DOMAIN origin = {}
    BY DEF Init, StoreInit
  <2>2. \E f : IsRoot(f, origin)
    <3> DEFINE none == [r \in DOMAIN origin |-> 0]
    <3>1. IsRoot(none, origin)
      BY <2>1 DEF IsRoot
    <3> QED
      BY <3>1
  <2> QED
    BY <2>1, <2>2 DEF Descent, SharedUnder
<1>2. Descent => SharedOnlyByDescent
  <2> SUFFICES ASSUME Descent PROVE SharedOnlyByDescent
    OBVIOUS
  <2>1. SharedUnder(root)
    BY RootIs DEF Descent
  <2> QED
    BY <2>1 DEF SharedUnder, SharedOnlyByDescent
<1> QED
  BY <1>1, <1>2, StepDescent, InvCorrect, PTL DEF Spec
=============================================================================
