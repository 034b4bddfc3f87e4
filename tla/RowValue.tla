------------------------------ MODULE RowValue ------------------------------
(***************************************************************************)
(* One version of a row and what a transaction may do with it              *)
(* (src/src/lib/cell/cpp/row_value.h).  A row is a record; an operation of *)
(* the class is a test of it and, where it changes the row, the new row.   *)
(* Transaction ids are numbers in the order they were handed out, 0 is the *)
(* empty id, which also stands for "unlocked" and "not deleted".           *)
(* An operator named Faulty... is a definition with a plausible mistake,   *)
(* used only to see that a property notices it.                            *)
(***************************************************************************)
EXTENDS Naturals

NoId == 0

(* The rows over a set of transaction ids, columns and object ids.         *)
RowType(Ids, Columns, Oids) ==
  [transaction_write_id   : Ids \cup {NoId},
   transaction_lock_id    : Ids \cup {NoId},
   transaction_deleted_id : Ids \cup {NoId},
   committed              : BOOLEAN,
   column_oids            : [Columns -> Oids]]

(* Faulty: a new row is not locked.                                        *)
FaultyNewRow(t, oids) ==
  [transaction_write_id   |-> t,
   transaction_lock_id    |-> NoId,
   transaction_deleted_id |-> NoId,
   committed              |-> FALSE,
   column_oids            |-> oids]

(* The constructor: locked by its writer until it is committed.            *)
NewRow(t, oids) ==
  [transaction_write_id   |-> t,
   transaction_lock_id    |-> t,
   transaction_deleted_id |-> NoId,
   committed              |-> FALSE,
   column_oids            |-> oids]

-----------------------------------------------------------------------------
IsLocked(row, t) ==
  row.transaction_lock_id # NoId /\ row.transaction_lock_id # t

(* Faulty: lock does not ask who holds the row.                            *)
FaultyMayLock(row, t) == TRUE

(* lock and unlock succeed on the same rows: free ones and one's own.      *)
MayLock(row, t) == ~IsLocked(row, t)
MayUnlock(row, t) == ~IsLocked(row, t)

(* Faulty: locking a version marks it as not committed.                    *)
FaultyLock(row, t) ==
  [row EXCEPT !.transaction_lock_id = t, !.committed = FALSE]

Lock(row, t) ==
  IF row.transaction_lock_id = NoId
    THEN [row EXCEPT !.transaction_lock_id = t] ELSE row

Unlock(row, t) ==
  IF row.transaction_lock_id = t
    THEN [row EXCEPT !.transaction_lock_id = NoId] ELSE row

(* update: the columns that are not present come from the older row.       *)
Update(row, t, present, older) ==
  IF IsLocked(row, t) THEN row
  ELSE [row EXCEPT !.column_oids =
          [c \in DOMAIN @ |-> IF c \in present THEN @[c]
                              ELSE older.column_oids[c]]]

(* remove: sets the tombstone where the row is locked -- that is, locked   *)
(* by somebody else -- and does nothing for the holder of the lock.        *)
Remove(row, t) ==
  IF IsLocked(row, t) THEN [row EXCEPT !.transaction_deleted_id = t] ELSE row

(* commit: unlock comes first, so the write id is taken from a lock id     *)
(* that has just been reset.                                               *)
Commit(row, t) ==
  IF MayUnlock(row, t)
    THEN LET unlocked == Unlock(row, t)
         IN  [unlocked EXCEPT
                !.committed = TRUE,
                !.transaction_write_id = unlocked.transaction_lock_id]
    ELSE row

-----------------------------------------------------------------------------
(* Faulty: an uncommitted row is tested like a committed one.              *)
FaultyOwnUncommitted(row, t) ==
  row.transaction_write_id <= t /\ row.transaction_deleted_id = NoId

OwnUncommitted(row, t) ==
  row.transaction_lock_id = t /\ row.transaction_deleted_id = NoId

IsVisible(row, t) ==
  IF row.committed
    THEN row.transaction_write_id <= t /\ row.transaction_deleted_id = NoId
    ELSE OwnUncommitted(row, t)

IsSnapshotVisible(row, t) ==
  IF row.committed
    THEN /\ row.transaction_write_id <= t
         /\ \/ row.transaction_deleted_id = NoId
            \/ row.transaction_deleted_id > t
    ELSE OwnUncommitted(row, t)

IsolationLevel ==
  {"READ_UNCOMMITTED", "READ_COMMITTED", "REPEATABLE_READ", "SERIALIZABLE"}

(* row_is_visible of table.cpp.                                            *)
RowIsVisible(row, t, level) ==
  /\ level = "READ_COMMITTED" => IsVisible(row, t)
  /\ level \in {"REPEATABLE_READ", "SERIALIZABLE"}
       => IsSnapshotVisible(row, t)
=============================================================================
