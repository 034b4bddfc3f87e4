----------------------------- MODULE TableStore -----------------------------
(***************************************************************************)
(* The rows of a table and its column pages (src/src/lib/cell/cpp/table.h, *)
(* table.cpp), with what each operation of the class reads and changes.    *)
(* Table and Cell conjoin these operators into their actions.              *)
(*                                                                         *)
(* A value is known by the object id under which its column page keeps it. *)
(* A buffer is known by how many values it holds.  An operator named       *)
(* Faulty... is a definition with a plausible mistake, used only to see    *)
(* that a property notices it.                                             *)
(***************************************************************************)
EXTENDS RowValue, FiniteSets

CONSTANTS
  MaxRow,    (* bound: insertions into the table                           *)
  Column,    (* the column numbers, in the order insert_row visits them    *)
  Unstorable (* columns of a type insert_row does not know (varchar)       *)

VARIABLES
  rows,              (* partial map: row id to row                         *)
  row_id_generator,  (* the last row id handed out                         *)
  next_oid,          (* for each column page, the next object id           *)
  stored             (* for each column page, the object ids it holds      *)

pageVars == <<next_oid, stored>>
storeVars == <<rows, row_id_generator, pageVars>>

Oid == Nat

(* Typing, for rows of the transactions in Ids.                            *)
StoreTypeOK(Ids) ==
  /\ row_id_generator \in 0..MaxRow
  /\ DOMAIN rows \subseteq 1..row_id_generator
  /\ rows \in [DOMAIN rows -> RowType(Ids, Column, Oid)]
  /\ next_oid \in [Column -> Nat \ {0}]
  /\ stored \in [Column -> SUBSET Oid]

StoreInit ==
  /\ rows = [r \in {} |-> {}]
  /\ row_id_generator = 0
  /\ next_oid = [c \in Column |-> 1]
  /\ stored = [c \in Column |-> {}]

-----------------------------------------------------------------------------
(***************************************************************************)
(* insert_row.  It takes a row id, then visits the columns in order; the   *)
(* present ones take an object id and store the next value of the buffer.  *)
(* It returns at the first column where the buffer is used up or the type  *)
(* is unknown, keeping the ids taken and the values stored until then.     *)
(***************************************************************************)
Needed(present, c) == Cardinality({d \in present : d < c})

Stops(present, supplied) ==
  {c \in present : Needed(present, c) >= supplied \/ c \in Unstorable}

Reached(present, supplied, c) ==
  \A d \in Stops(present, supplied) : c <= d

InsertCode(present, supplied) ==
  IF Stops(present, supplied) = {} THEN "SUCCESS"
  ELSE IF \E c \in Stops(present, supplied) :
            /\ Reached(present, supplied, c)
            /\ Needed(present, c) >= supplied
         THEN "UNDER_FLOW"
  ELSE "UNKNOWN_DATA_TYPE"

Stored(present, supplied) ==
  {c \in present : /\ Reached(present, supplied, c)
                   /\ c \notin Stops(present, supplied)}

(* The columns whose page gave out an object id.                           *)
Numbered(present, supplied) ==
  {c \in present : /\ Reached(present, supplied, c)
                   /\ Needed(present, c) < supplied}

(* Faulty: the row id generator is not advanced.                           *)
FaultyTakeIdsRow(present, supplied) ==
  /\ row_id_generator < MaxRow
  /\ UNCHANGED row_id_generator
  /\ next_oid' = [c \in Column |->
       IF c \in Numbered(present, supplied) THEN next_oid[c] + 1
       ELSE next_oid[c]]
  /\ stored' = [c \in Column |->
       IF c \in Stored(present, supplied) THEN stored[c] \cup {next_oid[c]}
       ELSE stored[c]]

(* Faulty: the pages give out the same object id again.                    *)
FaultyTakeIdsObject(present, supplied) ==
  /\ row_id_generator < MaxRow
  /\ row_id_generator' = row_id_generator + 1
  /\ UNCHANGED next_oid
  /\ stored' = [c \in Column |->
       IF c \in Stored(present, supplied) THEN stored[c] \cup {next_oid[c]}
       ELSE stored[c]]

TakeIds(present, supplied) ==
  /\ row_id_generator < MaxRow
  /\ row_id_generator' = row_id_generator + 1
  /\ next_oid' = [c \in Column |->
       IF c \in Numbered(present, supplied) THEN next_oid[c] + 1
       ELSE next_oid[c]]
  /\ stored' = [c \in Column |->
       IF c \in Stored(present, supplied) THEN stored[c] \cup {next_oid[c]}
       ELSE stored[c]]

(* Faulty: the row gets the object id after the one that was stored.       *)
FaultyInserted(t, present) ==
  NewRow(t, [c \in Column |-> IF c \in present THEN next_oid[c] + 1 ELSE 0])

Inserted(t, present) ==
  NewRow(t, [c \in Column |-> IF c \in present THEN next_oid[c] ELSE 0])

(* rows, with what the call leaves of the old ones and the row it adds.    *)
RowsWith(old, new) ==
  [r \in DOMAIN old \cup {row_id_generator + 1} |->
     IF r = row_id_generator + 1 THEN new ELSE old[r]]

-----------------------------------------------------------------------------
(***************************************************************************)
(* fetch_row.  A present column whose object id its page does not hold (0, *)
(* a column the insertion left out, never is) ends the call.               *)
(***************************************************************************)
FetchCode(t, rid, present, level) ==
  IF rid \notin DOMAIN rows THEN "DOES_NOT_EXIST"
  ELSE IF ~RowIsVisible(rows[rid], t, level) THEN "ISOLATED"
  ELSE IF \E c \in present : rows[rid].column_oids[c] \notin stored[c]
    THEN "CORRUPT_PAGE"
  ELSE "SUCCESS"

(***************************************************************************)
(* update_row.  It locks the old version, inserts a new one, copies the    *)
(* absent columns and removes the old one.  An insert that fails leaves    *)
(* the old version locked.                                                 *)
(***************************************************************************)
Updatable(t, rid, level) ==
  /\ rid \in DOMAIN rows
  /\ RowIsVisible(rows[rid], t, level)
  /\ MayLock(rows[rid], t)

(* The rows after an update_row that got past the lock.                    *)
UpdatedRows(t, rid, present, supplied) ==
  LET older == Lock(rows[rid], t)
      newer == Update(Inserted(t, present), t, present, older)
  IN  IF InsertCode(present, supplied) = "SUCCESS"
        THEN RowsWith([rows EXCEPT ![rid] = Remove(older, t)], newer)
        ELSE [rows EXCEPT ![rid] = older]
=============================================================================
