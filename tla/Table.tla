------------------------------- MODULE Table --------------------------------
(***************************************************************************)
(* A table of the cell (src/src/lib/cell/cpp/table.h, table.cpp) and its   *)
(* column pages, called by transactions with ids of their own.  Every call *)
(* runs to its end before the next one: the class has no lock and the      *)
(* callers are on one thread.  Calls of different transactions interleave. *)
(*                                                                         *)
(* An operator named Faulty... is a definition with a plausible mistake,   *)
(* used only to see that a property notices it.                            *)
(***************************************************************************)
EXTENDS TableStore, SsiLockManager

CONSTANTS
  Level,     (* the isolation levels the callers use                       *)
  SsiLm,     (* whether set_ssi_lock_manager was called                    *)
  TableNo    (* the id of the table                                        *)

ASSUME TableAssumption ==
  /\ MaxRow \in Nat
  /\ RowId = 1..MaxRow
  /\ Column \subseteq Nat
  /\ IsFiniteSet(Column)
  /\ Unstorable \subseteq Column
  /\ TxnId \subseteq Nat \ {NoId}
  /\ NoTxn = NoId
  /\ Level \subseteq IsolationLevel
  /\ SsiLm \in BOOLEAN
  /\ TableNo \in TableId

VARIABLES
  finished,          (* transactions that have ended                       *)
  (* History variables; no action reads them.                              *)
  call,              (* the caller of the last call, and whether it is one *)
                     (* the lock manager is to hear of                     *)
  origin,            (* for each row id, its inserter and the row it was   *)
                     (* made from (0: none)                                *)
  fetched            (* for each transaction, the rows whose fetch was     *)
                     (* reported to the lock manager                       *)

historyVars == <<origin, fetched>>
tableVars == <<storeVars, finished, call, historyVars>>
vars == <<lmVars, tableVars>>

TypeOK ==
  /\ LmTypeOK
  /\ StoreTypeOK(TxnId)
  /\ finished \subseteq TxnId
  /\ call \in [by : TxnId \cup {NoId}, tracked : BOOLEAN]
  /\ DOMAIN origin = DOMAIN rows
  /\ origin \in [DOMAIN rows -> [by : TxnId, from : RowId \cup {0}]]
  /\ fetched \in [TxnId -> SUBSET RowId]

Init ==
  /\ LmInit
  /\ StoreInit
  /\ finished = {}
  /\ call = [by |-> NoId, tracked |-> FALSE]
  /\ origin = [r \in {} |-> {}]
  /\ fetched = [t \in TxnId |-> {}]

(* Whether the isolation level makes the call one for the lock manager.    *)
Tracked(level) == level = "SERIALIZABLE" /\ SsiLm

(* A call by a transaction that has not ended.                             *)
Calls(t, level) ==
  /\ ~crashed
  /\ t \in TxnId \ finished
  /\ call' = [by |-> t, tracked |-> Tracked(level)]

-----------------------------------------------------------------------------
OriginWith(t, from) ==
  [r \in DOMAIN origin \cup {row_id_generator + 1} |->
     IF r = row_id_generator + 1 THEN [by |-> t, from |-> from]
     ELSE origin[r]]

InsertRow(t, present, supplied) ==
  /\ Calls(t, "READ_UNCOMMITTED")
  /\ TakeIds(present, supplied)
  /\ IF InsertCode(present, supplied) = "SUCCESS"
       THEN /\ rows' = RowsWith(rows, Inserted(t, present))
            /\ origin' = OriginWith(t, 0)
       ELSE UNCHANGED <<rows, origin>>
  /\ UNCHANGED <<lmVars, finished, fetched>>

(* commit_row ignores what row_value::commit returns.                      *)
CommitRow(t, rid) ==
  /\ Calls(t, "READ_UNCOMMITTED")
  /\ rows' = IF rid \in DOMAIN rows
                THEN [rows EXCEPT ![rid] = Commit(@, t)] ELSE rows
  /\ UNCHANGED <<lmVars, row_id_generator, pageVars, finished, historyVars>>

(* fetch_row: a read that succeeds is reported to the lock manager.        *)
FetchRow(t, rid, present, level) ==
  /\ Calls(t, level)
  /\ IF /\ FetchCode(t, rid, present, level) = "SUCCESS"
        /\ Tracked(level)
       THEN /\ TrackRead(t, TableNo, rid)
            /\ fetched' = [fetched EXCEPT ![t] = @ \cup {rid}]
       ELSE UNCHANGED <<lmVars, fetched>>
  /\ UNCHANGED <<storeVars, finished, origin>>

(* update_row: DOES_NOT_EXIST, ISOLATED or CONFLICT.                       *)
UpdateRefused(t, rid, level) ==
  /\ ~Updatable(t, rid, level)
  /\ UNCHANGED <<lmVars, storeVars, historyVars>>

(* update_row got past the lock; the write is reported if it succeeds.     *)
UpdateAdmitted(t, rid, present, supplied, level) ==
  LET succeeds == InsertCode(present, supplied) = "SUCCESS"
  IN  /\ Updatable(t, rid, level)
      /\ TakeIds(present, supplied)
      /\ rows' = UpdatedRows(t, rid, present, supplied)
      /\ origin' = IF succeeds THEN OriginWith(t, rid) ELSE origin
      /\ IF succeeds /\ Tracked(level)
           THEN TrackWrite(t, TableNo, rid)
           ELSE UNCHANGED lmVars
      /\ UNCHANGED fetched

UpdateRow(t, rid, present, supplied, level) ==
  /\ Calls(t, level)
  /\ \/ UpdateRefused(t, rid, level)
     \/ UpdateAdmitted(t, rid, present, supplied, level)
  /\ UNCHANGED finished

(* The end of a transaction: the lock manager collects it.                 *)
Finish(t) ==
  /\ Calls(t, "READ_UNCOMMITTED")
  /\ IF SsiLm THEN Collect(t) ELSE UNCHANGED lmVars
  /\ finished' = finished \cup {t}
  /\ UNCHANGED <<storeVars, historyVars>>

(* The calls of a transaction about given columns, rows and levels.  A     *)
(* buffer longer than the present columns need is read as far as needed.   *)
CallsOf(t, columns, ids, levels) ==
  \/ \E present \in SUBSET columns :
       \E supplied \in 0..Cardinality(present) :
         InsertRow(t, present, supplied)
  \/ \E rid \in ids : CommitRow(t, rid)
  \/ \E rid \in ids, present \in SUBSET columns, level \in levels :
       \/ FetchRow(t, rid, present, level)
       \/ \E supplied \in 0..Cardinality(present) :
            UpdateRow(t, rid, present, supplied, level)
  \/ Finish(t)

Next == \E t \in TxnId : CallsOf(t, Column, RowId, Level)

Spec == Init /\ [][Next]_vars

-----------------------------------------------------------------------------
(***************************************************************************)
(* What holds.                                                             *)
(***************************************************************************)

(* A version that is not committed stays locked by the transaction that    *)
(* inserted it: no lock, unlock or commit_row of another one gets at it,   *)
(* so the lock id can stand for the writer in the visibility tests.        *)
UncommittedIsLockedByWriter ==
  \A r \in DOMAIN rows :
    ~rows[r].committed => rows[r].transaction_lock_id = origin[r].by

(* READ_COMMITTED and above: what passes the isolation test of fetch_row   *)
(* and update_row is a committed version or one's own.                     *)
NoDirtyRead ==
  \A r \in DOMAIN rows, t \in TxnId :
    \A level \in IsolationLevel \ {"READ_UNCOMMITTED"} :
      RowIsVisible(rows[r], t, level)
        => rows[r].committed \/ origin[r].by = t

(* While a version is locked nobody but the holder of the lock changes it  *)
(* or derives a new version from it: the first to update it keeps the      *)
(* others out until it calls commit_row on the old version.                *)
LockExcludesOthers ==
  [][\A r \in DOMAIN rows :
       /\ rows[r].transaction_lock_id \notin {NoId, call'.by}
       => /\ rows'[r] = rows[r]
          /\ \A s \in DOMAIN rows' \ DOMAIN rows : origin'[s].from # r]_vars

(* The rows of the table are never dropped, their data is never rewritten  *)
(* in place and a committed version stays committed.                       *)
VersionsAreImmutable ==
  [][\A r \in DOMAIN rows :
       /\ r \in DOMAIN rows'
       /\ rows'[r].column_oids = rows[r].column_oids
       /\ rows[r].committed => rows'[r].committed]_vars

(* After any mixture of calls that failed half-way, fetch_row reports      *)
(* CORRUPT_PAGE only where it is asked for a column that was never given a *)
(* value: every object id in a row is held by the page of its column.      *)
OnlyNullIsCorrupt ==
  \A t \in TxnId, r \in DOMAIN rows, present \in SUBSET Column :
    FetchCode(t, r, present, "READ_UNCOMMITTED") = "CORRUPT_PAGE"
      => \E c \in present : rows[r].column_oids[c] = 0

(* The row that was inserted and that the updates leading to r began with. *)
root[r \in DOMAIN origin] ==
  IF origin[r].from = 0 THEN r ELSE root[origin[r].from]

(* Two rows share a stored value only if both descend from the same        *)
(* insertion: an update never copies the column of an unrelated row and an *)
(* object id is never given out twice, also after failed insertions.       *)
SharedOnlyByDescent ==
  \A r, s \in DOMAIN rows : \A c \in Column :
    /\ rows[r].column_oids[c] = rows[s].column_oids[c]
    /\ rows[r].column_oids[c] # 0
    => root[r] = root[s]

(* With a lock manager: a SERIALIZABLE update of a version that another    *)
(* running transaction has fetched with SERIALIZABLE isolation puts the    *)
(* updater down as its successor in dep_map, unless the call dies.         *)
AntidependencyNoted ==
  [][call'.tracked /\ ~crashed' =>
       \A s \in DOMAIN rows' \ DOMAIN rows :
         \A u \in TxnId \ (finished \cup {call'.by}) :
           origin'[s].from \in fetched[u] => call'.by \in dep_map'[u]]_vars
=============================================================================
