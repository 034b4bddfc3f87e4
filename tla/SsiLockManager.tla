--------------------------- MODULE SsiLockManager ---------------------------
(***************************************************************************)
(* The lock manager of serializable snapshot isolation                     *)
(* (src/src/lib/cell/cpp/ssi_lock_manager.h).  It never blocks anybody: it *)
(* remembers who read which row, notes an rw-antidependency when somebody  *)
(* else replaces that row, and looks for T1 -rw-> T2 -rw-> T3 before T3    *)
(* commits.                                                                *)
(*                                                                         *)
(* This module is the data structure: its four containers and one operator *)
(* per member function.  The modules that use it conjoin these operators   *)
(* into their actions.  A range of row ids is a set of row ids here        *)
(* (module Range shows that it behaves as one).                            *)
(*                                                                         *)
(* An operator named Faulty... is a definition with a plausible mistake;   *)
(* it is used to see that a property notices that mistake, and nowhere     *)
(* else.                                                                   *)
(***************************************************************************)

CONSTANTS
  TxnId,    (* transaction ids in use; the empty id is not one of them     *)
  TableId,
  RowId,
  NoTxn     (* transaction_id(), the empty id                              *)

ASSUME NoTxnAssumption == NoTxn \notin TxnId

VARIABLES
  range_map,               (* for each transaction, the rows it has read,  *)
                           (* as pairs of a table and a row                *)
  dep_map,                 (* for each reader, the writers that replaced   *)
                           (* something it had read                        *)
  concurrent_transactions, (* partial map: a transaction to those it ran   *)
                           (* together with                                *)
  active_transactions,
  crashed                  (* the process died in add_transaction          *)

lmVars == <<range_map, dep_map, concurrent_transactions,
            active_transactions, crashed>>

LmTypeOK ==
  /\ range_map \in [TxnId -> SUBSET (TableId \X RowId)]
  /\ dep_map \in [TxnId -> SUBSET TxnId]
  /\ DOMAIN concurrent_transactions \subseteq TxnId
  /\ concurrent_transactions \in
       [DOMAIN concurrent_transactions -> SUBSET TxnId]
  /\ active_transactions \subseteq TxnId
  /\ crashed \in BOOLEAN

LmInit ==
  /\ range_map = [t \in TxnId |-> {}]
  /\ dep_map = [t \in TxnId |-> {}]
  /\ concurrent_transactions = [t \in {} |-> {}]
  /\ active_transactions = {}
  /\ crashed = FALSE

-----------------------------------------------------------------------------
(***************************************************************************)
(* add_transaction.  A new transaction dereferences, without a test, the   *)
(* concurrent_transactions entry of every active one.  Where an entry is   *)
(* missing that is end()->second, a null node in every standard library    *)
(* the project builds with: the insertion faults and the process dies.     *)
(* emplace leaves an entry alone that is already there.                    *)
(***************************************************************************)
EntriesPresent(t) ==
  \/ t \in active_transactions
  \/ active_transactions \subseteq DOMAIN concurrent_transactions

(* Faulty: the active transactions do not hear of the new one.             *)
FaultyAddTransaction(t) ==
  /\ EntriesPresent(t)
  /\ active_transactions' = active_transactions \cup {t}
  /\ concurrent_transactions' =
       IF t \in active_transactions THEN concurrent_transactions
       ELSE [u \in DOMAIN concurrent_transactions \cup {t} |->
               IF u \in DOMAIN concurrent_transactions
                 THEN concurrent_transactions[u] ELSE active_transactions]
  /\ UNCHANGED crashed

(* Faulty: a transaction that begins alone gets no entry.                  *)
FaultyAddTransactionAlone(t) ==
  /\ EntriesPresent(t)
  /\ active_transactions' = active_transactions \cup {t}
  /\ concurrent_transactions' =
       IF t \in active_transactions \/ active_transactions = {}
         THEN concurrent_transactions
       ELSE [u \in DOMAIN concurrent_transactions \cup {t} |->
               IF u \in active_transactions
                 THEN concurrent_transactions[u] \cup {t}
               ELSE IF u \in DOMAIN concurrent_transactions
                 THEN concurrent_transactions[u]
               ELSE active_transactions]
  /\ UNCHANGED crashed

AddTransaction(t) ==
  /\ EntriesPresent(t)
  /\ active_transactions' = active_transactions \cup {t}
  /\ concurrent_transactions' =
       IF t \in active_transactions THEN concurrent_transactions
       ELSE [u \in DOMAIN concurrent_transactions \cup {t} |->
               IF u \in active_transactions
                 THEN concurrent_transactions[u] \cup {t}
               ELSE IF u \in DOMAIN concurrent_transactions
                 THEN concurrent_transactions[u]
               ELSE active_transactions]
  /\ UNCHANGED crashed

AddTransactionFaults(t) ==
  /\ ~EntriesPresent(t)
  /\ crashed' = TRUE
  /\ UNCHANGED <<range_map, dep_map, concurrent_transactions,
                 active_transactions>>

(***************************************************************************)
(* collect and del_transaction, which it calls.  abort(tid) and            *)
(* commit(tid) are both collect(tid, ...): its second argument is unused.  *)
(* The transactions in emptied have nobody left they ran together with:    *)
(* their entry and their read locks go, whether they have finished or not. *)
(***************************************************************************)
(* Faulty: the test for emptiness is missing.                              *)
FaultyEmptied(t) == concurrent_transactions[t] \cap DOMAIN concurrent_transactions

Emptied(t) ==
  {c \in concurrent_transactions[t] \cap DOMAIN concurrent_transactions :
     concurrent_transactions[c] \subseteq {t}}

DelTransaction(t) ==
  LET known == DOMAIN concurrent_transactions
      gone  == IF t \in known THEN Emptied(t) ELSE {}
  IN  /\ range_map' = [u \in TxnId |-> IF u \in gone THEN {} ELSE range_map[u]]
      /\ concurrent_transactions' =
           [u \in known \ gone |->
              IF t \notin known THEN concurrent_transactions[u]
              ELSE IF u = t THEN concurrent_transactions[t] \ gone
              ELSE IF u \in concurrent_transactions[t]
                THEN concurrent_transactions[u] \ {t}
              ELSE concurrent_transactions[u]]

(* Faulty: the last transaction leaves the maps as they are.               *)
FaultyCollectLast(t) ==
  /\ active_transactions' = active_transactions \ {t}
  /\ dep_map' = [dep_map EXCEPT ![t] = {}]
  /\ DelTransaction(t)
  /\ UNCHANGED crashed

(* Faulty: a transaction that ends is also removed from the writers of     *)
(* every reader.                                                           *)
FaultyCollectWriters(t) ==
  /\ active_transactions' = active_transactions \ {t}
  /\ dep_map' = [r \in TxnId |-> IF r = t THEN {} ELSE dep_map[r] \ {t}]
  /\ DelTransaction(t)
  /\ UNCHANGED crashed

Collect(t) ==
  /\ active_transactions' = active_transactions \ {t}
  /\ IF active_transactions' = {}
       THEN /\ range_map' = [u \in TxnId |-> {}]
            /\ dep_map' = [u \in TxnId |-> {}]
            /\ concurrent_transactions' = [u \in {} |-> {}]
       ELSE /\ dep_map' = [dep_map EXCEPT ![t] = {}]
            /\ DelTransaction(t)
  /\ UNCHANGED crashed

-----------------------------------------------------------------------------
(***************************************************************************)
(* track_read and track_write.                                             *)
(***************************************************************************)
TrackRead(t, tbl, rid) ==
  \/ /\ AddTransaction(t)
     /\ range_map' = [range_map EXCEPT ![t] = @ \cup {<<tbl, rid>>}]
     /\ UNCHANGED dep_map
  \/ AddTransactionFaults(t)

(* Faulty: readers that have ended are passed over.                        *)
FaultyOtherReaders(t, tbl, rid) ==
  {r \in active_transactions \ {t} : <<tbl, rid>> \in range_map[r]}

(* The transactions whose recorded reads contain the row, other than t.    *)
OtherReaders(t, tbl, rid) ==
  {r \in TxnId \ {t} : <<tbl, rid>> \in range_map[r]}

(* Faulty: the row is put down in place of the writer.                     *)
FaultyTrackWrite(t, tbl, rid) ==
  /\ AddTransaction(t)
  /\ dep_map' = [r \in TxnId |->
                   IF r \in OtherReaders(t, tbl, rid)
                     THEN dep_map[r] \cup {rid} ELSE dep_map[r]]
  /\ UNCHANGED range_map

TrackWrite(t, tbl, rid) ==
  \/ /\ AddTransaction(t)
     /\ dep_map' = [r \in TxnId |->
                      IF r \in OtherReaders(t, tbl, rid)
                        THEN dep_map[r] \cup {t} ELSE dep_map[r]]
     /\ UNCHANGED range_map
  \/ AddTransactionFaults(t)

-----------------------------------------------------------------------------
(***************************************************************************)
(* get_rw_dependency returns the first reader it meets in an unordered_map *)
(* whose order nothing fixes: any of them.  check_for_conflicts follows    *)
(* one such reader back one step more.  Its result is the set of victims   *)
(* the call may name, NoTxn standing for "no conflicts found".             *)
(***************************************************************************)
ReadersBefore(t) == {r \in TxnId \ {t} : t \in dep_map[r]}

GetRwDependency(t) ==
  IF ReadersBefore(t) = {} THEN {NoTxn} ELSE ReadersBefore(t)

(* Faulty: the pivot is aborted without a look at whether it still runs.   *)
FaultyVictim(t, t2, t1) == t2

Victim(t, t2, t1) ==
  IF t2 \in active_transactions THEN t2
  ELSE IF t1 \in active_transactions THEN t1
  ELSE t

CheckForConflicts(t) ==
  UNION {IF t2 = NoTxn THEN {NoTxn}
         ELSE {IF t1 = NoTxn THEN NoTxn ELSE Victim(t, t2, t1) :
                 t1 \in GetRwDependency(t2)} :
           t2 \in GetRwDependency(t)}
=============================================================================
