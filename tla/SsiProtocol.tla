---------------------------- MODULE SsiProtocol -----------------------------
(***************************************************************************)
(* Serializable transactions over the lock manager, following the call     *)
(* protocol of src/tests/test_cell_table.cpp and                           *)
(* src/tests/test_cell_ssi_lock_manager.cpp: any number of track_read and  *)
(* track_write calls, then check_for_conflicts on the committing           *)
(* transaction; commit if there is no conflict, abort the transaction it   *)
(* names otherwise.  Calls of different transactions interleave.           *)
(*                                                                         *)
(* A row id names one version of a row: update_row gives the new version a *)
(* new row id and calls track_write with the old one.  So a transaction    *)
(* that reads row i and another that writes row i are in rw-antidependency *)
(* whichever call comes first.                                             *)
(***************************************************************************)
EXTENDS SsiLockManager, Sequences

VARIABLES
  status,    (* where each transaction is in the protocol                  *)
  (* History variables; no action reads them.                              *)
  reads,     (* every row a transaction has read                           *)
  replaced,  (* every row a transaction has written                        *)
  met,       (* the transactions it was active together with               *)
  antidep,   (* <<r, w>>: r read a row, then w replaced it, the two having *)
             (* met; forgotten when r ends                                 *)
  everAntidep (* the same, never forgotten                                 *)

clientVars == <<status, reads, replaced, met, antidep, everAntidep>>
vars == <<lmVars, clientVars>>

Row == TableId \X RowId

TypeOK ==
  /\ LmTypeOK
  /\ status \in [TxnId -> {"idle", "active", "committed", "aborted"}]
  /\ reads \in [TxnId -> SUBSET Row]
  /\ replaced \in [TxnId -> SUBSET Row]
  /\ met \in [TxnId -> SUBSET TxnId]
  /\ antidep \subseteq TxnId \X TxnId
  /\ everAntidep \subseteq TxnId \X TxnId

Init ==
  /\ LmInit
  /\ status = [t \in TxnId |-> "idle"]
  /\ reads = [t \in TxnId |-> {}]
  /\ replaced = [t \in TxnId |-> {}]
  /\ met = [t \in TxnId |-> {}]
  /\ antidep = {}
  /\ everAntidep = {}

-----------------------------------------------------------------------------
Running(t) == ~crashed /\ status[t] \in {"idle", "active"}

(* What a call of t does to the history of who ran together with whom.     *)
Meet(t) ==
  /\ status' = [status EXCEPT ![t] = "active"]
  /\ met' = IF t \in active_transactions THEN met
            ELSE [u \in TxnId |->
                    IF u = t THEN active_transactions
                    ELSE IF u \in active_transactions THEN met[u] \cup {t}
                    ELSE met[u]]

(* The antidependencies that t's write of a row makes.                     *)
NewAntidep(t, tbl, rid) ==
  {<<r, t>> : r \in {u \in TxnId \ {t} : <<tbl, rid>> \in reads[u]
                                         /\ t \in met'[u]}}

Read(t, tbl, rid) ==
  /\ Running(t)
  /\ TrackRead(t, tbl, rid)
  /\ Meet(t)
  /\ reads' = [reads EXCEPT ![t] = @ \cup {<<tbl, rid>>}]
  /\ UNCHANGED <<replaced, antidep, everAntidep>>

Write(t, tbl, rid) ==
  /\ Running(t)
  /\ TrackWrite(t, tbl, rid)
  /\ Meet(t)
  /\ replaced' = [replaced EXCEPT ![t] = @ \cup {<<tbl, rid>>}]
  /\ antidep' = antidep \cup NewAntidep(t, tbl, rid)
  /\ everAntidep' = everAntidep \cup NewAntidep(t, tbl, rid)
  /\ UNCHANGED reads

End(t, how) ==
  /\ Collect(t)
  /\ status' = [status EXCEPT ![t] = how]
  /\ antidep' = {e \in antidep : e[1] # t}
  /\ UNCHANGED <<reads, replaced, met, everAntidep>>

(* check_for_conflicts(t) found nothing: t commits.                        *)
Commit(t) ==
  /\ ~crashed /\ status[t] = "active"
  /\ NoTxn \in CheckForConflicts(t)
  /\ End(t, "committed")

(* check_for_conflicts(t) named a transaction: it is aborted.              *)
Resolve(t) ==
  /\ ~crashed /\ status[t] = "active"
  /\ \E v \in CheckForConflicts(t) \ {NoTxn} : End(v, "aborted")

(* A transaction that gives up on its own account.                         *)
Rollback(t) ==
  /\ ~crashed /\ status[t] = "active"
  /\ End(t, "aborted")

Next ==
  \E t \in TxnId :
    \/ \E tbl \in TableId, rid \in RowId : Read(t, tbl, rid)
    \/ \E tbl \in TableId, rid \in RowId : Write(t, tbl, rid)
    \/ Commit(t)
    \/ Resolve(t)
    \/ Rollback(t)

Spec == Init /\ [][Next]_vars

-----------------------------------------------------------------------------
(***************************************************************************)
(* What holds.                                                             *)
(***************************************************************************)

(* Two active transactions always list each other as concurrent: neither   *)
(* del_transaction's tear-down nor a later add_transaction loses a pair    *)
(* that is still running.                                                  *)
ActiveMutuallyConcurrent ==
  ~crashed => \A t, u \in active_transactions :
    t # u => /\ t \in DOMAIN concurrent_transactions
             /\ u \in concurrent_transactions[t]

(* While somebody who ran together with u can still write, every read of u *)
(* is on record, also after u has ended: tearing down read locks never     *)
(* hides an antidependency that is still possible.                         *)
ReadLocksKept ==
  ~crashed => \A u \in TxnId : \A t \in active_transactions :
    t \in met[u] => range_map[u] = reads[u]

(* dep_map is neither short nor long: while one of the two is active every *)
(* antidependency is there, and an active reader has no other ones.        *)
DependenciesExact ==
  ~crashed => \A r, w \in TxnId :
    /\ <<r, w>> \in antidep /\ {r, w} \cap active_transactions # {}
         => w \in dep_map[r]
    /\ r \in active_transactions /\ w \in dep_map[r] => <<r, w>> \in antidep

(* When the last active transaction ends nothing of the past is left       *)
(* behind (test CanCollectAllTransactions), whatever the calls before.     *)
QuiescentIsEmpty ==
  active_transactions = {} =>
    /\ DOMAIN concurrent_transactions = {}
    /\ \A t \in TxnId : range_map[t] = {} /\ dep_map[t] = {}

(* The transaction check_for_conflicts has aborted has not ended before:   *)
(* a committed transaction is never the victim.                            *)
VictimsAreLive ==
  [][\A t \in TxnId : status[t] \in {"committed", "aborted"}
                        => status'[t] = status[t]]_vars

(* add_transaction faults in one situation only: a transaction begins      *)
(* while just one other runs, and that one has had company before.  As     *)
(* long as two or more run, or one that was always alone, the next one can *)
(* begin, however many have come and gone.                                 *)
FaultNeedsLoner ==
  [][crashed' # crashed =>
       \E t \in active_transactions :
         active_transactions = {t} /\ met[t] # {}]_vars

(* Two transactions that ran together and each replaced what the other had *)
(* read do not both commit, whichever asks first and whatever has been     *)
(* collected in between -- unless a third transaction read a row that one  *)
(* of them replaced.                                                       *)
ThirdReader(t, u) ==
  \E r \in TxnId \ {t, u} : reads[r] \cap (replaced[t] \cup replaced[u]) # {}

SkewNeedsThirdReader ==
  \A t, u \in TxnId :
    /\ status[t] = "committed" /\ status[u] = "committed"
    /\ <<t, u>> \in everAntidep /\ <<u, t>> \in everAntidep
    => ThirdReader(t, u)

-----------------------------------------------------------------------------
(***************************************************************************)
(* The invariant behind them, inductive until the process dies.            *)
(***************************************************************************)
ActiveIsRunning ==
  active_transactions = {t \in TxnId : status[t] = "active"}

(* Nothing is known of a transaction before its first call.                *)
IdleIsUnknown ==
  \A t \in TxnId : status[t] = "idle" =>
    /\ t \notin DOMAIN concurrent_transactions
    /\ range_map[t] = {} /\ reads[t] = {} /\ dep_map[t] = {}
    /\ \A u \in TxnId :
         /\ t \notin met[u]
         /\ {<<u, t>>, <<t, u>>} \cap (antidep \cup everAntidep) = {}

(* An active transaction's entry lists exactly the other active ones; one  *)
(* without an entry is alone.                                              *)
EntriesAreOthers ==
  \A t \in active_transactions :
    IF t \in DOMAIN concurrent_transactions
      THEN concurrent_transactions[t] = active_transactions \ {t}
      ELSE active_transactions = {t}

ActiveHaveMet ==
  \A t \in TxnId :
    /\ t \notin met[t]
    /\ t \in active_transactions => active_transactions \ {t} \subseteq met[t]

LocksAreReads ==
  \A t \in TxnId :
    /\ range_map[t] \subseteq reads[t]
    /\ t \in active_transactions \cap DOMAIN concurrent_transactions
         => range_map[t] = reads[t]

(* What dep_map remembers has happened, and of an active reader nothing    *)
(* is forgotten.                                                           *)
DependenciesHappened ==
  /\ \A r \in TxnId : \A w \in dep_map[r] :
       w # r /\ reads[r] \cap replaced[w] # {}
  /\ \A e \in everAntidep :
       /\ e[1] # e[2]
       /\ status[e[1]] = "active" => e \in antidep

(* While one of two skewed transactions is active and the other has        *)
(* committed, both antidependencies are still on record.                   *)
SkewOnRecord ==
  \A t, u \in TxnId :
    /\ status[t] = "active" /\ status[u] = "committed"
    /\ <<t, u>> \in everAntidep /\ <<u, t>> \in everAntidep
    /\ ~ThirdReader(t, u)
    => <<u, t>> \in antidep

Consistent ==
  /\ ActiveIsRunning
  /\ IdleIsUnknown
  /\ EntriesAreOthers
  /\ ActiveHaveMet
  /\ LocksAreReads

IInv ==
  /\ TypeOK
  /\ ~crashed => Consistent
  /\ ReadLocksKept
  /\ DependenciesExact
  /\ QuiescentIsEmpty
  /\ DependenciesHappened
  /\ SkewOnRecord
  /\ SkewNeedsThirdReader

-----------------------------------------------------------------------------
(***************************************************************************)
(* What the comments and tests of the code say and the code does not do.   *)
(***************************************************************************)

(* ssi_lock_manager.h:58-61: a new transaction is "added as concurrent to  *)
(* all active transactions".  For an active transaction whose entry        *)
(* del_transaction tore down there is no entry to add it to.               *)
AddTransactionNeverFaults == ~crashed
=============================================================================
