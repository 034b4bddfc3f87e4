------------------------- MODULE SsiProtocolProofs --------------------------
(***************************************************************************)
(* What the runs of SsiProtocol check for three transactions and two rows, *)
(* for any number of both.  The argument is an inductive invariant, IInv:  *)
(* as long as the process lives, the entries of concurrent_transactions    *)
(* are exact for the active transactions -- or missing, for one that is    *)
(* alone.  The lone transaction is the one whose read locks may be gone;   *)
(* it is also the one nobody can join any more.                            *)
(***************************************************************************)
EXTENDS SsiProtocol, TLAPS

(* The types are those of the initial state and every call keeps them.     *)
LEMMA TypeInit == Init => TypeOK
  BY DEF Init, LmInit, TypeOK, LmTypeOK

(* A call that starts or continues a transaction keeps the types of the    *)
(* lock manager and of the history.                                        *)
LEMMA TypeRead ==
  ASSUME TypeOK, NEW t \in TxnId, NEW tbl \in TableId, NEW rid \in RowId,
         Read(t, tbl, rid)
  PROVE  TypeOK'
<1> USE DEF TypeOK, LmTypeOK, Row
<1>1. <<tbl, rid>> \in TableId \X RowId
  OBVIOUS
<1>2. status' \in [TxnId -> {"idle", "active", "committed", "aborted"}]
  BY DEF Read, Meet
<1>3. met' \in [TxnId -> SUBSET TxnId]
  BY DEF Read, Meet
<1>4. reads' \in [TxnId -> SUBSET Row]
  BY <1>1 DEF Read
<1>5. CASE AddTransactionFaults(t)
  BY <1>2, <1>3, <1>4, <1>5 DEF Read, AddTransactionFaults
<1>6. CASE AddTransaction(t) /\ range_map' = [range_map EXCEPT ![t] = @ \cup {<<tbl, rid>>}]
             /\ UNCHANGED dep_map
  BY <1>1, <1>2, <1>3, <1>4, <1>6 DEF Read, AddTransaction
<1> QED
  BY <1>5, <1>6 DEF Read, TrackRead

(* The types, for a write.                                                 *)
LEMMA TypeWrite ==
  ASSUME TypeOK, NEW t \in TxnId, NEW tbl \in TableId, NEW rid \in RowId,
         Write(t, tbl, rid)
  PROVE  TypeOK'
<1> USE DEF TypeOK, LmTypeOK, Row
<1>1. <<tbl, rid>> \in TableId \X RowId
  OBVIOUS
<1>2. status' \in [TxnId -> {"idle", "active", "committed", "aborted"}]
  BY DEF Write, Meet
<1>3. met' \in [TxnId -> SUBSET TxnId]
  BY DEF Write, Meet
<1>4. replaced' \in [TxnId -> SUBSET Row] /\ antidep' \subseteq TxnId \X TxnId
      /\ everAntidep' \subseteq TxnId \X TxnId
  BY <1>1 DEF Write, NewAntidep
<1>5. CASE AddTransactionFaults(t)
  BY <1>2, <1>3, <1>4, <1>5 DEF Write, AddTransactionFaults
<1>6. CASE AddTransaction(t) /\ UNCHANGED range_map
             /\ dep_map' = [r \in TxnId |->
                      IF r \in OtherReaders(t, tbl, rid)
                        THEN dep_map[r] \cup {t} ELSE dep_map[r]]
  BY <1>2, <1>3, <1>4, <1>6 DEF Write, AddTransaction
<1> QED
  BY <1>5, <1>6 DEF Write, TrackWrite

(* The end of a transaction keeps the types.                               *)
LEMMA TypeEnd ==
  ASSUME TypeOK, NEW t \in TxnId, NEW how \in {"committed", "aborted"},
         End(t, how)
  PROVE  TypeOK'
<1> USE DEF TypeOK, LmTypeOK, Row
<1>1. CASE active_transactions' = {}
  <2> DEFINE none == [u \in {} |-> {}]
  <2>a. concurrent_transactions' = none
    BY <1>1 DEF End, Collect
  <2>b. DOMAIN none = {} /\ none \in [{} -> SUBSET TxnId]
    OBVIOUS
  <2>1. /\ DOMAIN concurrent_transactions' \subseteq TxnId
        /\ concurrent_transactions' \in
             [DOMAIN concurrent_transactions' -> SUBSET TxnId]
    <3> HIDE DEF none
    <3> QED BY <2>a, <2>b
  <2>2. /\ range_map' \in [TxnId -> SUBSET (TableId \X RowId)]
        /\ dep_map' \in [TxnId -> SUBSET TxnId]
        /\ active_transactions' \subseteq TxnId
        /\ crashed' \in BOOLEAN
    BY <1>1 DEF End, Collect
  <2>3. /\ status' \in [TxnId -> {"idle", "active", "committed", "aborted"}]
        /\ antidep' \subseteq TxnId \X TxnId
        /\ everAntidep' \subseteq TxnId \X TxnId
    BY DEF End
  <2> QED
    BY <2>1, <2>2, <2>3 DEF End
<1>2. CASE active_transactions' # {}
  <2>1. range_map' \in [TxnId -> SUBSET (TableId \X RowId)]
    BY <1>2 DEF End, Collect, DelTransaction
  <2>2. /\ DOMAIN concurrent_transactions' \subseteq TxnId
        /\ concurrent_transactions' \in
             [DOMAIN concurrent_transactions' -> SUBSET TxnId]
    BY <1>2 DEF End, Collect, DelTransaction, Emptied
  <2> QED
    BY <1>2, <2>1, <2>2 DEF End, Collect
<1> QED
  BY <1>1, <1>2

(* check_for_conflicts names a transaction that has not ended, if any.     *)
LEMMA VictimIsLive ==
  ASSUME TypeOK, NEW t \in TxnId, NEW v \in CheckForConflicts(t), v # NoTxn
  PROVE  v \in active_transactions \/ v = t
  BY DEF CheckForConflicts, GetRwDependency, ReadersBefore, Victim

(* A victim is a transaction.                                              *)
LEMMA VictimIsTxn ==
  ASSUME TypeOK, NEW t \in TxnId, NEW v \in CheckForConflicts(t), v # NoTxn
  PROVE  v \in TxnId
  BY VictimIsLive DEF TypeOK, LmTypeOK

(* Every step keeps the types.                                             *)
LEMMA TypeStep == TypeOK /\ [Next]_vars => TypeOK'
<1> SUFFICES ASSUME TypeOK, [Next]_vars
             PROVE  TypeOK'
  OBVIOUS
<1>1. CASE UNCHANGED vars
  BY <1>1 DEF vars, lmVars, clientVars, TypeOK, LmTypeOK
<1>2. ASSUME NEW t \in TxnId, NEW tbl \in TableId, NEW rid \in RowId,
             Read(t, tbl, rid)
      PROVE  TypeOK'
  BY <1>2, TypeRead
<1>3. ASSUME NEW t \in TxnId, NEW tbl \in TableId, NEW rid \in RowId,
             Write(t, tbl, rid)
      PROVE  TypeOK'
  BY <1>3, TypeWrite
<1>4. ASSUME NEW t \in TxnId, Commit(t)
      PROVE  TypeOK'
  BY <1>4, TypeEnd DEF Commit
<1>5. ASSUME NEW t \in TxnId, Resolve(t)
      PROVE  TypeOK'
  BY <1>5, TypeEnd, VictimIsTxn DEF Resolve
<1>6. ASSUME NEW t \in TxnId, Rollback(t)
      PROVE  TypeOK'
  BY <1>6, TypeEnd DEF Rollback
<1> QED
  BY <1>1, <1>2, <1>3, <1>4, <1>5, <1>6 DEF Next

(* The variables of SsiProtocol have their types in every state.           *)
THEOREM TypeCorrect == Spec => []TypeOK
  BY TypeInit, TypeStep, PTL DEF Spec

-----------------------------------------------------------------------------
(* What a call of a running transaction does to who is active, who has met *)
(* whom and the entries of concurrent_transactions, when it does not die.  *)
LEMMA JoinKeepsConsistent ==
  ASSUME TypeOK, Consistent, ReadLocksKept, ~crashed,
         NEW t \in TxnId, Running(t), AddTransaction(t), Meet(t)
  PROVE  /\ ActiveIsRunning'
         /\ EntriesAreOthers'
         /\ ActiveHaveMet'
<1> USE DEF TypeOK, LmTypeOK, Consistent
<1>1. ActiveIsRunning'
  BY DEF ActiveIsRunning, AddTransaction, Meet
<1>2. CASE t \in active_transactions
  BY <1>1, <1>2 DEF AddTransaction, Meet, EntriesAreOthers, ActiveHaveMet
<1>3. CASE t \notin active_transactions
  <2>1. status[t] = "idle"
    BY <1>3 DEF Running, ActiveIsRunning
  <2>2. t \notin DOMAIN concurrent_transactions
    BY <2>1 DEF IdleIsUnknown
  <2>3. active_transactions \subseteq DOMAIN concurrent_transactions
    BY <1>3 DEF AddTransaction, EntriesPresent
  <2>4. EntriesAreOthers'
    BY <1>3, <2>2, <2>3 DEF AddTransaction, EntriesAreOthers
  <2>5. ActiveHaveMet'
    BY <1>3 DEF AddTransaction, Meet, ActiveHaveMet
  <2> QED
    BY <1>1, <2>4, <2>5
<1> QED
  BY <1>2, <1>3

(* Whoever ran together with an active transaction still has its reads on  *)
(* record: an active one has an entry because it is not alone, one that    *)
(* has ended met nobody new.                                               *)
LEMMA JoinKeepsLocks ==
  ASSUME TypeOK, Consistent, ReadLocksKept, ~crashed,
         NEW t \in TxnId, Running(t), AddTransaction(t), Meet(t),
         LocksAreReads',
         \A u \in TxnId \ {t} : range_map'[u] = range_map[u] /\ reads'[u] = reads[u]
  PROVE  ReadLocksKept'
<1> USE DEF TypeOK, LmTypeOK
<1> SUFFICES ASSUME NEW u \in TxnId, NEW w \in active_transactions', w \in met'[u]
             PROVE  range_map'[u] = reads'[u]
  BY DEF ReadLocksKept
<1>1. ActiveIsRunning' /\ EntriesAreOthers' /\ ActiveHaveMet'
  BY JoinKeepsConsistent
<1>2. w # u
  BY <1>1 DEF ActiveHaveMet
<1>3. CASE u \in active_transactions'
  BY <1>1, <1>2, <1>3 DEF EntriesAreOthers, LocksAreReads
<1>4. CASE u \notin active_transactions'
  <2>1. u # t /\ u \notin active_transactions
    BY <1>4 DEF AddTransaction
  <2>2. w \in met[u]
    BY <2>1 DEF Meet
  <2>3. w \in active_transactions
    <3>1. CASE w = t
      BY <2>2, <3>1 DEF Running, Consistent, ActiveIsRunning, IdleIsUnknown
    <3>2. CASE w # t
      BY <3>2 DEF AddTransaction
    <3> QED
      BY <3>1, <3>2
  <2> QED
    BY <2>1, <2>2, <2>3 DEF ReadLocksKept
<1> QED
  BY <1>3, <1>4

(* A fetch that is tracked keeps the invariant.                            *)
LEMMA ReadStep ==
  ASSUME IInv, NEW t \in TxnId, NEW tbl \in TableId, NEW rid \in RowId,
         Read(t, tbl, rid), ~crashed'
  PROVE  Consistent' /\ ReadLocksKept' /\ DependenciesExact' /\ QuiescentIsEmpty'
<1> USE DEF IInv, TypeOK, LmTypeOK
<1>1. /\ AddTransaction(t)
      /\ range_map' = [range_map EXCEPT ![t] = @ \cup {<<tbl, rid>>}]
      /\ UNCHANGED dep_map
  BY DEF Read, TrackRead, AddTransactionFaults
<1>2. ~crashed /\ Consistent /\ Running(t) /\ Meet(t)
  BY DEF Read, Running
<1>3. ActiveIsRunning' /\ EntriesAreOthers' /\ ActiveHaveMet'
  BY <1>1, <1>2, JoinKeepsConsistent
<1>4. IdleIsUnknown'
  <2> SUFFICES ASSUME NEW u \in TxnId, status'[u] = "idle"
               PROVE  /\ u \notin DOMAIN concurrent_transactions'
                      /\ range_map'[u] = {} /\ reads'[u] = {} /\ dep_map'[u] = {}
                      /\ \A w \in TxnId :
                           /\ u \notin met'[w]
                           /\ {<<w, u>>, <<u, w>>} \cap (antidep' \cup everAntidep') = {}
    BY DEF IdleIsUnknown
  <2>1. u # t /\ status[u] = "idle" /\ u \notin active_transactions
    BY <1>2 DEF Meet, Consistent, ActiveIsRunning
  <2>2. range_map'[u] = {} /\ reads'[u] = {} /\ dep_map'[u] = {}
    BY <1>1, <1>2, <2>1 DEF Read, IdleIsUnknown, Consistent
  <2>3. u \notin DOMAIN concurrent_transactions'
    BY <1>1, <1>2, <2>1 DEF AddTransaction, IdleIsUnknown, Consistent
  <2>4. \A w \in TxnId : u \notin met'[w]
    BY <1>2, <2>1 DEF Meet, IdleIsUnknown, Consistent
  <2> QED
    BY <1>2, <2>1, <2>2, <2>3, <2>4 DEF Read, IdleIsUnknown, Consistent
<1>5. LocksAreReads'
  <2> SUFFICES ASSUME NEW u \in TxnId
               PROVE  /\ range_map'[u] \subseteq reads'[u]
                      /\ u \in active_transactions' \cap DOMAIN concurrent_transactions'
                           => range_map'[u] = reads'[u]
    BY DEF LocksAreReads
  <2>1. CASE u = t
    <3>1. range_map'[t] = range_map[t] \cup {<<tbl, rid>>} /\ reads'[t] = reads[t] \cup {<<tbl, rid>>}
      BY <1>1 DEF Read
    <3>2. t \notin active_transactions => range_map[t] = reads[t]
      BY <1>2 DEF Running, Consistent, ActiveIsRunning, IdleIsUnknown
    <3>3. t \in active_transactions => concurrent_transactions' = concurrent_transactions
      BY <1>1 DEF AddTransaction
    <3> QED
      BY <1>2, <2>1, <3>1, <3>2, <3>3 DEF Consistent, LocksAreReads
  <2>2. CASE u # t
    <3>1. range_map'[u] = range_map[u] /\ reads'[u] = reads[u]
      BY <1>1, <2>2 DEF Read
    <3>2. u \in active_transactions' \cap DOMAIN concurrent_transactions'
            => u \in active_transactions \cap DOMAIN concurrent_transactions
      BY <1>1, <2>2 DEF AddTransaction
    <3> QED
      BY <1>2, <3>1, <3>2 DEF Consistent, LocksAreReads
  <2> QED
    BY <2>1, <2>2
<1>6. ReadLocksKept'
  BY <1>3, <1>5, JoinKeepsLocks, <1>1, <1>2 DEF Read
<1>7. DependenciesExact'
  <2>1. /\ dep_map' = dep_map /\ antidep' = antidep
        /\ active_transactions' = active_transactions \cup {t}
    BY <1>1 DEF Read, AddTransaction
  <2>2. t \notin active_transactions =>
          /\ dep_map[t] = {}
          /\ \A u \in TxnId : <<t, u>> \notin antidep /\ <<u, t>> \notin antidep
    BY <1>2 DEF Running, Consistent, ActiveIsRunning, IdleIsUnknown
  <2> QED
    BY <1>2, <2>1, <2>2 DEF DependenciesExact
<1>8. QuiescentIsEmpty'
  BY <1>1 DEF AddTransaction, QuiescentIsEmpty
<1> QED
  BY <1>3, <1>4, <1>5, <1>6, <1>7, <1>8 DEF Consistent

(* An update that is tracked keeps the invariant.  The new antidependency   *)
(* is recorded because the reader, having met the writer, has its reads on *)
(* record (ReadLocksKept).                                                 *)
LEMMA WriteStep ==
  ASSUME IInv, NEW t \in TxnId, NEW tbl \in TableId, NEW rid \in RowId,
         Write(t, tbl, rid), ~crashed'
  PROVE  Consistent' /\ ReadLocksKept' /\ DependenciesExact' /\ QuiescentIsEmpty'
<1> USE DEF IInv, TypeOK, LmTypeOK
<1>1. /\ AddTransaction(t)
      /\ UNCHANGED <<range_map, reads>>
      /\ dep_map' = [r \in TxnId |->
                       IF r \in OtherReaders(t, tbl, rid)
                         THEN dep_map[r] \cup {t} ELSE dep_map[r]]
      /\ antidep' = antidep \cup
           {<<r, t>> : r \in {u \in TxnId \ {t} : <<tbl, rid>> \in reads[u]
                                                  /\ t \in met'[u]}}
      /\ everAntidep' = everAntidep \cup
           {<<r, t>> : r \in {u \in TxnId \ {t} : <<tbl, rid>> \in reads[u]
                                                  /\ t \in met'[u]}}
  BY DEF Write, TrackWrite, AddTransactionFaults, NewAntidep
<1>2. ~crashed /\ Consistent /\ Running(t) /\ Meet(t)
  BY DEF Write, Running
<1>3. ActiveIsRunning' /\ EntriesAreOthers' /\ ActiveHaveMet'
  BY <1>1, <1>2, JoinKeepsConsistent
<1>4. t \notin active_transactions =>
        /\ dep_map[t] = {} /\ range_map[t] = {} /\ reads[t] = {}
        /\ \A u \in TxnId : <<t, u>> \notin antidep /\ <<u, t>> \notin antidep
  BY <1>2 DEF Running, Consistent, ActiveIsRunning, IdleIsUnknown
<1>5. IdleIsUnknown'
  <2> SUFFICES ASSUME NEW u \in TxnId, status'[u] = "idle"
               PROVE  /\ u \notin DOMAIN concurrent_transactions'
                      /\ range_map'[u] = {} /\ reads'[u] = {} /\ dep_map'[u] = {}
                      /\ \A w \in TxnId :
                           /\ u \notin met'[w]
                           /\ {<<w, u>>, <<u, w>>} \cap (antidep' \cup everAntidep') = {}
    BY DEF IdleIsUnknown
  <2>1. u # t /\ status[u] = "idle" /\ u \notin active_transactions
    BY <1>2 DEF Meet, Consistent, ActiveIsRunning
  <2>2. /\ range_map[u] = {} /\ reads[u] = {} /\ dep_map[u] = {}
        /\ u \notin DOMAIN concurrent_transactions
        /\ \A w \in TxnId : /\ u \notin met[w]
                            /\ {<<w, u>>, <<u, w>>} \cap (antidep \cup everAntidep) = {}
    BY <1>2, <2>1 DEF IdleIsUnknown, Consistent
  <2>3. range_map'[u] = {} /\ reads'[u] = {} /\ dep_map'[u] = {}
    BY <1>1, <2>2 DEF OtherReaders
  <2>4. u \notin DOMAIN concurrent_transactions'
    BY <1>1, <2>1, <2>2 DEF AddTransaction
  <2>5. \A w \in TxnId : u \notin met'[w]
    BY <1>2, <2>1, <2>2 DEF Meet
  <2>6. \A w \in TxnId : {<<w, u>>, <<u, w>>} \cap (antidep' \cup everAntidep') = {}
    BY <1>1, <2>1, <2>2
  <2> QED
    BY <2>3, <2>4, <2>5, <2>6
<1>6. LocksAreReads'
  <2> SUFFICES ASSUME NEW u \in TxnId
               PROVE  /\ range_map'[u] \subseteq reads'[u]
                      /\ u \in active_transactions' \cap DOMAIN concurrent_transactions'
                           => range_map'[u] = reads'[u]
    BY DEF LocksAreReads
  <2>1. u \in active_transactions' \cap DOMAIN concurrent_transactions'
          => \/ u = t /\ t \notin active_transactions
             \/ u \in active_transactions \cap DOMAIN concurrent_transactions
    BY <1>1 DEF AddTransaction
  <2> QED
    BY <1>1, <1>2, <1>4, <2>1 DEF Consistent, LocksAreReads
<1>7. ReadLocksKept'
  BY <1>1, <1>2, <1>6, JoinKeepsLocks
<1>8. DependenciesExact'
  <2> SUFFICES ASSUME NEW r \in TxnId, NEW w \in TxnId
               PROVE  /\ <<r, w>> \in antidep' /\ {r, w} \cap active_transactions' # {}
                           => w \in dep_map'[r]
                      /\ r \in active_transactions' /\ w \in dep_map'[r]
                           => <<r, w>> \in antidep'
    BY DEF DependenciesExact
  <2>1. active_transactions' = active_transactions \cup {t}
    BY <1>1 DEF AddTransaction
  <2>2. ASSUME <<r, w>> \in antidep, {r, w} \cap active_transactions' # {}
        PROVE  w \in dep_map'[r]
    <3>1. {r, w} \cap active_transactions # {}
      BY <1>4, <2>1, <2>2
    <3> QED
      BY <1>1, <1>2, <2>2, <3>1 DEF DependenciesExact
  <2>3. ASSUME w = t, r # t, <<tbl, rid>> \in reads[r], t \in met'[r]
        PROVE  w \in dep_map'[r]
    <3>1. range_map'[r] = reads'[r]
      BY <1>1, <1>2, <1>7, <2>1, <2>3 DEF ReadLocksKept, AddTransaction
    <3> QED
      BY <1>1, <2>3, <3>1 DEF OtherReaders
  <2>4. ASSUME r \in active_transactions', w \in dep_map[r]
        PROVE  <<r, w>> \in antidep'
    BY <1>1, <1>2, <1>4, <2>1, <2>4 DEF DependenciesExact
  <2>5. ASSUME r \in active_transactions', w = t, r \in OtherReaders(t, tbl, rid)
        PROVE  <<r, w>> \in antidep'
    <3>1. r # t /\ <<tbl, rid>> \in reads[r]
      BY <1>2, <2>5 DEF OtherReaders, Consistent, LocksAreReads
    <3>2. t \in met'[r]
      BY <1>3, <2>1, <2>5, <3>1 DEF ActiveHaveMet
    <3> QED
      BY <1>1, <2>5, <3>1, <3>2
  <2> QED
    BY <1>1, <2>2, <2>3, <2>4, <2>5
<1>9. QuiescentIsEmpty'
  BY <1>1 DEF AddTransaction, QuiescentIsEmpty
<1> QED
  BY <1>3, <1>5, <1>6, <1>7, <1>8, <1>9 DEF Consistent

(* The end of an active transaction when it is the last one.               *)
LEMMA LastEndStep ==
  ASSUME IInv, ~crashed, NEW t \in TxnId, status[t] = "active",
         NEW how \in {"committed", "aborted"}, End(t, how), active_transactions' = {}
  PROVE  Consistent' /\ ReadLocksKept' /\ DependenciesExact' /\ QuiescentIsEmpty'
<1> USE DEF IInv, TypeOK, LmTypeOK
<1> DEFINE none == [u \in {} |-> {}]
<1>1. concurrent_transactions' = none
  BY DEF End, Collect
<1>2. DOMAIN none = {}
  OBVIOUS
<1> HIDE DEF none
<1>3. DOMAIN concurrent_transactions' = {}
  BY <1>1, <1>2
<1>4. /\ range_map' = [u \in TxnId |-> {}]
      /\ dep_map' = [u \in TxnId |-> {}]
      /\ status' = [status EXCEPT ![t] = how]
      /\ antidep' = {e \in antidep : e[1] # t}
      /\ UNCHANGED <<reads, met, everAntidep>>
  BY DEF End, Collect
<1>5. ActiveIsRunning'
  BY <1>4 DEF Consistent, ActiveIsRunning, End, Collect
<1>6. IdleIsUnknown'
  BY <1>3, <1>4 DEF Consistent, IdleIsUnknown
<1>7. LocksAreReads'
  BY <1>4 DEF LocksAreReads
<1>8. ActiveHaveMet'
  BY <1>4 DEF Consistent, ActiveHaveMet
<1>9. EntriesAreOthers' /\ ReadLocksKept'
  BY DEF EntriesAreOthers, ReadLocksKept
<1>10. DependenciesExact'
  BY <1>4 DEF DependenciesExact
<1>11. QuiescentIsEmpty'
  BY <1>3, <1>4 DEF QuiescentIsEmpty
<1> QED
  BY <1>5, <1>6, <1>7, <1>8, <1>9, <1>10, <1>11 DEF Consistent

(* The end of an active transaction when others remain.  It takes the      *)
(* entry and the locks of c away only if c is the one that remains; nobody *)
(* who remains ran together with itself, so no lock that matters goes.     *)
LEMMA EarlyEndStep ==
  ASSUME IInv, ~crashed, NEW t \in TxnId, status[t] = "active",
         NEW how \in {"committed", "aborted"}, End(t, how), active_transactions' # {}
  PROVE  Consistent' /\ ReadLocksKept' /\ DependenciesExact' /\ QuiescentIsEmpty'
<1> USE DEF IInv, TypeOK, LmTypeOK
<1>1. /\ active_transactions' = active_transactions \ {t}
      /\ dep_map' = [dep_map EXCEPT ![t] = {}]
      /\ status' = [status EXCEPT ![t] = how]
      /\ antidep' = {e \in antidep : e[1] # t}
      /\ UNCHANGED <<reads, met, everAntidep>>
      /\ DelTransaction(t)
  BY DEF End, Collect
<1>2. Consistent /\ t \in active_transactions
  BY DEF Consistent, ActiveIsRunning
<1>3. \A c \in active_transactions :
        /\ c \in DOMAIN concurrent_transactions
        /\ concurrent_transactions[c] = active_transactions \ {c}
  BY <1>1, <1>2 DEF Consistent, EntriesAreOthers
<1>4. \A c \in Emptied(t) : active_transactions' = {c}
  BY <1>1, <1>2, <1>3 DEF Emptied
<1>5. /\ range_map' = [u \in TxnId |-> IF u \in Emptied(t) THEN {} ELSE range_map[u]]
      /\ concurrent_transactions' =
           [u \in DOMAIN concurrent_transactions \ Emptied(t) |->
              IF u = t THEN concurrent_transactions[t] \ Emptied(t)
              ELSE IF u \in concurrent_transactions[t]
                THEN concurrent_transactions[u] \ {t}
              ELSE concurrent_transactions[u]]
  BY <1>1, <1>2, <1>3 DEF DelTransaction
<1>6. ActiveIsRunning'
  BY <1>1, <1>2 DEF Consistent, ActiveIsRunning
<1>7. IdleIsUnknown'
  BY <1>1, <1>2, <1>5 DEF Consistent, IdleIsUnknown
<1>8. EntriesAreOthers'
  <2> SUFFICES ASSUME NEW c \in active_transactions'
               PROVE  IF c \in DOMAIN concurrent_transactions'
                        THEN concurrent_transactions'[c] = active_transactions' \ {c}
                        ELSE active_transactions' = {c}
    BY DEF EntriesAreOthers
  <2>1. c # t /\ c \in DOMAIN concurrent_transactions /\ c \in concurrent_transactions[t]
        /\ concurrent_transactions[c] = active_transactions \ {c}
    BY <1>1, <1>2, <1>3
  <2>2. CASE c \in Emptied(t)
    BY <1>4, <1>5, <2>2
  <2>3. CASE c \notin Emptied(t)
    <3>1. concurrent_transactions'[c] = concurrent_transactions[c] \ {t}
      BY <1>5, <2>1, <2>3
    <3> QED
      BY <1>1, <1>5, <2>1, <2>3, <3>1
  <2> QED
    BY <2>2, <2>3
<1>9. ActiveHaveMet'
  BY <1>1, <1>2 DEF Consistent, ActiveHaveMet
<1>10. LocksAreReads'
  BY <1>1, <1>2, <1>5 DEF Consistent, LocksAreReads
<1>11. ReadLocksKept'
  <2> SUFFICES ASSUME NEW u \in TxnId, NEW w \in active_transactions', w \in met'[u]
               PROVE  range_map'[u] = reads'[u]
    BY DEF ReadLocksKept
  <2>1. range_map[u] = reads[u]
    BY <1>1 DEF ReadLocksKept
  <2>2. u \notin Emptied(t)
    BY <1>1, <1>2, <1>4 DEF Consistent, ActiveHaveMet
  <2> QED
    BY <1>1, <1>5, <2>1, <2>2
<1>12. DependenciesExact'
  BY <1>1 DEF DependenciesExact
<1>13. QuiescentIsEmpty'
  BY DEF QuiescentIsEmpty
<1> QED
  BY <1>6, <1>7, <1>8, <1>9, <1>10, <1>11, <1>12, <1>13 DEF Consistent

-----------------------------------------------------------------------------
(* check_for_conflicts refuses v when v and x each replaced what the other *)
(* had read, both antidependencies are on record and no third transaction  *)
(* read a row that one of them replaced: it finds x before v and v before  *)
(* x, and nobody else.                                                     *)
LEMMA SkewIsFound ==
  ASSUME IInv, ~crashed, NEW v \in TxnId, NEW x \in TxnId, status[v] = "active",
         <<v, x>> \in antidep, <<x, v>> \in antidep, ~ThirdReader(v, x)
  PROVE  NoTxn \notin CheckForConflicts(v)
<1> USE DEF IInv, TypeOK, LmTypeOK
<1>1. v \in active_transactions
  BY DEF Consistent, ActiveIsRunning
<1>2. x \in dep_map[v] /\ v \in dep_map[x]
  BY <1>1 DEF DependenciesExact
<1>3. v # x
  BY <1>2 DEF DependenciesHappened
<1>4. ReadersBefore(v) = {x}
  <2>1. x \in ReadersBefore(v)
    BY <1>2, <1>3 DEF ReadersBefore
  <2>2. \A r \in ReadersBefore(v) : r = x
    <3> SUFFICES ASSUME NEW r \in ReadersBefore(v), r # x
                 PROVE  FALSE
      OBVIOUS
    <3>1. r \in TxnId \ {v, x} /\ v \in dep_map[r]
      BY DEF ReadersBefore
    <3>2. reads[r] \cap replaced[v] # {}
      BY <3>1 DEF DependenciesHappened
    <3> QED
      BY <3>1, <3>2 DEF ThirdReader
  <2> QED
    BY <2>1, <2>2
<1>5. v \in ReadersBefore(x) /\ ReadersBefore(x) \subseteq TxnId
  BY <1>2, <1>3 DEF ReadersBefore
<1>6. GetRwDependency(v) = {x} /\ x # NoTxn
  BY <1>4, NoTxnAssumption DEF GetRwDependency
<1>7. \A t1 \in GetRwDependency(x) : t1 # NoTxn /\ Victim(v, x, t1) # NoTxn
  BY <1>5, NoTxnAssumption DEF Victim, GetRwDependency
<1>8. CheckForConflicts(v) = {Victim(v, x, t1) : t1 \in GetRwDependency(x)}
  BY <1>6, <1>7 DEF CheckForConflicts
<1> QED
  BY <1>7, <1>8

(* A call of t that starts or continues it keeps what the invariant says   *)
(* of antidependencies.                                                    *)
LEMMA SkewRead ==
  ASSUME IInv, NEW t \in TxnId, NEW tbl \in TableId, NEW rid \in RowId,
         Read(t, tbl, rid)
  PROVE  DependenciesHappened' /\ SkewOnRecord' /\ SkewNeedsThirdReader'
<1> USE DEF IInv, TypeOK, LmTypeOK
<1>1. /\ UNCHANGED <<dep_map, antidep, everAntidep, replaced>>
      /\ status' = [status EXCEPT ![t] = "active"]
      /\ \A u \in TxnId : reads[u] \subseteq reads'[u]
  BY DEF Read, Meet, TrackRead, AddTransactionFaults
<1>2. status[t] = "idle" => \A e \in everAntidep : e[1] # t
  BY DEF Read, Running, Consistent, IdleIsUnknown
<1>3. status[t] = "idle" \/ status[t] = "active"
  BY DEF Read, Running
<1>4. \A x, u \in TxnId : ThirdReader(x, u) => ThirdReader(x, u)'
  BY <1>1 DEF ThirdReader
<1>5. DependenciesHappened'
  <2>1. \A r \in TxnId : \A w \in dep_map'[r] :
          w # r /\ reads'[r] \cap replaced'[w] # {}
    BY <1>1 DEF DependenciesHappened
  <2>2. \A e \in everAntidep' :
          e[1] # e[2] /\ (status'[e[1]] = "active" => e \in antidep')
    BY <1>1, <1>2, <1>3 DEF DependenciesHappened
  <2> QED
    BY <2>1, <2>2 DEF DependenciesHappened
<1>6. SkewOnRecord'
  BY <1>1, <1>2, <1>3, <1>4 DEF SkewOnRecord
<1>7. SkewNeedsThirdReader'
  BY <1>1, <1>4 DEF SkewNeedsThirdReader
<1> QED
  BY <1>5, <1>6, <1>7

(* The write skew on record, for a write.                                  *)
LEMMA SkewWrite ==
  ASSUME IInv, NEW t \in TxnId, NEW tbl \in TableId, NEW rid \in RowId,
         Write(t, tbl, rid)
  PROVE  DependenciesHappened' /\ SkewOnRecord' /\ SkewNeedsThirdReader'
<1> USE DEF IInv, TypeOK, LmTypeOK
<1> DEFINE new == {<<r, t>> : r \in {u \in TxnId \ {t} : <<tbl, rid>> \in reads[u]
                                                         /\ t \in met'[u]}}
<1>1. /\ UNCHANGED reads
      /\ status' = [status EXCEPT ![t] = "active"]
      /\ antidep' = antidep \cup new
      /\ everAntidep' = everAntidep \cup new
      /\ replaced' = [replaced EXCEPT ![t] = @ \cup {<<tbl, rid>>}]
  BY DEF Write, Meet, NewAntidep
<1>2. \A e \in new : e[1] # t /\ e[2] = t
  OBVIOUS
<1> HIDE DEF new
<1>3. status[t] = "idle" => \A e \in everAntidep : e[1] # t
  BY DEF Write, Running, Consistent, IdleIsUnknown
<1>4. status[t] = "idle" \/ status[t] = "active"
  BY DEF Write, Running
<1>5. \A x, u \in TxnId : ThirdReader(x, u) => ThirdReader(x, u)'
  BY <1>1 DEF ThirdReader
<1>6. \A r \in TxnId : \A w \in dep_map'[r] :
        w # r /\ reads'[r] \cap replaced'[w] # {}
  <2> SUFFICES ASSUME NEW r \in TxnId, NEW w \in dep_map'[r]
               PROVE  w # r /\ reads'[r] \cap replaced'[w] # {}
    OBVIOUS
  <2>1. w \in dep_map[r] \/ (w = t /\ r \in OtherReaders(t, tbl, rid))
    BY DEF Write, TrackWrite, AddTransactionFaults
  <2>2. CASE w \in dep_map[r]
    BY <1>1, <2>2 DEF DependenciesHappened
  <2>3. CASE w = t /\ r \in OtherReaders(t, tbl, rid)
    <3>1. r # t /\ <<tbl, rid>> \in reads[r]
      BY <2>3 DEF Write, Running, OtherReaders, Consistent, LocksAreReads
    <3> QED
      BY <1>1, <2>3, <3>1
  <2> QED
    BY <2>1, <2>2, <2>3
<1>7. \A e \in everAntidep' :
        e[1] # e[2] /\ (status'[e[1]] = "active" => e \in antidep')
  BY <1>1, <1>2, <1>3, <1>4 DEF DependenciesHappened
<1>8. SkewOnRecord'
  <2> SUFFICES ASSUME NEW x \in TxnId, NEW u \in TxnId,
                      status'[x] = "active", status'[u] = "committed",
                      <<x, u>> \in everAntidep', <<u, x>> \in everAntidep',
                      ~ThirdReader(x, u)'
               PROVE  <<u, x>> \in antidep'
    BY DEF SkewOnRecord
  <2>1. u # t /\ status[u] = "committed"
    BY <1>1
  <2>2. <<x, u>> \in everAntidep
    BY <1>1, <1>2, <2>1
  <2>3. CASE <<u, x>> \in new
    BY <1>1, <2>3
  <2>4. CASE <<u, x>> \notin new
    <3>1. status[x] = "active"
      BY <1>1, <1>3, <1>4, <2>2
    <3> QED
      BY <1>1, <1>5, <2>1, <2>2, <2>4, <3>1 DEF SkewOnRecord
  <2> QED
    BY <2>3, <2>4
<1>9. SkewNeedsThirdReader'
  <2> SUFFICES ASSUME NEW x \in TxnId, NEW u \in TxnId,
                      status'[x] = "committed", status'[u] = "committed",
                      <<x, u>> \in everAntidep', <<u, x>> \in everAntidep'
               PROVE  ThirdReader(x, u)'
    BY DEF SkewNeedsThirdReader
  <2>1. x # t /\ u # t /\ status[x] = "committed" /\ status[u] = "committed"
    BY <1>1
  <2> QED
    BY <1>1, <1>2, <1>5, <2>1 DEF SkewNeedsThirdReader
<1> QED
  BY <1>6, <1>7, <1>8, <1>9 DEF DependenciesHappened

(* The end of a transaction keeps it as well: the first of two skewed      *)
(* transactions to commit does so before both antidependencies exist, the  *)
(* second one is refused.                                                  *)
LEMMA SkewEnd ==
  ASSUME IInv, ~crashed, NEW v \in TxnId, status[v] = "active",
         NEW how \in {"committed", "aborted"}, End(v, how),
         how = "committed" => NoTxn \in CheckForConflicts(v)
  PROVE  DependenciesHappened' /\ SkewOnRecord' /\ SkewNeedsThirdReader'
<1> USE DEF IInv, TypeOK, LmTypeOK
<1>1. /\ UNCHANGED <<reads, replaced, everAntidep>>
      /\ status' = [status EXCEPT ![v] = how]
      /\ antidep' = {e \in antidep : e[1] # v}
  BY DEF End
<1>2. \A r \in TxnId : dep_map'[r] \subseteq dep_map[r]
  BY DEF End, Collect
<1>3. \A x, u \in TxnId : ThirdReader(x, u)' <=> ThirdReader(x, u)
  BY <1>1 DEF ThirdReader
<1>4. \A x, u \in TxnId : ThirdReader(x, u) <=> ThirdReader(u, x)
  BY DEF ThirdReader
<1>5. ASSUME NEW x \in TxnId, how = "committed", <<v, x>> \in everAntidep,
             <<x, v>> \in everAntidep, status[x] \in {"active", "committed"},
             ~ThirdReader(v, x)
      PROVE  FALSE
  <2>1. <<v, x>> \in antidep
    BY <1>5 DEF DependenciesHappened
  <2>2. <<x, v>> \in antidep
    BY <1>5 DEF DependenciesHappened, SkewOnRecord
  <2> QED
    BY <1>5, <2>1, <2>2, SkewIsFound
<1>6. DependenciesHappened'
  <2>1. \A r \in TxnId : \A w \in dep_map'[r] :
          w # r /\ reads'[r] \cap replaced'[w] # {}
    BY <1>1, <1>2 DEF DependenciesHappened
  <2>2. \A e \in everAntidep' :
          e[1] # e[2] /\ (status'[e[1]] = "active" => e \in antidep')
    BY <1>1 DEF DependenciesHappened
  <2> QED
    BY <2>1, <2>2 DEF DependenciesHappened
<1>7. SkewOnRecord'
  <2> SUFFICES ASSUME NEW x \in TxnId, NEW u \in TxnId,
                      status'[x] = "active", status'[u] = "committed",
                      <<x, u>> \in everAntidep, <<u, x>> \in everAntidep,
                      ~ThirdReader(x, u)
               PROVE  <<u, x>> \in antidep'
    BY <1>1, <1>3 DEF SkewOnRecord
  <2>1. x # v /\ status[x] = "active"
    BY <1>1
  <2>2. CASE u = v
    BY <1>1, <1>4, <1>5, <2>1, <2>2
  <2>3. CASE u # v
    BY <1>1, <2>1, <2>3 DEF SkewOnRecord
  <2> QED
    BY <2>2, <2>3
<1>8. SkewNeedsThirdReader'
  <2> SUFFICES ASSUME NEW x \in TxnId, NEW u \in TxnId,
                      status'[x] = "committed", status'[u] = "committed",
                      <<x, u>> \in everAntidep, <<u, x>> \in everAntidep,
                      ~ThirdReader(x, u)
               PROVE  FALSE
    BY <1>1, <1>3 DEF SkewNeedsThirdReader
  <2>1. x # u
    BY DEF DependenciesHappened
  <2>2. CASE x = v
    BY <1>1, <1>5, <2>1, <2>2
  <2>3. CASE u = v
    BY <1>1, <1>4, <1>5, <2>1, <2>3
  <2>4. CASE x # v /\ u # v
    BY <1>1, <2>4 DEF SkewNeedsThirdReader
  <2> QED
    BY <2>2, <2>3, <2>4
<1> QED
  BY <1>6, <1>7, <1>8

-----------------------------------------------------------------------------
(* The end of a transaction keeps the invariant.                           *)
LEMMA EndStep ==
  ASSUME IInv, ~crashed, NEW t \in TxnId, status[t] = "active",
         NEW how \in {"committed", "aborted"}, End(t, how),
         how = "committed" => NoTxn \in CheckForConflicts(t)
  PROVE  IInv'
<1>1. TypeOK'
  BY TypeEnd DEF IInv
<1>2. Consistent' /\ ReadLocksKept' /\ DependenciesExact' /\ QuiescentIsEmpty'
  BY LastEndStep, EarlyEndStep
<1>3. DependenciesHappened' /\ SkewOnRecord' /\ SkewNeedsThirdReader'
  BY SkewEnd
<1> QED
  BY <1>1, <1>2, <1>3 DEF IInv

(* A transaction check_for_conflicts has aborted is an active one.         *)
LEMMA VictimIsActive ==
  ASSUME IInv, ~crashed, NEW t \in TxnId, status[t] = "active",
         NEW v \in CheckForConflicts(t) \ {NoTxn}
  PROVE  v \in TxnId /\ status[v] = "active"
  BY VictimIsLive, VictimIsTxn DEF IInv, Consistent, ActiveIsRunning

(* A call that dies changes nothing the lock manager keeps.                *)
LEMMA FaultKeepsInvariant ==
  ASSUME IInv, TypeOK', NEW t \in TxnId, AddTransactionFaults(t),
         DependenciesHappened', SkewOnRecord', SkewNeedsThirdReader'
  PROVE  IInv'
  BY DEF IInv, AddTransactionFaults, ReadLocksKept, DependenciesExact, QuiescentIsEmpty

(* Every step keeps the invariant.                                         *)
LEMMA InvStep == IInv /\ [Next]_vars => IInv'
<1> SUFFICES ASSUME IInv, [Next]_vars
             PROVE  IInv'
  OBVIOUS
<1>1. TypeOK'
  BY TypeStep DEF IInv
<1>2. CASE UNCHANGED vars
  <2>1. UNCHANGED <<range_map, dep_map, concurrent_transactions, active_transactions,
                    crashed, status, reads, replaced, met, antidep, everAntidep>>
    BY <1>2 DEF vars, lmVars, clientVars
  <2>2. Consistent => Consistent'
    BY <2>1 DEF Consistent, ActiveIsRunning, IdleIsUnknown, EntriesAreOthers,
                ActiveHaveMet, LocksAreReads
  <2> QED
    BY <1>1, <2>1, <2>2 DEF IInv, ReadLocksKept, DependenciesExact, QuiescentIsEmpty,
       DependenciesHappened, SkewOnRecord, SkewNeedsThirdReader, ThirdReader
<1>3. ASSUME NEW t \in TxnId, NEW tbl \in TableId, NEW rid \in RowId,
             Read(t, tbl, rid)
      PROVE  IInv'
  <2>a. DependenciesHappened' /\ SkewOnRecord' /\ SkewNeedsThirdReader'
    BY <1>3, SkewRead
  <2>1. CASE AddTransactionFaults(t)
    BY <1>1, <2>a, <2>1, FaultKeepsInvariant
  <2>2. CASE ~AddTransactionFaults(t)
    <3>1. ~crashed'
      BY <1>3, <2>2 DEF Read, TrackRead, Running, AddTransaction
    <3> QED
      BY <1>1, <1>3, <2>a, <3>1, ReadStep DEF IInv
  <2> QED
    BY <2>1, <2>2
<1>4. ASSUME NEW t \in TxnId, NEW tbl \in TableId, NEW rid \in RowId,
             Write(t, tbl, rid)
      PROVE  IInv'
  <2>a. DependenciesHappened' /\ SkewOnRecord' /\ SkewNeedsThirdReader'
    BY <1>4, SkewWrite
  <2>1. CASE AddTransactionFaults(t)
    BY <1>1, <2>a, <2>1, FaultKeepsInvariant
  <2>2. CASE ~AddTransactionFaults(t)
    <3>1. ~crashed'
      BY <1>4, <2>2 DEF Write, TrackWrite, Running, AddTransaction
    <3> QED
      BY <1>1, <1>4, <2>a, <3>1, WriteStep DEF IInv
  <2> QED
    BY <2>1, <2>2
<1>5. ASSUME NEW t \in TxnId, Commit(t)
      PROVE  IInv'
  BY <1>5, EndStep DEF Commit
<1>6. ASSUME NEW t \in TxnId, Resolve(t)
      PROVE  IInv'
  <2>1. PICK v \in CheckForConflicts(t) \ {NoTxn} : End(v, "aborted")
    BY <1>6 DEF Resolve
  <2>2. v \in TxnId /\ status[v] = "active"
    BY <1>6, VictimIsActive DEF Resolve
  <2> QED
    BY <1>6, <2>1, <2>2, EndStep DEF Resolve
<1>7. ASSUME NEW t \in TxnId, Rollback(t)
      PROVE  IInv'
  BY <1>7, EndStep DEF Rollback
<1> QED
  BY <1>2, <1>3, <1>4, <1>5, <1>6, <1>7 DEF Next

(* The empty lock manager satisfies it.                                    *)
LEMMA InvInit == Init => IInv
<1> SUFFICES ASSUME Init PROVE IInv
  OBVIOUS
<1> DEFINE none == [t \in {} |-> {}]
<1>1. concurrent_transactions = none
  BY DEF Init, LmInit
<1>2. DOMAIN none = {}
  OBVIOUS
<1> HIDE DEF none
<1>3. DOMAIN concurrent_transactions = {}
  BY <1>1, <1>2
<1>4. Consistent
  BY <1>3 DEF Init, LmInit, Consistent, ActiveIsRunning, IdleIsUnknown,
              EntriesAreOthers, ActiveHaveMet, LocksAreReads
<1>5. ReadLocksKept /\ DependenciesExact
  BY DEF Init, LmInit, ReadLocksKept, DependenciesExact
<1>7. DependenciesHappened /\ SkewOnRecord /\ SkewNeedsThirdReader
  BY DEF Init, LmInit, DependenciesHappened, SkewOnRecord, SkewNeedsThirdReader
<1>6. QuiescentIsEmpty
  BY <1>3 DEF Init, LmInit, QuiescentIsEmpty
<1> QED
  BY <1>4, <1>5, <1>6, <1>7, TypeInit DEF IInv

(* The inductive invariant holds in every state.                           *)
THEOREM InvCorrect == Spec => []IInv
  BY InvInit, InvStep, PTL DEF Spec

-----------------------------------------------------------------------------
(* Two active transactions always list each other as concurrent, whatever  *)
(* del_transaction has torn down before.                                   *)
THEOREM MutuallyConcurrent == Spec => []ActiveMutuallyConcurrent
<1>1. IInv => ActiveMutuallyConcurrent
  BY DEF IInv, Consistent, EntriesAreOthers, ActiveMutuallyConcurrent
<1> QED
  BY <1>1, InvCorrect, PTL

(* No read lock is dropped while somebody its holder ran together with can *)
(* still write.                                                            *)
THEOREM LocksKept == Spec => []ReadLocksKept
<1>1. IInv => ReadLocksKept
  BY DEF IInv
<1> QED
  BY <1>1, InvCorrect, PTL

(* dep_map has every antidependency of two transactions one of which is    *)
(* active, and for an active reader no other.                              *)
THEOREM DependenciesCorrect == Spec => []DependenciesExact
<1>1. IInv => DependenciesExact
  BY DEF IInv
<1> QED
  BY <1>1, InvCorrect, PTL

(* When nobody is active every container of the lock manager is empty.     *)
THEOREM Quiescent == Spec => []QuiescentIsEmpty
<1>1. IInv => QuiescentIsEmpty
  BY DEF IInv
<1> QED
  BY <1>1, InvCorrect, PTL

(* No transaction that has ended is committed or aborted again: the one    *)
(* check_for_conflicts picks is active.                                    *)
THEOREM VictimsLive == Spec => VictimsAreLive
<1> DEFINE Keeps == \A t \in TxnId : status[t] \in {"committed", "aborted"}
                                       => status'[t] = status[t]
<1>1. IInv /\ [Next]_vars => Keeps
  <2> SUFFICES ASSUME IInv, [Next]_vars
               PROVE  Keeps
    OBVIOUS
  <2>a. status \in [TxnId -> {"idle", "active", "committed", "aborted"}]
    BY DEF IInv, TypeOK
  <2>1. CASE UNCHANGED vars
    BY <2>1 DEF vars, clientVars
  <2>2. ASSUME NEW t \in TxnId, NEW tbl \in TableId, NEW rid \in RowId,
               Read(t, tbl, rid) \/ Write(t, tbl, rid)
        PROVE  Keeps
    BY <2>a, <2>2 DEF Read, Write, Running, Meet
  <2>3. ASSUME NEW v \in TxnId, status[v] = "active",
               NEW how \in {"committed", "aborted"}, End(v, how)
        PROVE  Keeps
    BY <2>a, <2>3 DEF End
  <2>4. ASSUME NEW t \in TxnId, Commit(t) \/ Rollback(t)
        PROVE  Keeps
    BY <2>3, <2>4 DEF Commit, Rollback
  <2>5. ASSUME NEW t \in TxnId, Resolve(t)
        PROVE  Keeps
    <3>1. PICK v \in CheckForConflicts(t) \ {NoTxn} : End(v, "aborted")
      BY <2>5 DEF Resolve
    <3>2. v \in TxnId /\ status[v] = "active"
      BY <2>5, VictimIsActive DEF Resolve
    <3> QED
      BY <2>3, <3>1, <3>2
  <2> QED
    BY <2>1, <2>2, <2>4, <2>5 DEF Next
<1> QED
  BY <1>1, InvCorrect, PTL DEF Spec, VictimsAreLive

(* Write skew of two transactions: they do not both commit unless a third  *)
(* one read a row that one of them replaced.                               *)
THEOREM SkewIsRefused == Spec => []SkewNeedsThirdReader
<1>1. IInv => SkewNeedsThirdReader
  BY DEF IInv
<1> QED
  BY <1>1, InvCorrect, PTL

-----------------------------------------------------------------------------
(* Only the end of somebody it has met takes away the entry of a           *)
(* transaction that runs.                                                  *)
LonerHadCompany ==
  ~crashed => \A t \in active_transactions \ DOMAIN concurrent_transactions :
                met[t] # {}

(* Whoever begins has an entry, and nobody who runs loses one.             *)
LEMMA CompanyJoins ==
  ASSUME IInv, LonerHadCompany, ~crashed, NEW t \in TxnId,
         AddTransaction(t), Meet(t)
  PROVE  LonerHadCompany'
<1> USE DEF IInv, TypeOK, LmTypeOK
<1>1. CASE t \in active_transactions
  <2>1. active_transactions' = active_transactions
        /\ concurrent_transactions' = concurrent_transactions /\ met' = met
    BY <1>1 DEF AddTransaction, Meet
  <2> QED
    BY <2>1 DEF LonerHadCompany
<1>2. CASE t \notin active_transactions
  <2>1. /\ active_transactions' = active_transactions \cup {t}
        /\ DOMAIN concurrent_transactions' = DOMAIN concurrent_transactions \cup {t}
    BY <1>2 DEF AddTransaction
  <2>2. \A u \in TxnId \ {t} : met[u] \subseteq met'[u]
    BY <1>2 DEF Meet
  <2> QED
    BY <2>1, <2>2 DEF LonerHadCompany
<1> QED
  BY <1>1, <1>2

(* Of those who run, del_transaction finds only such entries empty as held *)
(* the one that ends.                                                      *)
LEMMA CompanyEnds ==
  ASSUME IInv, LonerHadCompany, ~crashed, NEW t \in TxnId, status[t] = "active",
         NEW how, End(t, how)
  PROVE  LonerHadCompany'
<1> USE DEF IInv, TypeOK, LmTypeOK
<1>1. /\ active_transactions' = active_transactions \ {t} /\ met' = met
      /\ t \in active_transactions
  BY DEF End, Collect, Consistent, ActiveIsRunning
<1>2. CASE active_transactions' = {}
  BY <1>2 DEF LonerHadCompany
<1>3. CASE active_transactions' # {}
  <2> SUFFICES ASSUME NEW u \in active_transactions',
                      u \notin DOMAIN concurrent_transactions'
               PROVE  met[u] # {}
    BY <1>1 DEF LonerHadCompany
  <2>1. u \in active_transactions /\ u # t /\ u \in TxnId
    BY <1>1
  <2>2. t \in met[u]
    BY <1>1, <2>1 DEF Consistent, ActiveHaveMet
  <2> QED
    BY <2>2
<1> QED
  BY <1>2, <1>3

(* Every step keeps this, and what faults is the begin of a transaction    *)
(* next to one that has no entry, which is alone (EntriesAreOthers).       *)
LEMMA CompanyStep ==
  ASSUME IInv, LonerHadCompany, [Next]_vars
  PROVE  /\ LonerHadCompany'
         /\ crashed' # crashed =>
              \E t \in active_transactions :
                active_transactions = {t} /\ met[t] # {}
<1> DEFINE Alone == \E t \in active_transactions :
                      active_transactions = {t} /\ met[t] # {}
<1>1. CASE UNCHANGED vars
  BY <1>1 DEF vars, lmVars, clientVars, LonerHadCompany
<1>2. ASSUME NEW t \in TxnId, ~crashed, AddTransactionFaults(t)
      PROVE  LonerHadCompany' /\ Alone
  <2>1. PICK u \in active_transactions : u \notin DOMAIN concurrent_transactions
    BY <1>2 DEF AddTransactionFaults, EntriesPresent
  <2>2. active_transactions = {u}
    BY <1>2, <2>1 DEF IInv, Consistent, EntriesAreOthers
  <2>3. met[u] # {}
    BY <1>2, <2>1 DEF LonerHadCompany
  <2>4. LonerHadCompany'
    BY <1>2 DEF AddTransactionFaults, LonerHadCompany
  <2> QED
    BY <2>1, <2>2, <2>3, <2>4
<1>3. ASSUME NEW t \in TxnId, NEW tbl \in TableId, NEW rid \in RowId,
             Read(t, tbl, rid) \/ Write(t, tbl, rid)
      PROVE  LonerHadCompany' /\ (crashed' # crashed => Alone)
  <2>1. ~crashed /\ Meet(t) /\ (AddTransaction(t) \/ AddTransactionFaults(t))
    BY <1>3 DEF Read, Write, Running, TrackRead, TrackWrite
  <2>2. CASE AddTransaction(t)
    <3>1. crashed' = crashed
      BY <2>2 DEF AddTransaction
    <3> QED
      BY <2>1, <2>2, <3>1, CompanyJoins
  <2>3. CASE AddTransactionFaults(t)
    BY <1>2, <2>1, <2>3
  <2> QED
    BY <2>1, <2>2, <2>3
<1>4. ASSUME NEW t \in TxnId, ~crashed, status[t] = "active", NEW how, End(t, how)
      PROVE  LonerHadCompany' /\ crashed' = crashed
  BY <1>4, CompanyEnds DEF End, Collect
<1>5. ASSUME NEW t \in TxnId, Commit(t) \/ Rollback(t)
      PROVE  LonerHadCompany' /\ crashed' = crashed
  BY <1>4, <1>5 DEF Commit, Rollback
<1>6. ASSUME NEW t \in TxnId, Resolve(t)
      PROVE  LonerHadCompany' /\ crashed' = crashed
  <2>1. PICK v \in CheckForConflicts(t) \ {NoTxn} : End(v, "aborted")
    BY <1>6 DEF Resolve
  <2>2. v \in TxnId /\ status[v] = "active" /\ ~crashed
    BY <1>6, VictimIsActive DEF Resolve
  <2> QED
    BY <1>4, <2>1, <2>2
<1> HIDE DEF Alone
<1>7. LonerHadCompany' /\ (crashed' # crashed => Alone)
  BY <1>1, <1>3, <1>5, <1>6 DEF Next, vars, lmVars
<1> QED
  BY <1>7 DEF Alone

(* However many transactions have come and gone, add_transaction           *)
(* (ssi_lock_manager.h:83) meets a missing entry only when a transaction   *)
(* begins next to a single one that has met others before.                 *)
THEOREM FaultsNeedLoner == Spec => FaultNeedsLoner
<1> DEFINE Alone == crashed' # crashed =>
                      \E t \in active_transactions :
                        active_transactions = {t} /\ met[t] # {}
<1>1. Init => LonerHadCompany
  BY DEF Init, LmInit, LonerHadCompany
<1>2. IInv /\ LonerHadCompany /\ [Next]_vars => LonerHadCompany' /\ Alone
  BY CompanyStep
<1> HIDE DEF Alone
<1>3. Spec => [][Alone]_vars
  BY <1>1, <1>2, InvCorrect, PTL DEF Spec
<1> QED
  BY <1>3 DEF FaultNeedsLoner, Alone
=============================================================================
