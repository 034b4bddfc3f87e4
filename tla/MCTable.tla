------------------------------ MODULE MCTable -------------------------------
(***************************************************************************)
(* Table for TLC.  The instance is large in one of two directions at a     *)
(* time: two transactions with all rows and columns, whose calls may fail  *)
(* half-way, at all levels the lock manager does not hear of; or fewer     *)
(* rows with the columns that can be stored, and serializable calls of the *)
(* two, while the others begin with a fetch and end at any moment.  Every  *)
(* step is one of Table's.                                                 *)
(***************************************************************************)
EXTENDS Table

CONSTANTS
  Updaters,  (* the two                                                    *)
  FewRows

VARIABLE setting

MCInit == Init /\ setting \in {"failing calls", "lock manager"}

FailingCalls ==
  /\ setting = "failing calls"
  /\ \E t \in Updaters : CallsOf(t, Column, RowId, Level \ {"SERIALIZABLE"})
  /\ UNCHANGED setting

Serializable == {"SERIALIZABLE"}

Followed ==
  /\ setting = "lock manager"
  /\ \/ \E t \in Updaters : CallsOf(t, Column \ Unstorable, FewRows, Serializable)
     \/ \E t \in TxnId \ Updaters :
          Finish(t) \/ \E r \in FewRows : FetchRow(t, r, {}, "SERIALIZABLE")
  /\ row_id_generator' \in FewRows \cup {0}
  /\ UNCHANGED setting

MCNext == FailingCalls \/ Followed

MCSpec == MCInit /\ [][MCNext]_<<vars, setting>>
=============================================================================
