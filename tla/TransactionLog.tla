--------------------------- MODULE TransactionLog ---------------------------
(***************************************************************************)
(* What the transactions of a cell promise about rows, whatever cursors,   *)
(* failed insertions and updates do in between: a row belongs for ever to  *)
(* the transaction that added it, and a row becomes committed only when    *)
(* its transaction commits, together with all that transaction has added   *)
(* by then (src/src/lib/cell/cpp/transaction.h).  A transaction may add    *)
(* and commit again afterwards.                                            *)
(***************************************************************************)
CONSTANTS
  Row,        (* row ids                                                   *)
  Owner       (* names of transactions                                     *)

VARIABLES
  owner,      (* partial map: the transaction that added the row           *)
  committed   (* the rows that are committed                               *)

vars == <<owner, committed>>

Init ==
  /\ owner = [r \in {} |-> {}]
  /\ committed = {}

(* insert_columns or update_columns.                                       *)
Add(h, r) ==
  /\ r \notin DOMAIN owner
  /\ owner' = [s \in DOMAIN owner \cup {r} |-> IF s = r THEN h ELSE owner[s]]
  /\ UNCHANGED committed

(* commit.                                                                 *)
CommitAll(h) ==
  /\ committed' = committed \cup {r \in DOMAIN owner : owner[r] = h}
  /\ UNCHANGED owner

Next == \E h \in Owner : CommitAll(h) \/ \E r \in Row : Add(h, r)

Spec == Init /\ [][Next]_vars
=============================================================================
