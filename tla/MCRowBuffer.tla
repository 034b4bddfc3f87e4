----------------------------- MODULE MCRowBuffer ----------------------------
(* RowBuffer for TLC.                                                      *)
EXTENDS RowBuffer

CONSTANTS r1, r2, r3

MCRow == {r1, r2, r3}
MCHeader == <<"integer", "varchar", "smallint">>
MCStringSize == [r \in MCRow |-> IF r = r1 THEN 0 ELSE 5]
=============================================================================
