--------------------------- MODULE MCSsiProtocol ----------------------------
(* SsiProtocol for TLC: interchangeable transactions and rows.             *)
EXTENDS SsiProtocol, TLC

Symmetry == Permutations(TxnId) \cup Permutations(RowId)
=============================================================================
