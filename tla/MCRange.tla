------------------------------ MODULE MCRange -------------------------------
(* Range for TLC.                                                          *)
EXTENDS Range
=============================================================================
