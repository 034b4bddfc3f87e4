------------------------------- MODULE MCCell -------------------------------
(* Cell for TLC.                                                           *)
EXTENDS Cell
=============================================================================
