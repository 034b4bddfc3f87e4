------------------------------- MODULE MCPage --------------------------------
(* Page for TLC.                                                           *)
EXTENDS Page, TLC

CONSTANTS v1, v2

MCValue == {v1, v2}

(* No action and no property tells one value from another.                 *)
ValueSymmetry == Permutations(MCValue)
=============================================================================
