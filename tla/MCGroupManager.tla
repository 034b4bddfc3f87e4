-------------------------- MODULE MCGroupManager ----------------------------
(* GroupManager for TLC.                                                   *)
EXTENDS GroupManager
=============================================================================
