------------------------------ MODULE MCGroupKeys ------------------------------
(***************************************************************************)
(* Small instances of GroupKeys for TLC.                                   *)
(***************************************************************************)
EXTENDS GroupKeys
==============================================================================
