------------------------------ MODULE MCGroupMail ------------------------------
(***************************************************************************)
(* A small instance of GroupMail for TLC.                                  *)
(***************************************************************************)
EXTENDS GroupMail
==============================================================================
