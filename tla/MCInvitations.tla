----------------------------- MODULE MCInvitations -----------------------------
(***************************************************************************)
(* A small instance of Invitations for TLC: the founder invites one user.  *)
(***************************************************************************)
EXTENDS Invitations, TLC
==============================================================================
