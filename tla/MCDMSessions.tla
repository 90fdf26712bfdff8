----------------------------- MODULE MCDMSessions ------------------------------
(***************************************************************************)
(* A small instance of DMSessions for TLC. The two users are               *)
(* interchangeable.                                                        *)
(***************************************************************************)
EXTENDS DMSessions

Symmetry == Permutations(Peers)
==============================================================================
