---------------------------- MODULE MCRatchetThreads ----------------------------
(***************************************************************************)
(* A small instance of RatchetThreads for TLC. The threads are             *)
(* interchangeable.                                                        *)
(***************************************************************************)
EXTENDS RatchetThreads, TLC

Symmetry == Permutations(Senders)
==============================================================================
