--------------------------- MODULE MCDirectMessages ---------------------------
(***************************************************************************)
(* Small instances of DirectMessages for TLC.                              *)
(***************************************************************************)
EXTENDS DirectMessages, TLC

\* The safety part of DMSpec, for the run that checks no liveness.
SafetySpec == DMInit /\ [][DMNext]_dmVars
==============================================================================
