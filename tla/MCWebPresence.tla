----------------------------- MODULE MCWebPresence -----------------------------
(***************************************************************************)
(* Small instances for TLC of four modules that have no variable in        *)
(* common: presence and buffers, streams and accounts of the web server,   *)
(* and files. A behaviour of this module is one of any of the four; part   *)
(* says of which, and the variables of the other three stay as they begin. *)
(***************************************************************************)
EXTENDS WebPresence, LiveStreams, Accounts, FileRelay, TLC

VARIABLE part

WebInit ==
  /\ WPInit /\ LSInit /\ ACInit /\ Init
  /\ part \in {"presence", "streams", "accounts", "files"}

\* A bound of the files: a late header and a restart do not meet.
FewLate == restarts = 0 \/ \A fid \in Fids : lateHeaders[fid] = 0

WebNext ==
  \/ part = "presence" /\ WPNext /\ UNCHANGED <<lsVars, acVars, vars, part>>
  \/ part = "streams" /\ LSNext /\ UNCHANGED <<wpVars, acVars, vars, part>>
  \/ part = "accounts" /\ ACNext /\ UNCHANGED <<wpVars, lsVars, vars, part>>
  \/ part = "files" /\ Next /\ FewLate' /\ UNCHANGED <<wpVars, lsVars, acVars, part>>

WebSpec == WebInit /\ [][WebNext]_<<wpVars, lsVars, acVars, vars, part>>

\* The browsers are interchangeable, and so are the viewers and the ids of files.
\* All three are x1 and x2 here: one permutation swaps what a part has of them.
Symmetry == Permutations(Tabs)
==============================================================================
