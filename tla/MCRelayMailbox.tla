---------------------------- MODULE MCRelayMailbox ----------------------------
(***************************************************************************)
(* Small instances for TLC of the relay's mailboxes and of three modules  *)
(* that share no variable with them or with each other: what authorises a  *)
(* poll, the ways that a poll takes, and the names at the relay. A         *)
(* behaviour of this module is one of any of the four; part says of which, *)
(* and the variables of the other three stay as they begin. The names come *)
(* in two parts, the registrations of folders and the client's pins: both  *)
(* depend on the names, and neither on the other, so that a behaviour of   *)
(* Registry that has both gives one of each part by leaving the other out. *)
(***************************************************************************)
EXTENDS RelayMailbox, PollAuth, Transports, Registry

VARIABLE part

mbVars == vars
allVars == <<mbVars, paVars, trVars, rgVars, part>>

RelayInit ==
  /\ Init /\ PAInit /\ TRInit /\ RGInit
  /\ part \in {"mailbox", "polls", "transports", "folders", "pins"}

RelayNext ==
  \/ part = "mailbox" /\ Next /\ UNCHANGED <<paVars, trVars, rgVars, part>>
  \/ part = "polls" /\ PANext /\ UNCHANGED <<mbVars, trVars, rgVars, part>>
  \/ part = "transports" /\ TRNext /\ UNCHANGED <<mbVars, paVars, rgVars, part>>
  \/ part = "folders" /\ RGNext /\ UNCHANGED <<clientVars, mbVars, paVars, trVars, part>>
  \/ part = "pins" /\ RGNext /\ UNCHANGED <<diskVars, mbVars, paVars, trVars, part>>

RelaySpec == RelayInit /\ [][RelayNext]_allVars

\* Users are interchangeable, and so are message ids, and threads that poll. The names
\* have the model values of the users, so that the same permutations serve both.
Symmetry == UNION {Permutations(s) : s \in {Users, Mids, Askers}}
==============================================================================
