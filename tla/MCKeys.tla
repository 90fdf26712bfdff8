-------------------------------- MODULE MCKeys ---------------------------------
(***************************************************************************)
(* Small instances for TLC of two modules that have no variable in common: *)
(* the keys of conversations of two (DMSessions) and those of groups       *)
(* (GroupKeys). A behaviour of this module is one of either of the two;    *)
(* part says of which, and the variables of the other stay as they begin.  *)
(***************************************************************************)
EXTENDS DMSessions, GroupKeys

VARIABLE part

KeysInit == DSInit /\ Init /\ part \in {"sessions", "groups"}

\* A bound of the sessions: the last message is sent only in behaviours without a
\* login or without a message that is delivered again.
Small ==
  \/ Cardinality(sent) < MaxSent
  \/ \A id \in Ids : got[id] <= 1
  \/ \A e \in Logins : count[e] = 0

\* ... and of the groups: a kick and a listing do not meet, and a third key is made
\* only in behaviours without a kick.
FewKeys ==
  /\ done["kick"] + done["groups"] <= 1
  /\ made <= 2 \/ done["kick"] = 0

KeysNext ==
  \/ part = "sessions" /\ DSNext /\ Small' /\ UNCHANGED <<vars, part>>
  \/ part = "groups" /\ Next /\ FewKeys' /\ UNCHANGED <<dsVars, part>>

KeysSpec == KeysInit /\ [][KeysNext]_<<dsVars, vars, part>>
==============================================================================
