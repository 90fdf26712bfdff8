------------------------------- MODULE GroupKeys -------------------------------
(***************************************************************************)
(* The key of one group: who is in the group at the relay (_h_ginvite,     *)
(* _h_gleave, _h_gkick, _h_gmembers, _h_glist of server.py), and how the   *)
(* clients change the key when somebody leaves or is kicked (rekey_group,  *)
(* kick_member, check_group_rekey, fetch_groups of web_client.py).         *)
(*                                                                         *)
(* Every client has two threads on the same fields: its poll loop, and the *)
(* request of the user that Flask serves. The relay serves one query at a  *)
(* time, so a step of a thread is either one query, served and answered,   *)
(* or the code between two queries: what a thread does with an answer may  *)
(* come long after the relay gave it.                                      *)
(*                                                                         *)
(* The group exists, and its founders agree on its key. Signed polls       *)
(* (PollAuth), the assembly of an invitation's chunks and the lookup of a  *)
(* peer's public key are left out: an invitation is its last chunk. After  *)
(* a restart of the relay the group is gone and every query below answers  *)
(* ERR:no_group, so there is no such step.                                 *)
(***************************************************************************)
EXTENDS Integers, FiniteSets, FiniteSetsExt, Functions

CONSTANTS Users,        \* names, as numbers: their order is that of min()
          Founders,     \* the members at the start
          Creator,      \* the founder that created the group
          MaxKeys,      \* bound of the number of new keys
          MaxInvites,   \* bounds of the number of requests of users: to invite,
          MaxLeaves,    \* ... to leave,
          MaxKicks,     \* ... to kick,
          MaxFetches,   \* ... to list their groups,
          MaxRequests,  \* ... and of all kinds together,
          MaxMixed,     \* ... if one is to invite, or an answer is lost
          MaxLost       \* bound of the number of answers lost

ASSUME NamesAssumption ==
  /\ Users \subseteq Nat
  /\ IsFiniteSet(Users)
  /\ Founders \subseteq Users
  /\ Creator \in Founders

ASSUME BoundsAssumption ==
  /\ MaxKeys \in Nat
  /\ MaxInvites \in Nat /\ MaxLeaves \in Nat /\ MaxKicks \in Nat /\ MaxFetches \in Nat
  /\ MaxRequests \in Nat /\ MaxMixed \in 0 .. MaxRequests
  /\ MaxLost \in Nat

VARIABLES members,   \* the relay: grp['members']
          block,     \* the relay: grp['keys'], member -> sealed key
          key,       \* client -> group_keys[gid], in a set, or {}
          applied,   \* client -> _group_key_applied[gid], in a set, or {}
          last,      \* client -> _group_last_members[gid], in a set, or {}
          thread     \* thread -> where it is in the code, and what it holds

\* History.
VARIABLES made,      \* number of keys generated by rekey_group
          sealed,    \* number of keys sealed by invite_to_group
          done,      \* what users have asked for so far: kind -> number
          known,     \* user -> keys it has had
          gone,      \* users that left or were kicked, and that no user invited since
          calm       \* every request so far came when the group had settled

relayVars == <<members, block>>
clientVars == <<key, applied, last>>
history == <<made, sealed, done, known, gone, calm>>
vars == <<relayVars, clientVars, thread, history>>

Keys == 0 .. MaxKeys
Kinds == {"invite", "leave", "kick", "groups", "lost"}

\* A sealed key; no two have the same bytes, even of the same key.
Block(k, from, nr) == [key |-> k, from |-> from, nr |-> nr]

Threads == Users \X {"poll", "req"}
Idle == [at |-> "idle"]

\* The founders other than the creator have its key from their invitations.
Init ==
  /\ members = Founders
  /\ block = [u \in Founders \ {Creator} |-> Block(0, Creator, 0)]
  /\ key = [u \in Users |-> IF u \in Founders THEN {0} ELSE {}]
  /\ applied = [u \in Users |-> IF u \in DOMAIN block THEN {block[u]} ELSE {}]
  /\ last = [u \in Users |-> IF u \in Founders THEN {Founders} ELSE {}]
  /\ thread = [t \in Threads |-> Idle]
  /\ made = 0
  /\ sealed = 0
  /\ done = [kind \in Kinds |-> 0]
  /\ known = key
  /\ gone = {}
  /\ calm = TRUE

Go(t, place) == thread' = [thread EXCEPT ![t] = place]

------------------------------------------------------------------------------
(* The relay *)

\* What _h_gleave and _h_gkick do.
RemoveMember(u) ==
  /\ members' = members \ {u}
  /\ block' = Restrict(block, DOMAIN block \ {u})

\* _h_glist: the sealed key of u.
BlocksOf(u) == IF u \in members \cap DOMAIN block THEN {block[u]} ELSE {}

\* _h_gmembers; the client takes any refusal for an empty list.
MembersFor(u) == IF u \in members THEN members ELSE {}

\* The bound of a whole behaviour.
WithinBounds(d) ==
  SumFunctionOnSet(d, Kinds \ {"lost"}) <=
    IF d["invite"] = 0 /\ d["lost"] = 0 THEN MaxRequests ELSE MaxMixed

\* A query of which the answer is lost on the way.
LoseAnswer ==
  /\ done["lost"] < MaxLost
  /\ done' = [done EXCEPT !["lost"] = @ + 1]
  /\ WithinBounds(done')

\* The answer of a query that only reads: got, or nothing if it is lost.
Read(t, place, got) ==
  \/ Go(t, [at |-> place, got |-> got]) /\ UNCHANGED done
  \/ Go(t, [at |-> place, got |-> {}]) /\ LoseAnswer

------------------------------------------------------------------------------
(* fetch_groups, in the poll loop or for /api/groups *)

\* A fetch that finds nothing, by a client that has no key either, is no step.
FetchGroups(u) ==
  /\ thread[<<u, "poll">>] = Idle
  /\ BlocksOf(u) # {} \/ key[u] # {}
  /\ Read(<<u, "poll">>, "groups", BlocksOf(u))
  /\ UNCHANGED <<relayVars, clientVars, made, sealed, known, gone, calm>>

\* Where a fetch goes on: the poll loop with check_group_rekey, if it has a key.
Fetched(t, keys) == IF t[2] = "poll" /\ keys # {} THEN [at |-> "check"] ELSE Idle

\* Mutant: a group whose key is known is skipped, as before the key could change.
Unapplied_KnownGroup(u, got) == IF key[u] = {} THEN got \ applied[u] ELSE {}

\* Mutant: a sealed key is applied again with every answer.
Unapplied_Again(u, got) == got

\* A sealed key that is not the one that was applied last.
Unapplied(u, got) == got \ applied[u]

\* The sender's public key is looked up after this (get_peer_key), so that the other
\* thread of the client may go on before the key is assigned.
CheckBlock(t) ==
  LET new == Unapplied(t[1], thread[t].got)
  IN  /\ thread[t].at = "groups"
      /\ Go(t, IF new = {} THEN Fetched(t, key[t[1]]) ELSE [at |-> "apply", got |-> new])
      /\ UNCHANGED <<relayVars, clientVars, history>>

ApplyBlock(t) ==
  LET u == t[1]
      new == thread[t].got
  IN  /\ thread[t].at = "apply"
      /\ key' = [key EXCEPT ![u] = {b.key : b \in new}]
      /\ applied' = [applied EXCEPT ![u] = new]
      /\ known' = [known EXCEPT ![u] = @ \cup {b.key : b \in new}]
      /\ Go(t, Fetched(t, key'[u]))
      /\ UNCHANGED <<relayVars, last, made, sealed, done, gone, calm>>

------------------------------------------------------------------------------
(* check_group_rekey *)

ListToCheck(t) ==
  /\ thread[t].at = "check"
  /\ Read(t, "members", MembersFor(t[1]))
  /\ UNCHANGED <<relayVars, clientVars, made, sealed, known, gone, calm>>

\* Mutant: everybody who sees the group shrink changes the key.
Elected_All(u, got) == \E prev \in last[u] : got \subseteq prev /\ got # prev

\* Mutant: the first name of the old list is elected, who may be the one that left.
Elected_OfBefore(u, got) ==
  \E prev \in last[u] : got \subseteq prev /\ got # prev /\ u = Min(prev)

\* u sees the group shrink and has the first name of those who are left.
Elected(u, got) ==
  \E prev \in last[u] : got \subseteq prev /\ got # prev /\ u = Min(got)

ObserveMembers(t) ==
  LET u == t[1]
      got == thread[t].got
  IN  /\ thread[t].at = "members"
      /\ last' = IF u \in got THEN [last EXCEPT ![u] = {got}] ELSE last
      /\ Go(t, IF u \in got /\ Elected(u, got) THEN [at |-> "relist"] ELSE Idle)
      /\ UNCHANGED <<relayVars, key, applied, history>>

------------------------------------------------------------------------------
(* rekey_group and invite_to_group *)

ListToRekey(t) ==
  /\ thread[t].at = "relist"
  /\ Read(t, "rekey", MembersFor(t[1]))
  /\ UNCHANGED <<relayVars, clientVars, made, sealed, known, gone, calm>>

\* Who is invited after todo; the thread is done when nobody is left.
Invite(todo) == IF todo = {} THEN Idle ELSE [at |-> "seal", todo |-> todo]

NewKey(t) ==
  LET u == t[1]
      got == thread[t].got
  IN  /\ thread[t].at = "rekey"
      /\ IF u \notin got
         THEN Go(t, Idle) /\ UNCHANGED <<key, last, made, known>>
         ELSE /\ made < MaxKeys
              /\ made' = made + 1
              /\ key' = [key EXCEPT ![u] = {made + 1}]
              /\ known' = [known EXCEPT ![u] = @ \cup {made + 1}]
              /\ last' = [last EXCEPT ![u] = {got}]
              /\ Go(t, Invite(got \ {u}))
      /\ UNCHANGED <<relayVars, applied, sealed, done, gone, calm>>

\* invite_to_group seals the key that the client has by now.
SealKey(t) ==
  LET u == t[1]
      to == Min(thread[t].todo)
      todo == thread[t].todo \ {to}
  IN  /\ thread[t].at = "seal"
      /\ \/ /\ key[u] = {}
            /\ Go(t, Invite(todo))
            /\ UNCHANGED sealed
         \/ \E k \in key[u] :
              /\ sealed' = sealed + 1
              /\ Go(t, [at |-> "deliver", to |-> to, todo |-> todo,
                        sealed |-> Block(k, u, sealed + 1)])
      /\ UNCHANGED <<relayVars, clientVars, made, done, known, gone, calm>>

\* Mutant: the relay keeps the first key that was sealed for a member.
DeliverInvite_KeepsFirst(t) ==
  LET to == thread[t].to
  IN  /\ thread[t].at = "deliver"
      /\ \/ /\ t[1] \in members
            /\ members' = members \cup {to}
            /\ block' = [u \in DOMAIN block \cup {to} |->
                           IF u \in DOMAIN block THEN block[u] ELSE thread[t].sealed]
            /\ UNCHANGED done
         \/ /\ t[1] \notin members
            /\ UNCHANGED <<relayVars, done>>
         \/ /\ LoseAnswer
            /\ UNCHANGED relayVars
      /\ Go(t, Invite(thread[t].todo))
      /\ UNCHANGED <<clientVars, made, sealed, known, gone, calm>>

\* _apply_ginvite. A lost answer is asked for again (_q_reliable) and changes
\* nothing here; an invitation that never reaches the relay counts as lost.
DeliverInvite(t) ==
  LET to == thread[t].to
  IN  /\ thread[t].at = "deliver"
      /\ \/ /\ t[1] \in members
            /\ members' = members \cup {to}
            /\ block' = [u \in DOMAIN block \cup {to} |->
                           IF u = to THEN thread[t].sealed ELSE block[u]]
            /\ UNCHANGED done
         \/ /\ t[1] \notin members
            /\ UNCHANGED <<relayVars, done>>
         \/ /\ LoseAnswer
            /\ UNCHANGED relayVars
      /\ Go(t, Invite(thread[t].todo))
      /\ UNCHANGED <<clientVars, made, sealed, known, gone, calm>>

------------------------------------------------------------------------------
(* When the group has come to rest *)

\* Nobody is changing the key or the membership, and everybody has noticed
\* every change.
AtRest ==
  /\ \A t \in Threads :
       thread[t].at \notin {"apply", "relist", "rekey", "seal", "deliver", "left"}
  /\ \A u \in members : BlocksOf(u) \subseteq applied[u] /\ last[u] = {members}

\* Nor is any answer under way that could be out of date when it is used.
Settled ==
  /\ AtRest
  /\ \A t \in Threads : thread[t].at \in {"groups", "members"} => thread[t].got = {}

------------------------------------------------------------------------------
(* The requests of the users *)

Ask(kind, bound) ==
  /\ done[kind] < bound
  /\ done' = [done EXCEPT ![kind] = @ + 1]
  /\ WithinBounds(done')
  /\ calm' = (calm /\ Settled)

\* /api/groups/invite.
RequestInvite(u, v) ==
  /\ thread[<<u, "req">>] = Idle
  /\ key[u] # {} /\ v # u
  /\ Ask("invite", MaxInvites)
  /\ Go(<<u, "req">>, Invite({v}))
  /\ gone' = gone \ {v}
  /\ UNCHANGED <<relayVars, clientVars, made, sealed, known>>

\* /api/groups, up to the answer of _h_glist.
RequestGroups(u) ==
  /\ thread[<<u, "req">>] = Idle
  /\ Ask("groups", MaxFetches)
  /\ Go(<<u, "req">>, [at |-> "groups", got |-> BlocksOf(u)])
  /\ UNCHANGED <<relayVars, clientVars, made, sealed, known, gone>>

\* kick_member, up to the answer of _h_gkick; an answer that is lost ends it.
RequestKick(u, v) ==
  /\ thread[<<u, "req">>] = Idle
  /\ u \in members /\ v \in members \ {u}
  /\ Ask("kick", MaxKicks)
  /\ RemoveMember(v)
  /\ gone' = gone \cup {v}
  /\ Go(<<u, "req">>, [at |-> "relist"])
  /\ UNCHANGED <<clientVars, made, sealed, known>>

\* leave_group, up to the answer of _h_gleave.
RequestLeave(u) ==
  /\ thread[<<u, "req">>] = Idle
  /\ u \in members
  /\ Ask("leave", MaxLeaves)
  /\ RemoveMember(u)
  /\ gone' = gone \cup {u}
  /\ Go(<<u, "req">>, [at |-> "left"])
  /\ UNCHANGED <<clientVars, made, sealed, known>>

ForgetGroup(t) ==
  LET u == t[1]
  IN  /\ thread[t].at = "left"
      /\ key' = [key EXCEPT ![u] = {}]
      /\ applied' = [applied EXCEPT ![u] = {}]
      /\ last' = [last EXCEPT ![u] = {}]
      /\ Go(t, Idle)
      /\ UNCHANGED <<relayVars, history>>

\* The answer to a request to leave or to kick is lost: the client does not go on.
LoseRequest(t) ==
  /\ t[2] = "req"
  /\ thread[t].at \in {"left", "relist"}
  /\ LoseAnswer
  /\ Go(t, Idle)
  /\ UNCHANGED <<relayVars, clientVars, made, sealed, known, gone, calm>>

Work(t) ==
  \/ CheckBlock(t) \/ ApplyBlock(t)
  \/ ListToCheck(t)
  \/ ObserveMembers(t)
  \/ ListToRekey(t)
  \/ NewKey(t)
  \/ SealKey(t)
  \/ DeliverInvite(t)
  \/ ForgetGroup(t)

Next ==
  \/ \E t \in Threads : Work(t) \/ LoseRequest(t)
  \/ \E u, v \in Users : RequestInvite(u, v) \/ RequestKick(u, v)
  \/ \E u \in Users : FetchGroups(u) \/ RequestGroups(u) \/ RequestLeave(u)

Spec == Init /\ [][Next]_vars

------------------------------------------------------------------------------
(* Correctness *)

Agreement == \A u, v \in members : key[u] = key[v] /\ key[u] # {}

\* What the plan says of leave and kick ("результат детерминирован", "устраняет
\* саму возможность гонки"): requests that wait for one another leave all
\* members with the same key.
CalmChangesAgree == calm /\ Settled => Agreement

\* So it is as long as nobody is kicked and no answer is lost.
CalmLeavesAgree == calm /\ Settled /\ done["kick"] = 0 /\ done["lost"] = 0 => Agreement

\* Those who are out do not know the key of anyone who is in, once the requests
\* that came one by one have settled: forward secrecy on leave and kick.
DepartedLockedOut ==
  calm /\ Settled /\ done["lost"] = 0 =>
    \A u \in members, v \in Users \ members : key[u] \cap known[v] = {}

\* What rekey_group says of those who left or were kicked ("Кто ушёл/выкинут, тот
\* НЕ входит в members"): nobody comes back whom no user has invited.
DepartedStayOut == gone \cap members = {}

\* Without kicks, a departure costs at most one new key, however the polls of the
\* members, the departures and the invitations of a rekey interleave: the
\* election of check_group_rekey has one winner for each.
OneKeyPerLeave == done["kick"] = 0 /\ done["invite"] = 0 => made <= done["leave"]

\* Whatever the users did, the threads come to rest: no member answers a new key
\* with another one for ever.
Settles == <>[]AtRest
==============================================================================
