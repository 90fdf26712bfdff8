------------------------------ MODULE Invitations ------------------------------
(***************************************************************************)
(* The invitation of GroupKeys in full: its sealed key is too long for one *)
(* query, so the client sends it chunk by chunk (invite_to_group of        *)
(* web_client.py) and the relay collects the chunks of one invitation      *)
(* (_h_ginvite_chunked of server.py) before it applies it.                 *)
(*                                                                         *)
(* Every query is tried again when no answer comes in time (_q_reliable);  *)
(* what was given up may still arrive, any number of times. Unlike the     *)
(* assembly of a message (RelayMailbox), this one keeps no record of what  *)
(* was completed.                                                          *)
(*                                                                         *)
(* One group; the signature of the inviter is in the chunks and covers     *)
(* neither a time nor a nonce, so it is as good in a repeat and is left    *)
(* out. The number of chunks is fixed by the id, which invite_to_group     *)
(* draws anew. After a restart of the relay the group is gone.             *)
(***************************************************************************)
EXTENDS Integers, Sequences, FiniteSets

CONSTANTS Users,          \* names
          Founders,       \* the members at the start
          Chunks,         \* the number of chunks of an invitation
          MaxIncomplete,  \* MAX_INCOMPLETE
          SendRetries,    \* SEND_RETRIES
          MaxInvites,     \* bound of the number of invitations
          Idle,           \* an invitation that has returned
          NoAnswer        \* the open socket has received nothing yet

VARIABLES members,  \* the relay: grp['members']
          keys,     \* the relay: member -> the invitation that brought its sealed key
          pending   \* the relay: _ginvite_pending, the one touched longest ago first

VARIABLES invited,  \* the invitations, by and to whom; each is known by its number
          call,     \* number -> the chunk and the try it waits for
          net,      \* chunks that were put on the wire
          answer,   \* number -> what its open socket has received
          changes   \* history: number -> how often it has changed the group

relayVars == <<members, keys, pending>>
clientVars == <<invited, call, net, answer>>
vars == <<relayVars, clientVars, changes>>

Numbers == 1 .. MaxInvites

Init ==
  /\ members = Founders
  /\ keys = [u \in {} |-> 0]
  /\ pending = <<>>
  /\ invited = <<>>
  /\ call = [nr \in Numbers |-> Idle]
  /\ net = {}
  /\ answer = [nr \in Numbers |-> NoAnswer]
  /\ changes = [nr \in Numbers |-> 0]

------------------------------------------------------------------------------
(* The relay *)

\* What the sweep leaves of the assemblies: it takes those not touched for a time.
Swept == {SubSeq(pending, n, Len(pending)) : n \in 1 .. Len(pending) + 1}

OfOthers(asm, nr) == SelectSeq(asm, LAMBDA a : a.nr # nr)
Got(asm, nr) == UNION {asm[i].got : i \in {j \in DOMAIN asm : asm[j].nr = nr}}

\* A new assembly removes the oldest one if there are too many.
Room(asm, nr) ==
  IF OfOthers(asm, nr) = asm /\ Len(asm) >= MaxIncomplete THEN Tail(asm) ELSE asm

\* _apply_ginvite.
Apply(nr) ==
  LET by == invited[nr].by
      to == invited[nr].to
  IN  IF by \notin members
      THEN UNCHANGED <<members, keys, changes>>
      ELSE /\ members' = members \cup {to}
           /\ keys' = [u \in DOMAIN keys \cup {to} |-> IF u = to THEN nr ELSE keys[u]]
           /\ changes' = IF <<members, keys>>' = <<members, keys>>
                         THEN changes ELSE [changes EXCEPT ![nr] = @ + 1]

\* The answer goes to the socket that waits for this chunk, or is lost.
Reply(r, a) ==
  \/ /\ call[r.nr] # Idle /\ call[r.nr].seq = r.seq
     /\ answer' = [answer EXCEPT ![r.nr] = a]
  \/ answer' = answer

\* A chunk reaches the relay: now, or much later, or again.
Serve(r) ==
  /\ \E asm \in Swept :
       LET got == Got(asm, r.nr) \cup {r.seq}
           rest == OfOthers(Room(asm, r.nr), r.nr)
       IN  IF got # 0 .. Chunks - 1
           THEN /\ pending' = Append(rest, [nr |-> r.nr, got |-> got])
                /\ Reply(r, "OK")
                /\ UNCHANGED <<members, keys, changes>>
           ELSE /\ pending' = rest
                /\ Apply(r.nr)
                /\ Reply(r, IF invited[r.nr].by \in members THEN "OK" ELSE "ERR")
  /\ UNCHANGED <<invited, call, net>>

\* _h_gleave, and _h_gkick of somebody else.
Remove(u) ==
  /\ u \in members
  /\ members' = members \ {u}
  /\ keys' = [v \in DOMAIN keys \ {u} |-> keys[v]]
  /\ pending' \in Swept
  /\ UNCHANGED <<clientVars, changes>>

------------------------------------------------------------------------------
(* invite_to_group *)

Query(nr, seq, try) ==
  /\ call' = [call EXCEPT ![nr] = [seq |-> seq, try |-> try]]
  /\ net' = net \cup {[nr |-> nr, seq |-> seq]}
  /\ answer' = [answer EXCEPT ![nr] = NoAnswer]

\* With or without success.
Return(nr) ==
  /\ call' = [call EXCEPT ![nr] = Idle]
  /\ answer' = [answer EXCEPT ![nr] = NoAnswer]
  /\ UNCHANGED net

Invite(by, to) ==
  /\ Len(invited) < MaxInvites
  /\ by # to
  /\ invited' = Append(invited, [by |-> by, to |-> to])
  /\ Query(Len(invited) + 1, 0, 0)
  /\ UNCHANGED <<relayVars, changes>>

\* The next chunk, or the end.
Receive(nr) ==
  /\ call[nr] # Idle /\ answer[nr] # NoAnswer
  /\ IF answer[nr] = "OK" /\ call[nr].seq + 1 < Chunks
     THEN Query(nr, call[nr].seq + 1, 0)
     ELSE Return(nr)
  /\ UNCHANGED <<relayVars, invited, changes>>

\* ERR:timeout: the next try, or the end.
Timeout(nr) ==
  /\ call[nr] # Idle
  /\ IF call[nr].try < SendRetries
     THEN Query(nr, call[nr].seq, call[nr].try + 1)
     ELSE Return(nr)
  /\ UNCHANGED <<relayVars, invited, changes>>

Next ==
  \/ \E by, to \in Users : Invite(by, to)
  \/ \E nr \in Numbers : Receive(nr) \/ Timeout(nr)
  \/ \E r \in net : Serve(r)
  \/ \E u \in Users : Remove(u)

Spec == Init /\ [][Next]_vars

------------------------------------------------------------------------------
(* Correctness *)

\* What invite_to_group says of its retries ("повтор одного и того же чанка релей
\* просто квитирует"): an invitation changes the group at most once, so that late
\* chunks of it neither bring back a member that has left since nor put an older
\* sealed key in the place of a newer one.
ChangesOnce == \A nr \in Numbers : changes[nr] <= 1
==============================================================================
