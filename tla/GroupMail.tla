------------------------------- MODULE GroupMail -------------------------------
(***************************************************************************)
(* The messages of the group of GroupKeys: send_group and poll_group of    *)
(* web_client.py, _h_gsend and _h_gpoll of server.py. All members read one *)
(* list at the relay; it marks who has read a message, and drops one only  *)
(* when it stands first and its last reader takes it.                      *)
(*                                                                         *)
(* The poll loop of a client polls the mail in every cycle until the relay *)
(* has no more, and in every fourth it then looks at the keys (FetchGroups,*)
(* ApplyBlock and check_group_rekey of GroupKeys). A message is opened     *)
(* with the key the client has when the answer is there, whatever key it   *)
(* was sealed with. The model lets a loop look at the keys at any time, so *)
(* also when a message came just after the relay had said EMPTY. A message *)
(* is one chunk: its assembly and retries are in RelayMailbox and          *)
(* DirectMessages, the signed poll in PollAuth.                            *)
(***************************************************************************)
EXTENDS GroupKeys, Sequences

CONSTANTS MaxPosts,         \* bound of the number of messages
          MaxMail,          \* MAX_MAILBOX_MSGS
          MaxMailRequests,  \* bounds, while somebody writes, of requests
          MaxMailLost,      \* ... and of answers lost
          FewPosts          \* whether the messages are those of a small run only

ASSUME MailAssumption ==
  /\ MaxPosts \in Nat
  /\ MaxMail \in Nat \ {0}
  /\ MaxMailRequests \in 0 .. MaxRequests
  /\ MaxMailLost \in 0 .. MaxLost
  /\ FewPosts \in BOOLEAN

VARIABLES mail,     \* the relay: group_mail[gid]
          posting,  \* client -> the message that its send_group is sending, in a set, or {}
          held,     \* client -> the message that its poll loop was handed, in a set, or {}
          posts     \* number of messages so far; above MaxPosts if nobody is to write

mailVars == <<mail, posting, held, posts>>

\* How many have left or were kicked so far.
Departures == done["leave"] + done["kick"]

\* What has to stay for the members to go on with the key they have settled on: the
\* last key made, who has gone, and that no /api/groups comes in between, whose
\* answer may be older than what the poll loop has applied when it is used.
Era == <<made, Departures, done["groups"]>>

\* All members have settled on the key of u, and nobody kept another one: a client
\* that was not told that it is out may be invited again, and invite with it.
OneKeyLeft(u) ==
  /\ u \in members /\ Settled /\ Agreement
  /\ \A w \in Users : key[w] \subseteq key[u]

(* A message: read is its '_read'. The rest is history: how many had gone when
   the relay took it, who was a member when it was sealed and, if one key was
   left then, the era. *)
Message(u) ==
  [nr : {posts + 1}, from : {u}, key : key[u], read : {{}},
   departures : {Departures}, to : {members},
   sure : {IF OneKeyLeft(u) THEN {Era} ELSE {}}]

GMInit ==
  /\ Init
  /\ mail = <<>>
  /\ posting = [u \in Users |-> {}]
  /\ held = [u \in Users |-> {}]
  /\ posts \in {0, MaxPosts + 1}

\* Behaviours with messages have smaller bounds than those of the keys alone. In a
\* small run, one message is sent at a time, there are only departures after the
\* second one, and the third one comes when the list is full and the members have
\* settled after a departure.
MailBounds ==
  posts <= MaxPosts =>
    /\ SumFunctionOnSet(done', Kinds \ {"lost"}) <= MaxMailRequests
    /\ done'["lost"] <= MaxMailLost
    /\ FewPosts =>
         /\ Cardinality({u \in Users : posting'[u] # {}}) <= 1
         /\ posts' > 1 => done'["invite"] + done'["groups"] = 0
         /\ posts' > posts /\ posts > 1 => Len(mail) = MaxMail /\ Departures > 0 /\ Settled

------------------------------------------------------------------------------
(* send_group *)

SealPost(u) ==
  /\ posts < MaxPosts
  /\ posting[u] = {}
  /\ \E m \in Message(u) : posting' = [posting EXCEPT ![u] = {m}]
  /\ posts' = posts + 1
  /\ UNCHANGED <<vars, mail, held>>
  /\ MailBounds

\* _h_gsend: the list is cut to its newest messages.
DeliverPost(u) ==
  /\ posting[u] # {}
  /\ \/ /\ u \in members
        /\ \E m \in posting[u] :
             LET new == Append(mail, [m EXCEPT !.departures = Departures])
             IN  mail' = IF Len(new) > MaxMail THEN Tail(new) ELSE new
        /\ UNCHANGED vars
     \/ /\ u \notin members
        /\ UNCHANGED <<vars, mail>>
     \/ /\ LoseAnswer
        /\ UNCHANGED <<relayVars, clientVars, thread, made, sealed, known, gone, calm, mail>>
  /\ posting' = [posting EXCEPT ![u] = {}]
  /\ UNCHANGED <<held, posts>>
  /\ MailBounds

------------------------------------------------------------------------------
(* poll_group *)

Unread(u) == {i \in 1 .. Len(mail) : u \notin mail[i].read}

\* Mutant: nobody is handed a message of its own.
NextFor_NotOwn(u) ==
  LET others == {i \in Unread(u) : mail[i].from # u}
  IN  IF u \in members /\ others # {} THEN {Min(others)} ELSE {}

\* What _h_gpoll hands out: the first message that u has not read.
NextFor(u) ==
  IF u \in members /\ Unread(u) # {} THEN {Min(Unread(u))} ELSE {}

\* Mutant: whether all have read it is looked up before u is noted.
Marked_TooSoon(i, u) ==
  IF i = 1 /\ members \subseteq mail[1].read
  THEN Tail(mail)
  ELSE [mail EXCEPT ![i].read = @ \cup {u}]

\* Only the branch for the first message removes it when all have read it.
Marked(i, u) ==
  IF i = 1 /\ members \subseteq mail[1].read \cup {u}
  THEN Tail(mail)
  ELSE [mail EXCEPT ![i].read = @ \cup {u}]

\* One query of poll_group that brings a message, or whose answer is lost on the
\* way: the relay has marked it all the same.
PollMail(u) ==
  /\ thread[<<u, "poll">>] = Idle /\ held[u] = {} /\ key[u] # {}
  /\ \E i \in NextFor(u) :
       /\ mail' = Marked(i, u)
       /\ \/ held' = [held EXCEPT ![u] = {mail[i]}] /\ UNCHANGED vars
          \/ /\ LoseAnswer
             /\ UNCHANGED <<relayVars, clientVars, thread, made, sealed, known, gone, calm, held>>
  /\ UNCHANGED <<posting, posts>>
  /\ MailBounds

\* The message is shown, with whatever key there is now; the loop polls again.
OpenMail(u) ==
  /\ held[u] # {}
  /\ held' = [held EXCEPT ![u] = {}]
  /\ UNCHANGED <<vars, mail, posting, posts>>

\* The poll loop goes on to the keys, not while it holds a message.
LookAtKeys(u) ==
  /\ held[u] = {}
  /\ FetchGroups(u)
  /\ UNCHANGED mailVars
  /\ MailBounds

KeyStep ==
  \/ \E t \in Threads : Work(t) \/ LoseRequest(t)
  \/ \E u \in Users : RequestGroups(u) \/ RequestLeave(u)
  \/ \E u, v \in Users : RequestInvite(u, v) \/ RequestKick(u, v)

GMNext ==
  \/ \E u \in Users :
       SealPost(u) \/ DeliverPost(u) \/ PollMail(u) \/ OpenMail(u) \/ LookAtKeys(u)
  \/ KeyStep /\ UNCHANGED mailVars /\ MailBounds

gmVars == <<vars, mailVars>>

\* A thread goes on, as in GroupKeys, and a poll loop with whatever is next in its
\* cycle; every cycle polls the mail, however often the loop looks at the keys in
\* between. Nobody has to write.
GMFairness ==
  \A u \in Users :
    /\ WF_gmVars(DeliverPost(u))
    /\ WF_gmVars(Work(<<u, "req">>) /\ UNCHANGED mailVars)
    /\ WF_gmVars(\/ Work(<<u, "poll">>) /\ UNCHANGED mailVars
                 \/ OpenMail(u)
                 \/ LookAtKeys(u))
    /\ SF_gmVars(PollMail(u))

GMSpec == GMInit /\ [][GMNext]_gmVars /\ GMFairness

------------------------------------------------------------------------------
(* Correctness *)

\* The list does not fill with messages that nobody is to read any more ("Если
\* все прочитали — удаляем" in _h_gpoll), as long as nobody has gone since the
\* oldest one was posted. After such a departure the first message may stay for
\* ever, and every later one behind it: only MaxMail bounds the list, and when it
\* then drops the first, the next one is in the same case.
KeptForSomebody ==
  mail # <<>> /\ mail[1].departures = Departures /\ Len(mail) < MaxMail =>
    \A i \in 1 .. Len(mail) : ~(members \subseteq mail[i].read)

\* A message that was sealed when one key was left (OneKeyLeft) can be opened by
\* those who were members then, in whatever order messages and keys are fetched,
\* until the next era; whoever is invited meanwhile has no other key either.
CurrentMailOpens ==
  \A u \in members :
    \A m \in held[u] \cup Range(mail) :
      m.sure = {Era} => key[u] \subseteq {m.key} /\ (u \in m.to => key[u] = {m.key})

\* Whoever is a member and has a key takes each message that waits, also behind
\* one that can no longer be removed, unless it goes or the message is dropped.
EveryMemberReads == <>[](\A u \in members : key[u] # {} => Unread(u) = {})
==============================================================================
