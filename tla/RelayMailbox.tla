----------------------------- MODULE RelayMailbox -----------------------------
(***************************************************************************)
(* The direct-message path of the relay (server.py, class RelayServer): a  *)
(* sender cuts a message into chunks, each a DNS query 's'; the relay      *)
(* collects the chunks of a message id (_assemble), puts the whole message *)
(* in the mailbox of its addressee, and hands it out on a query 'p'        *)
(* (_h_poll).                                                              *)
(*                                                                         *)
(* RelayServer.run is one thread that serves one query at a time, so every *)
(* query is one atomic step. handle_query calls _evict before the handler: *)
(* every handler below works on the SWEPT state (SweptAsm, SweptBox).      *)
(*                                                                         *)
(* The network is the weakest one: any chunk of any message a client has   *)
(* sent may reach the relay at any time, any number of times and in any    *)
(* order, or never. DirectMessages restricts it to what the client's retry *)
(* loop puts on the wire.                                                  *)
(***************************************************************************)
EXTENDS Integers, Sequences, FiniteSets, Functions

CONSTANTS Users,          \* names
          Mids,           \* message ids (gen_msg_id)
          MaxChunks,      \* MAX_MSG_CHUNKS
          MaxIncomplete,  \* MAX_INCOMPLETE
          MaxMailbox,     \* MAX_MAILBOX_MSGS
          MaxDelivered,   \* 10000: size at which delivered_mids is trimmed
          TrimIndex,      \* 2000: how many records a trim forgets
          AssemblyTTL,    \* ASSEMBLY_TTL
          MailboxTTL,     \* MAILBOX_TTL
          EvictInterval,  \* EVICT_INTERVAL
          MaxSends,       \* bound of the number of messages sent
          MaxNow,         \* bound of the clock
          MaxRestarts     \* bound of the number of restarts

ASSUME SizesAssumption ==
  /\ MaxChunks \in Nat \ {0}
  /\ MaxIncomplete \in Nat \ {0}
  /\ MaxMailbox \in Nat \ {0}
  /\ MaxDelivered \in Nat
  /\ TrimIndex \in 0 .. MaxDelivered

ASSUME TimesAssumption ==
  /\ AssemblyTTL \in Nat
  /\ MailboxTTL \in Nat \ {0}
  /\ EvictInterval \in Nat \ {0}
  /\ MaxSends \in Nat
  /\ MaxNow \in Nat
  /\ MaxRestarts \in Nat

VARIABLES now,        \* time.time()
          lastEvict,  \* self._last_evict
          asm,        \* mid -> unfinished assembly: self.msg_chunks, msg_meta
          delivered,  \* <<from, mid>> -> time: self.delivered_mids
          mailbox,    \* user -> sequence of messages: self.mailbox
          restarts    \* how often the relay has restarted

\* History: what the clients sent and what became of it.
VARIABLES sent,       \* key -> addressee and number of chunks
          queued,     \* keys that were put in a mailbox
          acked,      \* keys that were acknowledged with OK:delivered
          handed,     \* keys that a poll handed out
          forgot      \* keys whose record in delivered_mids is gone

relayVars == <<lastEvict, asm, delivered, mailbox>>
history == <<queued, acked, handed, forgot>>
vars == <<now, relayVars, restarts, sent, history>>

Time == 0 .. MaxNow
Keys == Users \X Mids
Seqs == 0 .. MaxChunks - 1

\* What the sender with key k put in chunk seq of its message.
Piece(k, seq) == <<k, seq>>
Pieces == Keys \X Seqs

\* A whole message: the pieces of chunks 0 .. total-1.
Whole(k, total) == [seq \in 0 .. total - 1 |-> Piece(k, seq)]
Datas == UNION {[0 .. total - 1 -> Pieces] : total \in 1 .. MaxChunks}

Sends == [to : Users, total : 1 .. MaxChunks + 1]
Assemblies == [dest : Users, total : 1 .. MaxChunks, from : Users, ts : Time,
               got : UNION {[S -> Pieces] : S \in SUBSET Seqs}]
Entries == [from : Users, id : Mids, ts : Time, data : Datas]

KeyOf(e) == <<e.from, e.id>>

\* The dictionary f with f[x] set to v, and without the keys in S.
Put(f, x, v) == [y \in DOMAIN f \cup {x} |-> IF y = x THEN v ELSE f[y]]
Without(f, S) == Restrict(f, DOMAIN f \ S)

\* The last n elements of a sequence, or all of it.
Newest(s, n) == IF Len(s) > n THEN SubSeq(s, Len(s) - n + 1, Len(s)) ELSE s

TypeOK ==
  /\ now \in Time
  /\ lastEvict \in Time
  /\ lastEvict <= now
  /\ DOMAIN asm \subseteq Mids
  /\ \A mid \in DOMAIN asm : asm[mid] \in Assemblies
  /\ DOMAIN delivered \subseteq Keys
  /\ \A k \in DOMAIN delivered : delivered[k] \in Time
  /\ mailbox \in [Users -> Seq(Entries)]
  /\ restarts \in 0 .. MaxRestarts
  /\ DOMAIN sent \subseteq Keys
  /\ \A k \in DOMAIN sent : sent[k] \in Sends
  /\ queued \subseteq Keys
  /\ acked \subseteq Keys
  /\ handed \subseteq Keys
  /\ forgot \subseteq Keys

Init ==
  /\ now = 0
  /\ lastEvict = 0
  /\ asm = [mid \in {} |-> {}]
  /\ delivered = [k \in {} |-> 0]
  /\ mailbox = [u \in Users |-> <<>>]
  /\ restarts = 0
  /\ sent = [k \in {} |-> {}]
  /\ queued = {} /\ acked = {} /\ handed = {} /\ forgot = {}

------------------------------------------------------------------------------
(* _evict *)

SweepDue == now - lastEvict >= EvictInterval

\* Mutant: the time of the sweep is noted before it is known to be due.
SweptLast_NotedEarly == now

SweptLast == IF SweepDue THEN now ELSE lastEvict

SweptAsm ==
  IF SweepDue
  THEN Without(asm, {mid \in DOMAIN asm : now - asm[mid].ts > AssemblyTTL})
  ELSE asm

Stale(box) == {i \in 1 .. Len(box) : now - box[i].ts >= MailboxTTL}

\* A mailbox is in the order of its ts, so the messages that the
\* comprehension drops are its first ones.
SweptBox(u) ==
  IF SweepDue
  THEN LET box == mailbox[u]
       IN  Newest(SubSeq(box, Cardinality(Stale(box)) + 1, Len(box)), MaxMailbox)
  ELSE mailbox[u]

Swept == [u \in Users |-> SweptBox(u)]

------------------------------------------------------------------------------
(* _remember_delivered *)

\* The entry with index TrimIndex of the sorted times of record.
Cutoff(record) ==
  CHOOSE v \in {record[k] : k \in DOMAIN record} :
    /\ Cardinality({k \in DOMAIN record : record[k] < v}) <= TrimIndex
    /\ Cardinality({k \in DOMAIN record : record[k] <= v}) > TrimIndex

Trimmed(record) ==
  IF Cardinality(DOMAIN record) > MaxDelivered
  THEN Restrict(record, {k \in DOMAIN record : record[k] >= Cutoff(record)})
  ELSE record

\* Mutant: the id of the delivered message is not remembered.
Remember_Nothing(k) == UNCHANGED <<delivered, forgot>>

Remember(k) ==
  /\ delivered' = Trimmed(Put(delivered, k, now))
  /\ forgot' = forgot \cup ((DOMAIN delivered \cup {k}) \ DOMAIN delivered')

------------------------------------------------------------------------------
(* _assemble *)

\* A new assembly opens: if there are too many, an oldest one makes room.
Oldest(a) == {mid \in DOMAIN a : \A other \in DOMAIN a : a[mid].ts <= a[other].ts}
Victims(a, mid) ==
  IF mid \in DOMAIN a \/ Cardinality(DOMAIN a) < MaxIncomplete
  THEN {{}}
  ELSE {{oldest} : oldest \in Oldest(a)}

\* The assembly of mid in a, opened for message k if there is none.
Opened(a, k) ==
  IF k[2] \in DOMAIN a
  THEN a[k[2]]
  ELSE [dest |-> sent[k].to, total |-> sent[k].total, from |-> k[1], ts |-> now,
        got |-> [seq \in {} |-> Piece(k, 0)]]

\* Mutant: the sender is left out of the comparison.
Conflict_AnySender(a, k) ==
  /\ k[2] \in DOMAIN a
  /\ <<a[k[2]].dest, a[k[2]].total>> # <<sent[k].to, sent[k].total>>

\* It belongs to another sender, addressee or length than message k.
Conflict(a, k) ==
  /\ k[2] \in DOMAIN a
  /\ <<a[k[2]].dest, a[k[2]].total, a[k[2]].from>> # <<sent[k].to, sent[k].total, k[1]>>

\* The chunks it has once chunk seq of message k is in.
WithChunk(a, k, seq) == Put(Opened(a, k).got, seq, Piece(k, seq))

\* Mutant: a full mailbox turns the new message away.
Enqueue_DropNewest(box, e) == IF Len(box) < MaxMailbox THEN Append(box, e) ELSE box

Enqueue(box, e) == Newest(Append(box, e), MaxMailbox)

\* The sweep that handle_query runs before every handler, and nothing else.
SweepOnly == lastEvict' = SweptLast /\ asm' = SweptAsm /\ mailbox' = Swept

\* ERR:bad_chunk, a message of too many chunks; nothing but the sweep.
RefuseChunk(k, seq) ==
  /\ sent[k].total > MaxChunks
  /\ SweepOnly
  /\ UNCHANGED <<now, restarts, sent, delivered, history>>

\* Mutant: the dedupe record is looked up by the id alone.
AckDuplicate_AnySender(k, seq) ==
  /\ sent[k].total <= MaxChunks
  /\ \E from \in Users : <<from, k[2]>> \in DOMAIN delivered
  /\ SweepOnly
  /\ acked' = acked \cup {k}
  /\ UNCHANGED <<now, restarts, sent, delivered, queued, handed, forgot>>

\* OK:delivered again, for a message that is already in.
AckDuplicate(k, seq) ==
  /\ sent[k].total <= MaxChunks
  /\ k \in DOMAIN delivered
  /\ SweepOnly
  /\ acked' = acked \cup {k}
  /\ UNCHANGED <<now, restarts, sent, delivered, queued, handed, forgot>>

\* ERR:mid_conflict.
RefuseConflict(k, seq) ==
  /\ sent[k].total <= MaxChunks
  /\ k \notin DOMAIN delivered
  /\ Conflict(SweptAsm, k)
  /\ SweepOnly
  /\ UNCHANGED <<now, restarts, sent, delivered, history>>

\* OK:chunk, the message is not complete yet.
StoreChunk(k, seq) ==
  /\ sent[k].total <= MaxChunks
  /\ k \notin DOMAIN delivered
  /\ ~Conflict(SweptAsm, k)
  /\ DOMAIN WithChunk(SweptAsm, k, seq) # 0 .. Opened(SweptAsm, k).total - 1
  /\ \E victim \in Victims(SweptAsm, k[2]) :
       asm' = Put(Without(SweptAsm, victim), k[2],
                  [Opened(SweptAsm, k) EXCEPT !.got = WithChunk(SweptAsm, k, seq)])
  /\ lastEvict' = SweptLast /\ mailbox' = Swept
  /\ UNCHANGED <<now, restarts, sent, delivered, history>>

\* The message k as it goes to the mailbox when chunk seq completes it.
Entry(k, seq) ==
  [from |-> Opened(SweptAsm, k).from, id |-> k[2], ts |-> now,
   data |-> WithChunk(SweptAsm, k, seq)]

\* The assemblies after k is delivered.
\* Mutant: that of k stays.
Closed_Kept(k, victim) == Put(Without(SweptAsm, victim), k[2], Opened(SweptAsm, k))

Closed(k, victim) == Without(SweptAsm, victim \cup {k[2]})

\* OK:delivered, the last missing chunk: the message goes to its mailbox.
CompleteMessage(k, seq) ==
  /\ sent[k].total <= MaxChunks
  /\ k \notin DOMAIN delivered
  /\ ~Conflict(SweptAsm, k)
  /\ DOMAIN WithChunk(SweptAsm, k, seq) = 0 .. Opened(SweptAsm, k).total - 1
  /\ \E victim \in Victims(SweptAsm, k[2]) : asm' = Closed(k, victim)
  /\ LET dest == Opened(SweptAsm, k).dest
     IN  mailbox' = [Swept EXCEPT ![dest] = Enqueue(Swept[dest], Entry(k, seq))]
  /\ Remember(k)
  /\ lastEvict' = SweptLast
  /\ queued' = queued \cup {k}
  /\ acked' = acked \cup {k}
  /\ UNCHANGED <<now, restarts, sent, handed>>

\* _h_send: chunk seq of message k reaches the relay.
HandleSend(k, seq) ==
  \/ RefuseChunk(k, seq)
  \/ AckDuplicate(k, seq)
  \/ RefuseConflict(k, seq)
  \/ StoreChunk(k, seq)
  \/ CompleteMessage(k, seq)

------------------------------------------------------------------------------
(* _h_poll, once the poll is authorised (PollAuth) *)

PollEmpty(u) ==
  /\ Swept[u] = <<>>
  /\ SweepOnly
  /\ UNCHANGED <<now, restarts, sent, delivered, history>>

\* Mutant: the message stays until some later answer confirms it.
PollMessage_Kept(u) ==
  /\ Swept[u] # <<>>
  /\ handed' = handed \cup {KeyOf(Head(Swept[u]))}
  /\ lastEvict' = SweptLast /\ asm' = SweptAsm /\ mailbox' = Swept
  /\ UNCHANGED <<now, restarts, sent, delivered, queued, acked, forgot>>

PollMessage(u) ==
  /\ Swept[u] # <<>>
  /\ mailbox' = [Swept EXCEPT ![u] = Tail(Swept[u])]
  /\ handed' = handed \cup {KeyOf(Head(Swept[u]))}
  /\ lastEvict' = SweptLast /\ asm' = SweptAsm
  /\ UNCHANGED <<now, restarts, sent, delivered, queued, acked, forgot>>

\* A query of any other kind sweeps too. If it completes a message to a group, which
\* is recorded in delivered_mids as well, older records may have to go.
OtherQuery ==
  /\ SweepOnly
  /\ \E cut \in 0 .. now :
       delivered' = Restrict(delivered, {k \in DOMAIN delivered : delivered[k] >= cut})
  /\ forgot' = forgot \cup (DOMAIN delivered \ DOMAIN delivered')
  /\ UNCHANGED <<now, restarts, sent, queued, acked, handed>>

------------------------------------------------------------------------------
(* The environment *)

\* A client cuts a message into chunks under an id it has not used before.
\* Two clients may draw the same id.
NewMessage(k, to, total) ==
  /\ k \notin DOMAIN sent
  /\ Cardinality(DOMAIN sent) < MaxSends
  /\ sent' = Put(sent, k, [to |-> to, total |-> total])
  /\ UNCHANGED <<now, relayVars, restarts, history>>

Tick ==
  /\ now < MaxNow
  /\ now' = now + 1
  /\ UNCHANGED <<relayVars, restarts, sent, history>>

\* The process ends and starts again: all of its state is in memory.
Restart ==
  /\ restarts < MaxRestarts
  /\ restarts' = restarts + 1
  /\ lastEvict' = now
  /\ asm' = [mid \in {} |-> {}]
  /\ delivered' = [k \in {} |-> 0]
  /\ mailbox' = [u \in Users |-> <<>>]
  /\ forgot' = forgot \cup DOMAIN delivered
  /\ UNCHANGED <<now, sent, queued, acked, handed>>

Next ==
  \/ \E k \in Keys, to \in Users, total \in 1 .. MaxChunks + 1 : NewMessage(k, to, total)
  \/ \E k \in DOMAIN sent : \E seq \in 0 .. sent[k].total - 1 : HandleSend(k, seq)
  \/ \E u \in Users : PollEmpty(u) \/ PollMessage(u)
  \/ OtherQuery
  \/ Tick
  \/ Restart

Spec == Init /\ [][Next]_vars

------------------------------------------------------------------------------
(* Correctness *)

\* A message whose record has not been forgotten (trimmed from delivered_mids,
\* or lost with a restart) is in the mailboxes at most once, and not at all
\* once a poll has handed it out: no retry, duplicate or late chunk brings it
\* back (_assemble: "идемпотентно по mid").
AtMostOnce ==
  \A u, v \in Users : \A i \in DOMAIN mailbox[u], j \in DOMAIN mailbox[v] :
    KeyOf(mailbox[u][i]) \notin forgot =>
      /\ KeyOf(mailbox[u][i]) \notin handed
      /\ KeyOf(mailbox[u][i]) = KeyOf(mailbox[v][j]) => u = v /\ i = j

\* Every message in a mailbox is in its addressee's, whole, and made of the
\* chunks of one message only, even when two senders drew the same id, chunks
\* were lost to a sweep or came in any order (_assemble never mixes senders).
Intact ==
  \A u \in Users : \A i \in DOMAIN mailbox[u] :
    LET e == mailbox[u][i]
    IN  /\ KeyOf(e) \in DOMAIN sent
        /\ sent[KeyOf(e)].to = u
        /\ e.data = Whole(KeyOf(e), sent[KeyOf(e)].total)

\* The relay acknowledges with OK:delivered only what it did put in a mailbox,
\* also when the acknowledgement is a repeated one (_assemble, delivered_mids).
AckIsHonest == acked \subseteq queued

\* A message the relay remembers as delivered has no unfinished assembly: a
\* late chunk cannot open one that nobody will ever complete.
NoGhostAssembly ==
  \A mid \in DOMAIN asm : <<asm[mid].from, mid>> \notin DOMAIN delivered

\* A poll never hands out a message older than its TTL plus the time between
\* two sweeps, although the poll itself never looks at the age.
ServedFresh ==
  [][\A u \in Users :
       PollMessage(u) => now - Head(Swept[u]).ts < MailboxTTL + EvictInterval]_vars

\* What AtMostOnceMailbox promises is what this relay does.
Promise ==
  INSTANCE AtMostOnceMailbox WITH
    box <- [u \in Users |-> [i \in DOMAIN mailbox[u] |-> KeyOf(mailbox[u][i])]],
    settled <- DOMAIN delivered

ImplementsPromise == Promise!Spec
==============================================================================
