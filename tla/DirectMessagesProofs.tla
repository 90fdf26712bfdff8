------------------------- MODULE DirectMessagesProofs -------------------------
(***************************************************************************)
(* Theorems about DirectMessages, for every value of its constants.        *)
(***************************************************************************)
EXTENDS DirectMessages, RelayMailboxProofs

------------------------------------------------------------------------------
(* Inductive invariants *)

\* The client is one of the senders of RelayMailbox: what it puts on the wire
\* are chunks of messages it has sent, and it waits for the last one of them.
NetInv ==
  /\ \A r \in net : /\ r.key \in DOMAIN sent
                    /\ r.key[1] \in Senders
                    /\ sent[r.key].total \in Nat
                    /\ r.seq \in 0 .. sent[r.key].total - 1
  /\ client \in [Senders -> net \cup {Idle}]
  /\ \A u \in Senders : Waiting(u) => client[u].key[1] = u
  /\ answer \in [Senders -> {NoAnswer, "OK", "ERR"}]

\* Chunk s of message k is at the relay, or in the mailbox with the whole
\* message, or was thrown away.
Held(k, s) ==
  \/ k \in queued \cup dropped
  \/ /\ k[2] \in DOMAIN asm
     /\ asm[k[2]].from = k[1]
     /\ s \in DOMAIN asm[k[2]].got

\* Chunk s of the message that u is sending has been answered with OK.
Confirmed(u, s) ==
  \/ s < client[u].seq
  \/ s = client[u].seq /\ answer[u] = "OK" /\ answer[u] # NoAnswer

ConfirmedHeld(u) ==
  Waiting(u) => \A s \in 0 .. sent[client[u].key].total - 1 :
                  Confirmed(u, s) => Held(client[u].key, s)

\* An assembly lacks a chunk.
Unfinished ==
  \A mid \in DOMAIN asm : /\ DOMAIN asm[mid].got \subseteq 0 .. asm[mid].total - 1
                          /\ DOMAIN asm[mid].got # 0 .. asm[mid].total - 1

\* With NetInv, AckInv and IntactInv, the inductive invariant behind
\* OkUnlessDropped: what was answered with OK is held, and an assembly is never
\* complete.
OkInv ==
  /\ \A u \in Senders : ConfirmedHeld(u)
  /\ Unfinished
  /\ DOMAIN outcome \subseteq DOMAIN sent
  /\ OkUnlessDropped

\* With OkInv and IntactInv, the inductive invariant behind InSendingOrder.
OrderInv ==
  /\ \A p \in after : p[1] \in queued \cup dropped /\ p[2] \in DOMAIN sent
  /\ queued \subseteq DOMAIN delivered \cup forgot
  /\ InSendingOrder

------------------------------------------------------------------------------
(* The client is a sender of RelayMailbox *)

\* Whatever a client does, it waits for a chunk of a message that it has sent.
LEMMA NetStep ==
  NetInv /\ [DMNext]_dmVars => NetInv'
<1> SUFFICES ASSUME NetInv, [DMNext]_dmVars PROVE NetInv'
  OBVIOUS
<1> USE DEF NetInv
<1>1. ASSUME NEW u \in Senders, NEW k, NEW seq, NEW n, Query(u, k, seq, n),
             k \in DOMAIN sent', k[1] = u,
             sent'[k].total \in Nat, seq \in 0 .. sent'[k].total - 1,
             \A r \in net : r.key \in DOMAIN sent' /\ sent'[r.key] = sent[r.key]
      PROVE  NetInv'
  <2> DEFINE r == [key |-> k, seq |-> seq, try |-> n]
  <2>1. r.key = k /\ r.seq = seq
    OBVIOUS
  <2>2. /\ client' = [client EXCEPT ![u] = r] /\ net' = net \cup {r}
        /\ answer' = [answer EXCEPT ![u] = NoAnswer]
    BY <1>1 DEF Query
  <2> HIDE DEF r
  <2>3. client' \in [Senders -> net' \cup {Idle}] /\ answer' \in [Senders -> {NoAnswer, "OK", "ERR"}]
    BY <2>2
  <2>4. ASSUME NEW v \in Senders, client'[v] # Idle PROVE client'[v].key[1] = v
    BY <1>1, <2>1, <2>2, <2>4 DEF Waiting
  <2>5. ASSUME NEW q \in net'
        PROVE  /\ q.key \in DOMAIN sent' /\ q.key[1] \in Senders
               /\ sent'[q.key].total \in Nat
               /\ q.seq \in 0 .. sent'[q.key].total - 1
    BY <1>1, <2>1, <2>2
  <2>6. QED
    BY <2>3, <2>4, <2>5 DEF Waiting
<1>2. ASSUME NEW u \in Senders, NEW ok, Return(u, ok), UNCHANGED sent PROVE NetInv'
  BY <1>2 DEF Return, Waiting
<1>3. ASSUME NEW u \in Senders, Waiting(u)
      PROVE  /\ client[u] \in net /\ client[u].key[1] = u
             /\ client[u].key \in DOMAIN sent
             /\ sent[client[u].key].total \in Nat
             /\ client[u].seq \in 0 .. sent[client[u].key].total - 1
  BY <1>3 DEF Waiting
<1>4. ASSUME NEW u \in Senders, NEW mid \in Mids, NEW to \in Users,
             NEW total \in 1 .. MaxChunks + 1, Send(u, mid, to, total)
      PROVE  NetInv'
  <2> DEFINE k == <<u, mid>>
  <2>1. /\ k \notin DOMAIN sent /\ sent' = Put(sent, k, [to |-> to, total |-> total])
        /\ Query(u, k, 0, 0) /\ k[1] = u
    BY <1>4 DEF Send, NewMessage
  <2> HIDE DEF k
  <2>2. /\ DOMAIN sent' = DOMAIN sent \cup {k} /\ sent'[k].total = total
        /\ \A l \in DOMAIN sent : sent'[l] = sent[l]
    BY <2>1 DEF Put
  <2>3. total \in Nat /\ 0 \in 0 .. total - 1
    BY SizesAssumption
  <2>4. QED
    BY <1>1, <2>1, <2>2, <2>3
<1>5. ASSUME NEW u \in Senders, Receive(u) PROVE NetInv'
  <2>1. Waiting(u) /\ UNCHANGED sent
    BY <1>5 DEF Receive, vars
  <2>2. CASE Query(u, client[u].key, client[u].seq + 1, 0) /\ client[u].seq + 1 < sent[client[u].key].total
    <3>1. client[u].seq + 1 \in 0 .. sent[client[u].key].total - 1
      BY <1>3, <2>1, <2>2
    <3>2. QED
      BY <1>1, <1>3, <2>1, <2>2, <3>1
  <2>3. CASE Return(u, answer[u] = "OK")
    BY <1>2, <2>1, <2>3
  <2>4. QED
    BY <1>5, <2>2, <2>3 DEF Receive
<1>6. ASSUME NEW u \in Senders, Timeout(u) PROVE NetInv'
  <2>1. Waiting(u) /\ UNCHANGED sent
    BY <1>6 DEF Timeout, vars
  <2>2. CASE Query(u, client[u].key, client[u].seq, client[u].try + 1)
    BY <1>1, <1>3, <2>1, <2>2
  <2>3. CASE Return(u, FALSE)
    BY <1>2, <2>1, <2>3
  <2>4. QED
    BY <1>6, <2>2, <2>3 DEF Timeout
<1>7. ASSUME UNCHANGED <<client, net, answer, sent>> PROVE NetInv'
  BY <1>7 DEF Waiting
<1>8. ASSUME NEW u \in Users, Poll(u) PROVE NetInv'
  BY <1>7, <1>8 DEF Poll, PollMessage, PollEmpty
<1>9. ASSUME NEW r \in net, Serve(r) PROVE NetInv'
  <2>1. UNCHANGED <<client, net, sent>>
    BY <1>9 DEF Serve, RefuseChunk, RefuseConflict, AckDuplicate, StoreChunk, CompleteMessage
  <2>2. Answer(r, "OK") \/ Answer(r, "ERR")
    BY <1>9 DEF Serve
  <2>3. answer' \in [Senders -> {NoAnswer, "OK", "ERR"}]
    BY <2>2 DEF Answer
  <2>4. QED
    BY <2>1, <2>3 DEF Waiting
<1>10. ASSUME RelayStep PROVE NetInv'
  BY <1>7, <1>10 DEF RelayStep, OtherQuery, Tick, Restart
<1>11. CASE UNCHANGED dmVars
  BY <1>7, <1>11 DEF dmVars, vars, clientVars
<1>12. QED
  BY <1>4, <1>5, <1>6, <1>8, <1>9, <1>10, <1>11 DEF DMNext

\* Every step of client, network and relay is a step that RelayMailbox allows.
LEMMA StepIsRelayStep ==
  NetInv /\ [DMNext]_dmVars => [Next]_vars
<1> SUFFICES ASSUME NetInv, [DMNext]_dmVars PROVE [Next]_vars
  OBVIOUS
<1>1. ASSUME NEW u \in Senders, NEW mid \in Mids, NEW to \in Users,
             NEW total \in 1 .. MaxChunks + 1, Send(u, mid, to, total)
      PROVE  Next
  <2>1. <<u, mid>> \in Keys /\ NewMessage(<<u, mid>>, to, total)
    BY <1>1, ClientsAssumption DEF Send, Keys
  <2>2. QED
    BY <2>1 DEF Next
<1>2. ASSUME NEW u \in Senders, Receive(u) \/ Timeout(u) PROVE UNCHANGED vars
  BY <1>2 DEF Receive, Timeout
<1>3. ASSUME NEW u \in Users, Poll(u) PROVE Next
  BY <1>3 DEF Poll, Next
<1>4. ASSUME NEW r \in net, Serve(r) PROVE Next
  <2>1. r.key \in DOMAIN sent /\ r.seq \in 0 .. sent[r.key].total - 1
    BY DEF NetInv
  <2>2. HandleSend(r.key, r.seq)
    BY <1>4 DEF Serve, HandleSend
  <2>3. QED
    BY <2>1, <2>2 DEF Next
<1>5. ASSUME RelayStep PROVE Next
  BY <1>5 DEF RelayStep, Next
<1>6. CASE UNCHANGED dmVars
  BY <1>6 DEF dmVars
<1>7. QED
  BY <1>1, <1>2, <1>3, <1>4, <1>5, <1>6 DEF DMNext

\* The invariant of the client and the network.
LEMMA NetInductive == DMSpec => []NetInv
<1>1. DMInit => NetInv
  BY DEF DMInit, NetInv, Waiting
<1>2. QED
  BY <1>1, NetStep, PTL DEF DMSpec

\* The relay under real clients and a real network is the relay of
\* RelayMailbox: every theorem about Spec holds of DMSpec too.
THEOREM ClientsAreSenders == DMSpec => Spec
<1>1. DMInit => Init
  BY DEF DMInit
<1>2. QED
  BY <1>1, NetInductive, StepIsRelayStep, PTL DEF DMSpec, Spec

------------------------------------------------------------------------------
(* "ok" is true *)

\* Types, and what the theorems of RelayMailbox say of each state.
RelayInv == AckInv /\ IntactInv /\ NetInv

\* A key is the pair of its sender and its id.
LEMMA KeyIsPair ==
  ASSUME NEW k \in Keys
  PROVE  k = <<k[1], k[2]>> /\ k[1] \in Users /\ k[2] \in Mids
BY DEF Keys

\* What is held stays held, but for what the step throws away.
LEMMA StaysHeld ==
  ASSUME NEW k \in Keys, NEW s, Held(k, s),
         queued \subseteq queued', dropped' = dropped \cup Thrown
  PROVE  Held(k, s)'
<1>1. CASE k \in queued \cup dropped
  BY <1>1 DEF Held
<1>2. CASE k[2] \in DOMAIN asm /\ asm[k[2]].from = k[1] /\ s \in DOMAIN asm[k[2]].got
  <2> DEFINE mid == k[2]
  <2>1. k = <<asm[mid].from, mid>>
    BY <1>2, KeyIsPair
  <2>2. CASE /\ mid \in DOMAIN asm' /\ asm'[mid].from = asm[mid].from
             /\ DOMAIN asm[mid].got \subseteq DOMAIN asm'[mid].got
    BY <1>2, <2>2 DEF Held
  <2>3. CASE ~(/\ mid \in DOMAIN asm' /\ asm'[mid].from = asm[mid].from
               /\ DOMAIN asm[mid].got \subseteq DOMAIN asm'[mid].got)
    <3>1. k \in Thrown \cup queued'
      BY <1>2, <2>1, <2>3 DEF Thrown
    <3>2. QED
      BY <3>1 DEF Held
  <2>4. QED
    BY <2>2, <2>3
<1>3. QED
  BY <1>1, <1>2 DEF Held

\* A step that only takes assemblies away.
LEMMA FewerUnfinished ==
  ASSUME TypeOK, Unfinished,
         \A mid \in DOMAIN asm' : mid \in DOMAIN SweptAsm /\ asm'[mid] = SweptAsm[mid]
  PROVE  Unfinished'
<1>1. \A mid \in DOMAIN asm' : mid \in DOMAIN asm /\ asm'[mid] = asm[mid]
  BY SweptTypes
<1>2. QED
  BY <1>1 DEF Unfinished

\* The assembly of a message after StoreChunk: what it had, and the new chunk.
LEMMA StoredChunk ==
  ASSUME TypeOK, NEW k \in DOMAIN sent, NEW seq \in 0 .. sent[k].total - 1,
         StoreChunk(k, seq)
  PROVE  /\ k[2] \in DOMAIN asm'
         /\ asm'[k[2]].from = k[1]
         /\ asm'[k[2]].total = sent[k].total
         /\ asm'[k[2]].got = WithChunk(SweptAsm, k, seq)
         /\ \A mid \in DOMAIN asm' \ {k[2]} : mid \in DOMAIN asm /\ asm'[mid] = asm[mid]
<1> DEFINE o == Opened(SweptAsm, k)
           with == [o EXCEPT !.got = WithChunk(SweptAsm, k, seq)]
<1>1. o \in Assemblies /\ o.from = k[1] /\ o.total = sent[k].total
  BY OpenedTypes DEF StoreChunk
<1>2. PICK victim \in Victims(SweptAsm, k[2]) :
        asm' = Put(Without(SweptAsm, victim), k[2], with)
  BY DEF StoreChunk
<1>3. with.from = o.from /\ with.total = o.total /\ with.got = WithChunk(SweptAsm, k, seq)
  BY <1>1 DEF Assemblies
<1> HIDE DEF with, o
<1>4. /\ k[2] \in DOMAIN asm' /\ asm'[k[2]] = with
      /\ \A mid \in DOMAIN asm' \ {k[2]} : mid \in DOMAIN SweptAsm /\ asm'[mid] = SweptAsm[mid]
  BY <1>2 DEF Put, Without, Restrict
<1>5. QED
  BY <1>1, <1>3, <1>4, SweptTypes

\* StoreChunk is the step that does not complete a message.
LEMMA StoreUnfinished ==
  ASSUME TypeOK, Unfinished, NEW k \in DOMAIN sent, NEW seq \in 0 .. sent[k].total - 1,
         StoreChunk(k, seq)
  PROVE  Unfinished'
<1> DEFINE o == Opened(SweptAsm, k)
           w == WithChunk(SweptAsm, k, seq)
<1>1. /\ o.total = sent[k].total
      /\ DOMAIN w # 0 .. o.total - 1
  BY OpenedTypes DEF StoreChunk
<1>2. DOMAIN o.got \subseteq 0 .. o.total - 1
  <2>1. CASE k[2] \in DOMAIN SweptAsm
    BY <2>1, SweptTypes DEF Opened, Unfinished
  <2>2. CASE k[2] \notin DOMAIN SweptAsm
    BY <2>2 DEF Opened
  <2>3. QED
    BY <2>1, <2>2
<1>3. DOMAIN w = DOMAIN o.got \cup {seq}
  BY DEF WithChunk, Put
<1> HIDE DEF o, w
<1>4. DOMAIN w \subseteq 0 .. o.total - 1
  BY <1>1, <1>2, <1>3
<1>5. ASSUME NEW mid \in DOMAIN asm'
      PROVE  /\ DOMAIN asm'[mid].got \subseteq 0 .. asm'[mid].total - 1
             /\ DOMAIN asm'[mid].got # 0 .. asm'[mid].total - 1
  <2>1. CASE mid = k[2]
    BY <1>1, <1>4, <2>1, StoredChunk DEF w
  <2>2. CASE mid # k[2]
    BY <2>2, StoredChunk DEF Unfinished
  <2>3. QED
    BY <2>1, <2>2
<1>6. QED
  BY <1>5 DEF Unfinished

\* The relay's steps leave no assembly complete, and no message that was queued
\* becomes one that was not.
LEMMA RelayUnfinished ==
  ASSUME TypeOK, Unfinished, [Next]_vars
  PROVE  Unfinished' /\ queued \subseteq queued'
<1>1. ASSUME NEW k \in DOMAIN sent, NEW seq \in 0 .. sent[k].total - 1, StoreChunk(k, seq)
      PROVE  Unfinished' /\ queued \subseteq queued'
  BY <1>1, StoreUnfinished DEF StoreChunk, history
<1>2. ASSUME NEW k \in DOMAIN sent, NEW seq \in 0 .. sent[k].total - 1, CompleteMessage(k, seq)
      PROVE  Unfinished' /\ queued \subseteq queued'
  BY <1>2, FewerUnfinished DEF CompleteMessage, Closed, Without, Restrict
<1>3. ASSUME SweepOnly PROVE Unfinished'
  BY <1>3, FewerUnfinished DEF SweepOnly
<1>4. ASSUME NEW k \in DOMAIN sent, NEW seq \in 0 .. sent[k].total - 1,
             RefuseChunk(k, seq) \/ AckDuplicate(k, seq) \/ RefuseConflict(k, seq)
      PROVE  Unfinished' /\ queued \subseteq queued'
  BY <1>3, <1>4 DEF RefuseChunk, AckDuplicate, RefuseConflict, history
<1>5. ASSUME NEW u \in Users, PollEmpty(u) \/ PollMessage(u)
      PROVE  Unfinished' /\ queued \subseteq queued'
  BY <1>3, <1>5, FewerUnfinished DEF PollEmpty, PollMessage, history
<1>6. CASE OtherQuery
  BY <1>3, <1>6, ForgetsSome
<1>7. CASE Tick \/ Restart \/ UNCHANGED vars
  BY <1>7 DEF Tick, Restart, vars, relayVars, history, Unfinished
<1>8. ASSUME NEW k \in Keys, NEW to \in Users, NEW total \in 1 .. MaxChunks + 1,
             NewMessage(k, to, total)
      PROVE  Unfinished' /\ queued \subseteq queued'
  BY <1>8 DEF NewMessage, relayVars, history, Unfinished
<1>9. QED
  BY <1>1, <1>2, <1>4, <1>5, <1>6, <1>7, <1>8 DEF Next, HandleSend

\* An answer OK is given for a chunk that is held after it.
LEMMA OkIsHeld ==
  ASSUME RelayInv, NEW r \in net, dropped \subseteq dropped',
         \/ AckDuplicate(r.key, r.seq)
         \/ StoreChunk(r.key, r.seq)
         \/ CompleteMessage(r.key, r.seq)
  PROVE  Held(r.key, r.seq)'
<1>1. TypeOK /\ r.key \in DOMAIN sent /\ r.seq \in 0 .. sent[r.key].total - 1 /\ r.key \in Keys
  BY DEF RelayInv, AckInv, NetInv, TypeOK
<1>2. CASE AckDuplicate(r.key, r.seq)
  BY <1>2 DEF AckDuplicate, RelayInv, AckInv, Held
<1>3. CASE StoreChunk(r.key, r.seq)
  <2>1. r.seq \in DOMAIN WithChunk(SweptAsm, r.key, r.seq)
    BY DEF WithChunk, Put
  <2>2. QED
    BY <1>1, <1>3, <2>1, StoredChunk DEF Held
<1>4. CASE CompleteMessage(r.key, r.seq)
  BY <1>4 DEF CompleteMessage, Held
<1>5. QED
  BY <1>2, <1>3, <1>4

\* A message of which every chunk was answered with OK is in, or was thrown away.
LEMMA AllConfirmed ==
  ASSUME RelayInv, OkInv, NEW u \in Senders, Waiting(u), answer[u] # NoAnswer,
         answer[u] = "OK", ~(client[u].seq + 1 < sent[client[u].key].total)
  PROVE  client[u].key \in queued \cup dropped
<1> DEFINE k == client[u].key
           n == sent[k].total
<1>1. /\ k \in DOMAIN sent /\ k \in Keys /\ n \in Nat
      /\ client[u].seq \in 0 .. n - 1
  BY DEF RelayInv, NetInv, AckInv, TypeOK, Waiting
<1>2. client[u].seq = n - 1
  BY <1>1
<1>3. \A s \in 0 .. n - 1 : Held(k, s)
  <2> SUFFICES ASSUME NEW s \in 0 .. n - 1 PROVE Held(k, s)
    OBVIOUS
  <2>1. s < client[u].seq \/ s = client[u].seq
    BY <1>1, <1>2
  <2>2. Confirmed(u, s)
    BY <2>1 DEF Confirmed
  <2>3. QED
    BY <2>2 DEF OkInv, ConfirmedHeld
<1> SUFFICES ASSUME k \notin queued \cup dropped PROVE FALSE
  OBVIOUS
<1>4. 0 \in 0 .. n - 1
  BY <1>1
<1>5. k[2] \in DOMAIN asm /\ asm[k[2]].from = k[1]
  BY <1>3, <1>4 DEF Held
<1>6. 0 .. n - 1 \subseteq DOMAIN asm[k[2]].got
  BY <1>3 DEF Held
<1>7. asm[k[2]].total = n
  <2>1. k = <<asm[k[2]].from, k[2]>>
    BY <1>1, <1>5, KeyIsPair
  <2>2. QED
    BY <1>5, <2>1 DEF RelayInv, IntactInv, AssemblyOfOne
<1>8. QED
  BY <1>5, <1>6, <1>7 DEF OkInv, Unfinished

\* What is confirmed for a client that does nothing stays held.
LEMMA KeptConfirmed ==
  ASSUME RelayInv, NEW v \in Senders, ConfirmedHeld(v),
         client'[v] = client[v], answer'[v] = answer[v] \/ answer'[v] # "OK",
         \A k \in DOMAIN sent : sent'[k] = sent[k],
         \A k \in Keys : \A s : Held(k, s) => Held(k, s)'
  PROVE  ConfirmedHeld(v)'
<1> SUFFICES ASSUME Waiting(v)', NEW s, s \in (0 .. sent[client[v].key].total - 1)',
                    Confirmed(v, s)'
             PROVE  Held(client[v].key, s)'
  BY DEF ConfirmedHeld
<1>1. Waiting(v)
  BY DEF Waiting
<1>2. client[v].key \in DOMAIN sent /\ client[v].key \in Keys
  BY <1>1 DEF Waiting, RelayInv, NetInv, AckInv, TypeOK
<1>3. Confirmed(v, s) /\ s \in 0 .. sent[client[v].key].total - 1
  BY <1>2 DEF Confirmed
<1>4. Held(client[v].key, s)
  BY <1>1, <1>3 DEF ConfirmedHeld
<1>5. PICK k \in Keys : k = client[v].key
  BY <1>2
<1>6. Held(k, s)'
  BY <1>4, <1>5
<1>7. QED
  BY <1>5, <1>6 DEF Held

\* An answer that a client takes makes it believe nothing that is not so.
LEMMA ReceiveOk ==
  ASSUME RelayInv, OkInv, NEW u \in Senders, Receive(u)
  PROVE  OkInv'
<1> DEFINE c == client[u]
           k == c.key
<1>1. /\ UNCHANGED <<asm, sent, queued, dropped>> /\ Waiting(u) /\ answer[u] # NoAnswer
  BY DEF Receive, vars, relayVars, history
<1>2. /\ k \in DOMAIN sent /\ sent[k].total \in Nat /\ c.seq \in 0 .. sent[k].total - 1
      /\ client \in [Senders -> net \cup {Idle}] /\ DOMAIN answer = Senders
  BY <1>1 DEF RelayInv, NetInv, Waiting
<1>3. \A l, s : Held(l, s) => Held(l, s)'
  BY <1>1 DEF Held
<1>4. Unfinished'
  BY <1>1 DEF OkInv, Unfinished
<1>5. \A v \in Senders \ {u} : client'[v] = client[v] /\ answer'[v] = answer[v]
  BY <1>2 DEF Receive, Query, Return
<1>6. \A v \in Senders \ {u} : ConfirmedHeld(v)'
  BY <1>1, <1>3, <1>5, KeptConfirmed DEF OkInv
<1>7. CASE /\ answer[u] = "OK" /\ c.seq + 1 < sent[k].total
           /\ Query(u, k, c.seq + 1, 0) /\ UNCHANGED outcome
  <2>1. /\ client'[u].key = k /\ client'[u].seq = c.seq + 1 /\ answer'[u] = NoAnswer
    BY <1>2, <1>7 DEF Query
  <2>2. ConfirmedHeld(u)'
    <3> SUFFICES ASSUME NEW s, s \in (0 .. sent[client[u].key].total - 1)', Confirmed(u, s)'
                 PROVE  Held(client[u].key, s)'
      BY DEF ConfirmedHeld
    <3>1. s \in 0 .. sent[k].total - 1 /\ s < c.seq + 1
      BY <1>1, <2>1 DEF Confirmed
    <3>2. Confirmed(u, s)
      BY <1>1, <1>2, <1>7, <3>1 DEF Confirmed
    <3>3. Held(k, s)
      BY <1>1, <3>1, <3>2 DEF OkInv, ConfirmedHeld
    <3>4. QED
      BY <1>1, <2>1, <3>3 DEF Held
  <2>3. (DOMAIN outcome \subseteq DOMAIN sent)' /\ OkUnlessDropped'
    BY <1>1, <1>7 DEF OkInv, OkUnlessDropped
  <2>4. QED
    BY <1>4, <1>6, <2>2, <2>3 DEF OkInv
<1>8. CASE /\ ~(answer[u] = "OK" /\ c.seq + 1 < sent[k].total)
           /\ Return(u, answer[u] = "OK")
  <2>1. client'[u] = Idle /\ outcome' = Put(outcome, k, answer[u] = "OK")
    BY <1>2, <1>8 DEF Return
  <2>2. ConfirmedHeld(u)'
    BY <2>1 DEF ConfirmedHeld, Waiting
  <2>3. answer[u] = "OK" => k \in queued \cup dropped
    BY <1>1, <1>8, AllConfirmed
  <2>4. DOMAIN outcome' \subseteq DOMAIN sent'
    BY <1>1, <1>2, <2>1 DEF Put, OkInv
  <2>5. OkUnlessDropped'
    <3> SUFFICES ASSUME NEW l \in DOMAIN outcome', outcome'[l]
                 PROVE  l \in queued' \cup dropped'
      BY DEF OkUnlessDropped
    <3>1. CASE l = k
      BY <1>1, <2>1, <2>3, <3>1 DEF Put
    <3>2. CASE l # k
      BY <1>1, <2>1, <3>2 DEF Put, OkInv, OkUnlessDropped
    <3>3. QED
      BY <3>1, <3>2
  <2>6. QED
    BY <1>4, <1>6, <2>2, <2>4, <2>5 DEF OkInv
<1>9. QED
  BY <1>7, <1>8 DEF Receive

\* A timeout repeats the question, or gives up.
LEMMA TimeoutOk ==
  ASSUME RelayInv, OkInv, NEW u \in Senders, Timeout(u)
  PROVE  OkInv'
<1> DEFINE c == client[u]
           k == c.key
<1>1. /\ UNCHANGED <<asm, sent, queued, dropped>> /\ Waiting(u)
  BY DEF Timeout, vars, relayVars, history
<1>2. /\ k \in DOMAIN sent /\ client \in [Senders -> net \cup {Idle}] /\ DOMAIN answer = Senders
  BY <1>1 DEF RelayInv, NetInv, Waiting
<1>3. \A l, s : Held(l, s) => Held(l, s)'
  BY <1>1 DEF Held
<1>4. Unfinished'
  BY <1>1 DEF OkInv, Unfinished
<1>5. \A v \in Senders \ {u} : client'[v] = client[v] /\ answer'[v] = answer[v]
  BY <1>2 DEF Timeout, Query, Return
<1>6. \A v \in Senders \ {u} : ConfirmedHeld(v)'
  BY <1>1, <1>3, <1>5, KeptConfirmed DEF OkInv
<1>7. CASE Query(u, k, c.seq, c.try + 1) /\ UNCHANGED outcome
  <2>1. /\ client'[u].key = k /\ client'[u].seq = c.seq /\ answer'[u] = NoAnswer
    BY <1>2, <1>7 DEF Query
  <2>2. ConfirmedHeld(u)'
    <3> SUFFICES ASSUME NEW s, s \in (0 .. sent[client[u].key].total - 1)', Confirmed(u, s)'
                 PROVE  Held(client[u].key, s)'
      BY DEF ConfirmedHeld
    <3>1. s \in 0 .. sent[k].total - 1 /\ s < c.seq
      BY <1>1, <2>1 DEF Confirmed
    <3>2. Held(k, s)
      BY <1>1, <3>1 DEF OkInv, ConfirmedHeld, Confirmed
    <3>3. QED
      BY <1>1, <2>1, <3>2 DEF Held
  <2>3. (DOMAIN outcome \subseteq DOMAIN sent)' /\ OkUnlessDropped'
    BY <1>1, <1>7 DEF OkInv, OkUnlessDropped
  <2>4. QED
    BY <1>4, <1>6, <2>2, <2>3 DEF OkInv
<1>8. CASE Return(u, FALSE)
  <2>1. client'[u] = Idle /\ outcome' = Put(outcome, k, FALSE)
    BY <1>2, <1>8 DEF Return
  <2>2. ConfirmedHeld(u)'
    BY <2>1 DEF ConfirmedHeld, Waiting
  <2>3. DOMAIN outcome' \subseteq DOMAIN sent' /\ OkUnlessDropped'
    BY <1>1, <1>2, <2>1 DEF Put, OkInv, OkUnlessDropped
  <2>4. QED
    BY <1>4, <1>6, <2>2, <2>3 DEF OkInv
<1>9. QED
  BY <1>7, <1>8 DEF Timeout

\* A new message has no confirmed chunk.
LEMMA SendOk ==
  ASSUME RelayInv, OkInv, NEW u \in Senders, NEW mid \in Mids, NEW to \in Users,
         NEW total \in 1 .. MaxChunks + 1, Send(u, mid, to, total)
  PROVE  OkInv'
<1>1. /\ UNCHANGED <<asm, queued, dropped, outcome>>
      /\ <<u, mid>> \notin DOMAIN sent /\ sent' = Put(sent, <<u, mid>>, [to |-> to, total |-> total])
      /\ Query(u, <<u, mid>>, 0, 0)
  BY DEF Send, NewMessage, relayVars, history
<1>2. client \in [Senders -> net \cup {Idle}] /\ DOMAIN answer = Senders
  BY DEF RelayInv, NetInv
<1>3. \A l, s : Held(l, s) => Held(l, s)'
  BY <1>1 DEF Held
<1>4. Unfinished'
  BY <1>1 DEF OkInv, Unfinished
<1>5. \A v \in Senders \ {u} : client'[v] = client[v] /\ answer'[v] = answer[v]
  BY <1>1, <1>2 DEF Query
<1>6. DOMAIN sent \subseteq DOMAIN sent' /\ \A l \in DOMAIN sent : sent'[l] = sent[l]
  BY <1>1 DEF Put
<1>7. \A v \in Senders \ {u} : ConfirmedHeld(v)'
  BY <1>3, <1>5, <1>6, KeptConfirmed DEF OkInv
<1>8. ConfirmedHeld(u)'
  <2>1. client'[u].seq = 0 /\ answer'[u] = NoAnswer
    BY <1>1, <1>2 DEF Query
  <2>2. \A s \in Nat : ~Confirmed(u, s)'
    BY <2>1 DEF Confirmed
  <2>3. QED
    BY <2>2 DEF ConfirmedHeld
<1>9. (DOMAIN outcome \subseteq DOMAIN sent)' /\ OkUnlessDropped'
  BY <1>1, <1>6 DEF OkInv, OkUnlessDropped
<1>10. QED
  BY <1>4, <1>7, <1>8, <1>9 DEF OkInv

\* Whatever the relay does, what is confirmed is held.
LEMMA RelayOk ==
  ASSUME RelayInv, OkInv, [Next]_vars, UNCHANGED <<client, net, sent, outcome>>,
         dropped' = dropped \cup Thrown,
         \A u \in Senders :
           \/ answer'[u] = answer[u]
           \/ answer'[u] # "OK"
           \/ Waiting(u) => Held(client[u].key, client[u].seq)'
  PROVE  OkInv'
<1>1. TypeOK /\ Unfinished
  BY DEF RelayInv, AckInv, OkInv
<1>2. Unfinished' /\ queued \subseteq queued'
  BY <1>1, RelayUnfinished
<1>3. \A k \in Keys : \A s : Held(k, s) => Held(k, s)'
  BY <1>2, StaysHeld
<1>4. ASSUME NEW u \in Senders PROVE ConfirmedHeld(u)'
  <2>1. CASE answer'[u] = answer[u] \/ answer'[u] # "OK"
    BY <1>3, <2>1, KeptConfirmed DEF OkInv
  <2>2. CASE Waiting(u) => Held(client[u].key, client[u].seq)'
    <3> SUFFICES ASSUME Waiting(u), NEW s, s \in (0 .. sent[client[u].key].total - 1)',
                        Confirmed(u, s)'
                 PROVE  Held(client[u].key, s)'
      BY DEF ConfirmedHeld, Waiting
    <3>1. client[u].key \in Keys
      BY DEF Waiting, RelayInv, NetInv, AckInv, TypeOK
    <3>2. PICK k \in Keys : k = client[u].key
      BY <3>1
    <3>3. CASE s < client[u].seq
      <4>1. Held(k, s)
        BY <3>2, <3>3 DEF OkInv, ConfirmedHeld, Confirmed
      <4>2. Held(k, s)'
        BY <1>3, <4>1
      <4>3. QED
        BY <3>2, <4>2 DEF Held
    <3>4. CASE s = client[u].seq
      BY <2>2, <3>4 DEF Held
    <3>5. QED
      BY <3>3, <3>4 DEF Confirmed
  <2>3. QED
    BY <2>1, <2>2
<1>5. (DOMAIN outcome \subseteq DOMAIN sent)' /\ OkUnlessDropped'
  BY <1>2 DEF OkInv, OkUnlessDropped
<1>6. QED
  BY <1>2, <1>4, <1>5 DEF OkInv

\* No step of a client, the network or the relay breaks OkInv.
LEMMA OkStep ==
  ASSUME RelayInv, OkInv, [DMNext]_dmVars
  PROVE  OkInv'
<1>1. [Next]_vars
  BY StepIsRelayStep DEF RelayInv
<1>2. ASSUME NEW u \in Users, Poll(u) PROVE OkInv'
  <2>1. /\ UNCHANGED <<client, net, sent, outcome, answer>> /\ dropped' = dropped \cup Thrown
    BY <1>2 DEF Poll, PollMessage, PollEmpty
  <2>2. QED
    BY <1>1, <2>1, RelayOk
<1>3. ASSUME RelayStep PROVE OkInv'
  <2>1. /\ UNCHANGED <<client, net, sent, outcome, answer>> /\ dropped' = dropped \cup Thrown
    BY <1>3 DEF RelayStep, OtherQuery, Tick, Restart
  <2>2. QED
    BY <1>1, <2>1, RelayOk
<1>4. ASSUME NEW r \in net, Serve(r) PROVE OkInv'
  <2>1. /\ UNCHANGED <<client, net, sent, outcome>> /\ dropped' = dropped \cup Thrown
    BY <1>4 DEF Serve, RefuseChunk, RefuseConflict, AckDuplicate, StoreChunk, CompleteMessage
  <2>2. r.key[1] \in Senders /\ answer \in [Senders -> {NoAnswer, "OK", "ERR"}]
    BY DEF RelayInv, NetInv
  <2>3. CASE Answer(r, "ERR")
    <3>1. \A u \in Senders : answer'[u] = answer[u] \/ answer'[u] # "OK"
      BY <2>2, <2>3 DEF Answer
    <3>2. QED
      BY <1>1, <2>1, <3>1, RelayOk
  <2>4. CASE /\ Answer(r, "OK")
             /\ \/ AckDuplicate(r.key, r.seq)
                \/ StoreChunk(r.key, r.seq)
                \/ CompleteMessage(r.key, r.seq)
    <3>1. Held(r.key, r.seq)'
      BY <2>1, <2>4, OkIsHeld
    <3>2. ASSUME NEW u \in Senders, answer'[u] # answer[u]
          PROVE  client[u] = r
      BY <2>2, <2>4, <3>2 DEF Answer
    <3>3. ASSUME NEW u \in Senders, answer'[u] # answer[u]
          PROVE  Held(client[u].key, client[u].seq)'
      BY <2>1, <3>1, <3>2, <3>3 DEF Held
    <3>4. QED
      BY <1>1, <2>1, <3>3, RelayOk
  <2>5. QED
    BY <1>4, <2>3, <2>4 DEF Serve
<1>5. CASE UNCHANGED dmVars
  <2>1. UNCHANGED <<client, answer, outcome, dropped, asm, sent, queued>>
    BY <1>5 DEF dmVars, clientVars, vars, relayVars, history
  <2>2. \A l, s : Held(l, s) => Held(l, s)'
    BY <2>1 DEF Held
  <2>3. \A v \in Senders : ConfirmedHeld(v)'
    BY <2>1, <2>2, KeptConfirmed DEF OkInv
  <2>4. QED
    BY <2>1, <2>3 DEF OkInv, Unfinished, OkUnlessDropped
<1>6. QED
  BY <1>2, <1>3, <1>4, <1>5, ReceiveOk, TimeoutOk, SendOk DEF DMNext

\* What RelayMailbox promises of its states, and NetInv.
LEMMA RelayInductive == DMSpec => []RelayInv
BY ClientsAreSenders, AckInductive, IntactInductive, NetInductive, PTL DEF RelayInv

\* Initially nothing is confirmed and nothing is collected.
LEMMA OkInductive == DMSpec => []OkInv
<1>1. DMInit => OkInv
  BY DEF DMInit, Init, OkInv, ConfirmedHeld, Waiting, Unfinished, OkUnlessDropped
<1>2. RelayInv /\ OkInv /\ [DMNext]_dmVars => OkInv'
  BY OkStep
<1>3. QED
  BY <1>1, <1>2, RelayInductive, PTL DEF DMSpec

\* A client that reports ok has its message in a mailbox, or the relay threw
\* the collected chunks away: no retry, duplicate or late answer deceives it.
THEOREM OkIsTrue == DMSpec => []OkUnlessDropped
<1>1. OkInv => OkUnlessDropped
  BY DEF OkInv
<1>2. QED
  BY <1>1, OkInductive, PTL

------------------------------------------------------------------------------
(* Messages wait in the order in which they were sent *)

\* Where a step of the relay leaves the mailboxes: with what they held, without
\* the first messages, and in one of them a message that was just completed.
LEMMA BoxesStep ==
  ASSUME TypeOK, [Next]_vars
  PROVE  \/ \A u \in Users : \E d \in Nat : Rest(mailbox'[u], mailbox[u], d)
         \/ \A u \in Users : mailbox'[u] = <<>>
         \/ \E k \in DOMAIN sent : \E seq \in 0 .. sent[k].total - 1 : CompleteMessage(k, seq)
<1> DEFINE Shrunk == \A u \in Users : \E d \in Nat : Rest(mailbox'[u], mailbox[u], d)
<1>1. \A u \in Users : Len(mailbox[u]) \in Nat
  BY LenProperties DEF TypeOK
<1>2. ASSUME mailbox' = Swept PROVE Shrunk
  <2> SUFFICES ASSUME NEW u \in Users PROVE \E d \in Nat : Rest(mailbox'[u], mailbox[u], d)
    OBVIOUS
  <2>1. PICK d \in 0 .. Len(mailbox[u]) : Rest(Swept[u], mailbox[u], d)
    BY SweptIsRest
  <2>2. d \in Nat
    BY <1>1
  <2>3. QED
    BY <1>2, <2>1, <2>2
<1>3. ASSUME mailbox' = mailbox PROVE Shrunk
  <2> SUFFICES ASSUME NEW u \in Users PROVE \E d \in Nat : Rest(mailbox'[u], mailbox[u], d)
    OBVIOUS
  <2>1. Rest(mailbox'[u], mailbox[u], 0)
    BY <1>1, <1>3 DEF Rest
  <2>2. QED
    BY <2>1
<1>4. ASSUME NEW k \in DOMAIN sent, NEW seq \in 0 .. sent[k].total - 1, HandleSend(k, seq)
      PROVE  Shrunk \/ CompleteMessage(k, seq)
  BY <1>2, <1>4 DEF HandleSend, RefuseChunk, AckDuplicate, RefuseConflict, StoreChunk, SweepOnly
<1>5. ASSUME NEW u \in Users, PollEmpty(u) PROVE Shrunk
  BY <1>2, <1>5 DEF PollEmpty, SweepOnly
<1>6. ASSUME NEW u \in Users, PollMessage(u) PROVE Shrunk
  BY <1>6, PollIsRest
<1>7. ASSUME OtherQuery PROVE Shrunk
  BY <1>2, <1>7 DEF OtherQuery, SweepOnly
<1>8. ASSUME Tick \/ UNCHANGED vars PROVE Shrunk
  BY <1>3, <1>8 DEF Tick, vars, relayVars
<1>9. ASSUME Restart PROVE \A u \in Users : mailbox'[u] = <<>>
  BY <1>9 DEF Restart
<1>10. ASSUME NEW k \in Keys, NEW to \in Users, NEW total \in 1 .. MaxChunks + 1,
              NewMessage(k, to, total)
       PROVE  Shrunk
  BY <1>3, <1>10 DEF NewMessage, relayVars
<1>11. QED
  BY <1>4, <1>5, <1>6, <1>7, <1>8, <1>9, <1>10 DEF Next

\* A step that only takes first messages away leaves the rest in order.
LEMMA RestInOrder ==
  ASSUME TypeOK, TypeOK', InSendingOrder, after' = after,
         dropped \subseteq dropped', forgot \subseteq forgot',
         \A u \in Users : \E d \in Nat : Rest(mailbox'[u], mailbox[u], d)
  PROVE  InSendingOrder'
<1> SUFFICES ASSUME NEW u \in Users, NEW i \in DOMAIN mailbox'[u], NEW j \in DOMAIN mailbox'[u],
                    i < j,
                    <<KeyOf(mailbox'[u][j]), KeyOf(mailbox'[u][i])>> \in after
             PROVE  KeyOf(mailbox'[u][j]) \in dropped \cup forgot
  BY DEF InSendingOrder
<1>1. PICK d \in Nat : Rest(mailbox'[u], mailbox[u], d)
  OBVIOUS
<1>2. /\ Len(mailbox'[u]) \in Nat /\ DOMAIN mailbox'[u] = 1 .. Len(mailbox'[u])
      /\ Len(mailbox[u]) \in Nat /\ DOMAIN mailbox[u] = 1 .. Len(mailbox[u])
  BY LenProperties DEF TypeOK
<1>3. /\ i + d \in DOMAIN mailbox[u] /\ mailbox'[u][i] = mailbox[u][i + d]
      /\ j + d \in DOMAIN mailbox[u] /\ mailbox'[u][j] = mailbox[u][j + d]
  BY <1>1, <1>2, RestIndices, SMTT(30)
<1>4. i + d < j + d
  BY <1>2
<1>5. QED
  BY <1>3, <1>4 DEF InSendingOrder

\* A message that is completed goes behind those that wait. One that is queued
\* already, and comes again, the relay has forgotten, or had thrown away.
LEMMA CompleteInOrder ==
  ASSUME TypeOK, OrderInv, after' = after, dropped \subseteq dropped', forgot \subseteq forgot',
         NEW k \in DOMAIN sent, NEW seq \in 0 .. sent[k].total - 1, CompleteMessage(k, seq)
  PROVE  InSendingOrder'
<1> SUFFICES ASSUME NEW u \in Users, NEW i \in DOMAIN mailbox'[u], NEW j \in DOMAIN mailbox'[u],
                    i < j,
                    <<KeyOf(mailbox'[u][j]), KeyOf(mailbox'[u][i])>> \in after
             PROVE  KeyOf(mailbox'[u][j]) \in dropped \cup forgot
  BY DEF InSendingOrder
<1> DEFINE e == Entry(k, seq)
<1>1. /\ KeyOf(e) = k /\ mailbox' \in [Users -> Seq(Entries)]
      /\ \E d \in Nat : RestOrNew(mailbox'[u], mailbox[u], d, e)
  BY CompleteIsRestOrNew
<1>2. /\ Len(mailbox'[u]) \in Nat /\ DOMAIN mailbox'[u] = 1 .. Len(mailbox'[u])
      /\ Len(mailbox[u]) \in Nat /\ DOMAIN mailbox[u] = 1 .. Len(mailbox[u])
  BY <1>1, LenProperties DEF TypeOK
<1> HIDE DEF e
<1>3. PICK d \in Nat : RestOrNew(mailbox'[u], mailbox[u], d, e)
  BY <1>1
<1>4. i + d \in DOMAIN mailbox[u] /\ mailbox'[u][i] = mailbox[u][i + d]
  BY <1>2, <1>3 DEF RestOrNew
<1>5. CASE j + d \in DOMAIN mailbox[u] /\ mailbox'[u][j] = mailbox[u][j + d]
  <2>1. i + d < j + d
    BY <1>2
  <2>2. QED
    BY <1>4, <1>5, <2>1 DEF OrderInv, InSendingOrder
<1>6. CASE mailbox'[u][j] = e
  <2>1. KeyOf(mailbox'[u][j]) = k
    BY <1>1, <1>6
  <2>2. k \in queued \cup dropped
    <3>1. <<k, KeyOf(mailbox'[u][i])>>[1] = k
      OBVIOUS
    <3>2. QED
      BY <2>1, <3>1 DEF OrderInv
  <2>3. k \notin DOMAIN delivered
    BY DEF CompleteMessage
  <2>4. QED
    BY <2>1, <2>2, <2>3 DEF OrderInv
<1>7. QED
  BY <1>2, <1>3, <1>5, <1>6 DEF RestOrNew

\* A message that is sent is not in a mailbox yet.
LEMMA SendInOrder ==
  ASSUME RelayInv, OkInv, OrderInv, NEW u \in Senders, NEW mid \in Mids, NEW to \in Users,
         NEW total \in 1 .. MaxChunks + 1, Send(u, mid, to, total)
  PROVE  OrderInv'
<1> DEFINE k == <<u, mid>>
           old == {l \in DOMAIN outcome : l[1] = u /\ outcome[l]}
<1>1. /\ UNCHANGED <<mailbox, queued, dropped, delivered, forgot>>
      /\ k \notin DOMAIN sent /\ DOMAIN sent' = DOMAIN sent \cup {k}
      /\ after' = after \cup (old \X {k})
  BY DEF Send, NewMessage, Put, relayVars, history
<1>2. \A l \in old : l \in queued \cup dropped
  BY DEF OkInv, OkUnlessDropped
<1> HIDE DEF k, old
<1>3. \A p \in after' : p[1] \in queued' \cup dropped' /\ p[2] \in DOMAIN sent'
  <2> SUFFICES ASSUME NEW p \in after' PROVE p[1] \in queued' \cup dropped' /\ p[2] \in DOMAIN sent'
    OBVIOUS
  <2>1. CASE p \in after
    BY <1>1, <2>1 DEF OrderInv
  <2>2. CASE p \in old \X {k}
    <3>1. p[1] \in old /\ p[2] = k
      BY <2>2
    <3>2. QED
      BY <1>1, <1>2, <3>1
  <2>3. QED
    BY <1>1, <2>1, <2>2
<1>4. InSendingOrder'
  <2> SUFFICES ASSUME NEW v \in Users, NEW i \in DOMAIN mailbox[v], NEW j \in DOMAIN mailbox[v],
                      i < j,
                      <<KeyOf(mailbox[v][j]), KeyOf(mailbox[v][i])>> \in after'
               PROVE  KeyOf(mailbox[v][j]) \in dropped \cup forgot
    BY <1>1 DEF InSendingOrder
  <2>1. KeyOf(mailbox[v][i]) # k
    BY <1>1 DEF RelayInv, IntactInv, Intact
  <2>2. <<KeyOf(mailbox[v][j]), KeyOf(mailbox[v][i])>> \in after
    BY <1>1, <2>1
  <2>3. QED
    BY <2>2 DEF OrderInv, InSendingOrder
<1>5. QED
  BY <1>1, <1>3, <1>4 DEF OrderInv

\* What the relay has queued it remembers, or it has forgotten it.
LEMMA QueuedRemembered ==
  ASSUME TypeOK, [Next]_vars, queued \subseteq DOMAIN delivered \cup forgot
  PROVE  /\ queued' \subseteq DOMAIN delivered' \cup forgot'
         /\ queued \subseteq queued' /\ forgot \subseteq forgot' /\ DOMAIN sent \subseteq DOMAIN sent'
<1>1. ASSUME NEW k \in DOMAIN sent, NEW seq \in 0 .. sent[k].total - 1, HandleSend(k, seq)
      PROVE  /\ queued' \subseteq DOMAIN delivered' \cup forgot'
             /\ queued \subseteq queued' /\ forgot \subseteq forgot' /\ UNCHANGED sent
  <2>1. CASE CompleteMessage(k, seq)
    BY <2>1 DEF CompleteMessage, Remember
  <2>2. CASE ~CompleteMessage(k, seq)
    BY <1>1, <2>2 DEF HandleSend, RefuseChunk, AckDuplicate, RefuseConflict, StoreChunk, history
  <2>3. QED
    BY <2>1, <2>2
<1>2. ASSUME NEW u \in Users, PollEmpty(u) \/ PollMessage(u)
      PROVE  UNCHANGED <<queued, delivered, forgot, sent>>
  BY <1>2 DEF PollEmpty, PollMessage, history
<1>3. ASSUME NEW k \in Keys, NEW to \in Users, NEW total \in 1 .. MaxChunks + 1,
             NewMessage(k, to, total)
      PROVE  UNCHANGED <<queued, delivered, forgot>> /\ DOMAIN sent \subseteq DOMAIN sent'
  BY <1>3 DEF NewMessage, Put, relayVars, history
<1>4. CASE OtherQuery \/ Tick \/ UNCHANGED vars
  BY <1>4, ForgetsSome DEF Tick, vars, relayVars, history
<1>5. CASE Restart
  BY <1>5 DEF Restart
<1>6. QED
  BY <1>1, <1>2, <1>3, <1>4, <1>5 DEF Next

\* No step puts a message behind one that was sent after it.
LEMMA OrderStep ==
  ASSUME RelayInv, OkInv, OrderInv, RelayInv', [DMNext]_dmVars
  PROVE  OrderInv'
<1>1. /\ TypeOK /\ TypeOK' /\ [Next]_vars
  BY StepIsRelayStep DEF RelayInv, AckInv
<1>2. CASE \E u \in Senders, mid \in Mids, to \in Users, total \in 1 .. MaxChunks + 1 :
             Send(u, mid, to, total)
  BY <1>2, SendInOrder
<1>3. CASE after' = after /\ dropped \subseteq dropped'
  <2>1. /\ queued' \subseteq DOMAIN delivered' \cup forgot'
        /\ queued \subseteq queued' /\ forgot \subseteq forgot' /\ DOMAIN sent \subseteq DOMAIN sent'
    BY <1>1, QueuedRemembered DEF OrderInv
  <2>2. \A p \in after' : p[1] \in queued' \cup dropped' /\ p[2] \in DOMAIN sent'
    BY <1>3, <2>1 DEF OrderInv
  <2>3. InSendingOrder'
    <3>1. CASE \A u \in Users : \E d \in Nat : Rest(mailbox'[u], mailbox[u], d)
      BY <1>1, <1>3, <2>1, <3>1, RestInOrder DEF OrderInv
    <3>2. CASE \A u \in Users : mailbox'[u] = <<>>
      BY <3>2 DEF InSendingOrder
    <3>3. CASE \E k \in DOMAIN sent : \E seq \in 0 .. sent[k].total - 1 : CompleteMessage(k, seq)
      BY <1>1, <1>3, <2>1, <3>3, CompleteInOrder
    <3>4. QED
      BY <1>1, <3>1, <3>2, <3>3, BoxesStep
  <2>4. QED
    BY <2>1, <2>2, <2>3 DEF OrderInv
<1>4. QED
  <2>1. ASSUME NEW u \in Senders, Receive(u) \/ Timeout(u)
        PROVE  after' = after /\ dropped \subseteq dropped'
    BY <2>1 DEF Receive, Timeout
  <2>2. ASSUME NEW u \in Users, Poll(u) PROVE after' = after /\ dropped \subseteq dropped'
    BY <2>2 DEF Poll
  <2>3. ASSUME NEW r \in net, Serve(r) PROVE after' = after /\ dropped \subseteq dropped'
    BY <2>3 DEF Serve
  <2>4. CASE RelayStep \/ UNCHANGED dmVars
    BY <1>3, <2>4 DEF RelayStep, dmVars, clientVars
  <2>5. QED
    BY <1>2, <1>3, <2>1, <2>2, <2>3, <2>4 DEF DMNext

\* Messages of one sender that were sent one after the other wait in that order,
\* unless the relay dropped or forgot the earlier one.
THEOREM SentInOrder == DMSpec => []InSendingOrder
<1>1. DMInit => OrderInv
  BY DEF DMInit, Init, OrderInv, InSendingOrder
<1>2. RelayInv /\ RelayInv' /\ OkInv /\ OrderInv /\ [DMNext]_dmVars => OrderInv'
  BY OrderStep
<1>3. OrderInv => InSendingOrder
  BY DEF OrderInv
<1>4. QED
  BY <1>1, <1>2, <1>3, RelayInductive, OkInductive, PTL DEF DMSpec
==============================================================================
