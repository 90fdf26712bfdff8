---------------------------- MODULE DirectMessages ----------------------------
(***************************************************************************)
(* A direct message end to end: the sending thread of each client          *)
(* (UserMessenger._send_chunked over _q_reliable), a UDP network that      *)
(* loses, delays, duplicates and reorders, and the relay of RelayMailbox.  *)
(*                                                                         *)
(* A client sends the chunks of a message one after the other. Each chunk  *)
(* is tried once and then up to SEND_RETRIES times more, every time on a   *)
(* new socket: an answer counts only for the try it belongs to. A request  *)
(* that the client has given up may still reach the relay later.           *)
(***************************************************************************)
EXTENDS RelayMailbox

CONSTANTS Senders,       \* the users that send
          SendRetries,   \* SEND_RETRIES
          Idle,          \* the thread of a client that is sending nothing
          NoAnswer       \* the open socket has received nothing yet

ASSUME ClientsAssumption == Senders \subseteq Users /\ SendRetries \in Nat

VARIABLES client,    \* user -> Idle, or the chunk and the try it waits for
          net,       \* requests that were put on the wire
          answer,    \* user -> what its open socket has received
          outcome    \* key -> what send_dm returned for the message

\* History.
VARIABLES dropped,   \* keys whose unfinished assembly the relay threw away
          after      \* <<k, l>>: k was reported ok before l was sent

clientVars == <<client, net, answer, outcome, dropped, after>>
dmVars == <<vars, clientVars>>

DMInit ==
  /\ Init
  /\ client = [u \in Senders |-> Idle]
  /\ net = {}
  /\ answer = [u \in Senders |-> NoAnswer]
  /\ outcome = [k \in {} |-> FALSE]
  /\ dropped = {}
  /\ after = {}

Waiting(u) == client[u] # Idle

\* Keys whose collected chunks this step throws away.
Thrown ==
  {<<asm[mid].from, mid>> :
     mid \in {m \in DOMAIN asm :
       ~(/\ m \in DOMAIN asm'
         /\ asm'[m].from = asm[m].from
         /\ DOMAIN asm[m].got \subseteq DOMAIN asm'[m].got)}} \ queued'

------------------------------------------------------------------------------
(* The client *)

\* The client puts try n of chunk seq of message k on the wire.
Query(u, k, seq, n) ==
  /\ client' = [client EXCEPT ![u] = [key |-> k, seq |-> seq, try |-> n]]
  /\ net' = net \cup {[key |-> k, seq |-> seq, try |-> n]}
  /\ answer' = [answer EXCEPT ![u] = NoAnswer]

\* _send_chunked returns.
Return(u, ok) ==
  /\ client' = [client EXCEPT ![u] = Idle]
  /\ answer' = [answer EXCEPT ![u] = NoAnswer]
  /\ outcome' = Put(outcome, client[u].key, ok)
  /\ UNCHANGED net

\* send_dm, from the first query on.
Send(u, mid, to, total) ==
  /\ ~Waiting(u)
  /\ NewMessage(<<u, mid>>, to, total)
  /\ Query(u, <<u, mid>>, 0, 0)
  /\ after' = after \cup ({k \in DOMAIN outcome : k[1] = u /\ outcome[k]} \X {<<u, mid>>})
  /\ UNCHANGED <<outcome, dropped>>

\* Mutant: a refusal of the relay is taken for an answer like any other.
Receive_IgnoreErr(u) ==
  /\ Waiting(u)
  /\ answer[u] # NoAnswer
  /\ LET c == client[u]
     IN  IF c.seq + 1 < sent[c.key].total
         THEN Query(u, c.key, c.seq + 1, 0) /\ UNCHANGED outcome
         ELSE Return(u, TRUE)
  /\ UNCHANGED <<vars, dropped, after>>

\* The answer of the open socket arrives: next chunk, or the end.
Receive(u) ==
  /\ Waiting(u)
  /\ answer[u] # NoAnswer
  /\ LET c == client[u]
     IN  IF answer[u] = "OK" /\ c.seq + 1 < sent[c.key].total
         THEN Query(u, c.key, c.seq + 1, 0) /\ UNCHANGED outcome
         ELSE Return(u, answer[u] = "OK")
  /\ UNCHANGED <<vars, dropped, after>>

\* Mutant: the number of the try is not advanced.
Timeout_Forever(u) ==
  /\ Waiting(u)
  /\ Query(u, client[u].key, client[u].seq, 0)
  /\ UNCHANGED <<vars, outcome, dropped, after>>

\* ERR:timeout: the next try on a new socket, or the end.
Timeout(u) ==
  /\ Waiting(u)
  /\ LET c == client[u]
     IN  IF c.try < SendRetries
         THEN Query(u, c.key, c.seq, c.try + 1) /\ UNCHANGED outcome
         ELSE Return(u, FALSE)
  /\ UNCHANGED <<vars, dropped, after>>

------------------------------------------------------------------------------
(* The network and the relay *)

\* What the relay answers goes to the socket of that try, if it is still open,
\* or is lost.
Answer(r, a) ==
  LET u == r.key[1]
  IN  \/ answer' = [answer EXCEPT ![u] = IF client[u] = r THEN a ELSE answer[u]]
      \/ answer' = answer

\* Request r reaches the relay: now, or much later, or again. Nothing is ever
\* taken out of net, and a request that is never served is a lost one.
Serve(r) ==
  /\ \/ /\ RefuseChunk(r.key, r.seq) \/ RefuseConflict(r.key, r.seq)
        /\ Answer(r, "ERR")
     \/ /\ \/ AckDuplicate(r.key, r.seq)
           \/ StoreChunk(r.key, r.seq)
           \/ CompleteMessage(r.key, r.seq)
        /\ Answer(r, "OK")
  /\ dropped' = dropped \cup Thrown
  /\ UNCHANGED <<client, net, outcome, after>>

\* The poll loop of a user takes a message, or finds none.
Poll(u) ==
  /\ PollMessage(u) \/ PollEmpty(u)
  /\ dropped' = dropped \cup Thrown
  /\ UNCHANGED <<client, net, answer, outcome, after>>

\* The rest of the relay's life goes on.
RelayStep ==
  /\ \/ OtherQuery
     \/ Tick
     \/ Restart
  /\ dropped' = dropped \cup Thrown
  /\ UNCHANGED <<client, net, answer, outcome, after>>

DMNext ==
  \/ \E u \in Senders :
       \/ \E mid \in Mids, to \in Users, total \in 1 .. MaxChunks + 1 : Send(u, mid, to, total)
       \/ Receive(u)
       \/ Timeout(u)
  \/ \E u \in Users : Poll(u)
  \/ \E r \in net : Serve(r)
  \/ RelayStep

\* Every socket has a timeout (UDPTransport.query), so a waiting client goes
\* on. Of what is sent the network owes nothing, and neither does a relay that may
\* have restarted. Of polls it is assumed that they reach the relay again and again:
\* the poll loop of a logged-in user sends one after the other (start_poll_loop).
Fairness ==
  /\ \A u \in Senders : WF_dmVars(Receive(u) \/ Timeout(u))
  /\ \A u \in Users : WF_dmVars(Poll(u))

DMSpec == DMInit /\ [][DMNext]_dmVars /\ Fairness

------------------------------------------------------------------------------
(* Correctness *)

\* What the caller of send_dm may take "ok" for: the message has reached the
\* mailbox of its addressee.
OkIsQueued == \A k \in DOMAIN outcome : outcome[k] => k \in queued

\* "ok" is true unless the relay threw the collected chunks away while the
\* rest were on their way (sweep, full store, restart): no loss, duplicate or
\* late answer of the network ever makes the client report a message that the
\* relay does not have.
OkUnlessDropped == \A k \in DOMAIN outcome : outcome[k] => k \in queued \cup dropped

\* Two messages of a sender that were sent one after the other wait in that
\* order, unless the relay dropped or forgot the earlier one: retries and late
\* duplicates of a message reported ok never put it behind a later one.
InSendingOrder ==
  \A u \in Users : \A i, j \in DOMAIN mailbox[u] :
    /\ i < j
    /\ <<KeyOf(mailbox[u][j]), KeyOf(mailbox[u][i])>> \in after
    => KeyOf(mailbox[u][j]) \in dropped \cup forgot

\* Every send comes to an end: the retries are bounded for every chunk.
SendsReturn == \A k \in Keys : (k \in DOMAIN sent) ~> (k \in DOMAIN outcome)

\* Under a poll loop that keeps polling, a mailbox is emptied in the end.
MailboxesDrain == \A u \in Users : (mailbox[u] # <<>>) ~> (mailbox[u] = <<>>)
==============================================================================
