------------------------------- MODULE Transports -------------------------------
(***************************************************************************)
(* How one signed poll reaches the relay over more than one transport      *)
(* (transport.py, disk_bridge.py). MultiTransport sends the same labels,   *)
(* nonce and signature included, over one transport after the other until  *)
(* an answer does not begin with ERR: here first directly (UDPTransport;   *)
(* DoHTransport differs in what carries the packet) and then over the disk *)
(* (YandexDiskTransport: the query is a file in the client's folder, the   *)
(* answer one in the bridge's folder). The bridge lists the newest query   *)
(* files of a client, downloads what it has not seen, forwards it to the   *)
(* relay over UDP, and uploads the answer.                                 *)
(*                                                                         *)
(* A packet may come late, twice or never, an answer is dropped when the   *)
(* socket it goes to is closed (the system is taken not to give the port   *)
(* away again so soon), every call to the disk may fail, or succeed        *)
(* unnoticed; the bridge may end and start again.                          *)
(*                                                                         *)
(* This is one pinned name with its mailbox. The relay records the nonce   *)
(* of a poll and then takes a message out, or finds none (PollAuth has     *)
(* clocks and restarts); messages come in at any time. The client is in    *)
(* the bridge's registry (Registry).                                       *)
(***************************************************************************)
EXTENDS Integers, Sequences, FiniteSets, TLC, Lists

CONSTANTS Askers,           \* threads that poll
          ListLimit,        \* how many files a listing shows: 50
          MaxCalls,         \* bounds of the number of polls,
          MaxTaken,         \* ... of messages,
          MaxRepeats,       \* ... of packets that come twice,
          MaxBridgeStarts   \* ... of restarts of the bridge

ASSUME TransportsAssumption ==
  {ListLimit, MaxCalls, MaxTaken, MaxRepeats, MaxBridgeStarts} \subseteq Nat

VARIABLES call,      \* thread -> the poll it is in, and where: query of transport.py
          packets,   \* on the network, to the relay
          replies,   \* answers of the relay at the sockets that are open
          folder,    \* query files q_*.bin of the client, oldest first; none is deleted
          answers,   \* name of a reply file r_*.bin -> its content
          seenFiles, \* the files the bridge has seen: seen_per_client
          todo,      \* the rest of its listing, newest first
          hand,      \* the file it is at, in a set, and the answer to it
          recorded   \* polls whose nonce the relay has recorded

\* History.
VARIABLES calls,         \* number of polls
          took,          \* polls and the messages they took out of the mailbox
          outcome,       \* poll -> what query returned, and of which poll it was the answer
          forwarded,     \* file -> how often it was forwarded since the bridge started
          repeats, bridgeStarts

relayPart == <<recorded, took>>
netPart == <<packets, replies>>
bridgePart == <<answers, seenFiles, todo, hand, forwarded, bridgeStarts>>
trVars == <<call, relayPart, netPart, folder, bridgePart, calls, outcome, repeats>>

\* f with v at k.
With(f, k, v) == [x \in DOMAIN f \cup {k} |-> IF x = k THEN v ELSE f[x]]

\* An answer is a message, Empty, or an error.
Empty == 0
Refused == -1
Failed == -2

NoCall == [nr |-> 0, at |-> "idle", req |-> 0]

Texts == {Refused, Empty} \cup 1 .. MaxTaken
Answers == [of : Nat, txt : Texts \cup {Failed}]
Files == 1 .. Len(folder)

TRTypeOK ==
  /\ call \in [Askers -> [nr : Nat, at : {"idle", "direct", "upload", "disk"}, req : Nat]]
  /\ packets \subseteq Nat
  /\ replies \subseteq [port : Nat, of : Nat, txt : Texts]
  /\ folder \in Seq(Nat)
  /\ DOMAIN answers \subseteq Files /\ \A req \in DOMAIN answers : answers[req] \in Answers
  /\ seenFiles \subseteq Files
  /\ todo \in Seq(Files)
  /\ hand \subseteq [req : Files, txt : Texts \cup {Failed}]
  /\ recorded \subseteq Nat
  /\ took \subseteq Nat \X Texts
  /\ calls \in 0 .. MaxCalls
  /\ DOMAIN outcome \subseteq Nat /\ \A nr \in DOMAIN outcome : outcome[nr] \in Answers
  /\ DOMAIN forwarded \subseteq Files /\ \A req \in DOMAIN forwarded : forwarded[req] \in Nat
  /\ repeats \in 0 .. MaxRepeats
  /\ bridgeStarts \in 0 .. MaxBridgeStarts

TRInit ==
  /\ call = [a \in Askers |-> NoCall]
  /\ packets = {} /\ replies = {}
  /\ folder = <<>> /\ answers = << >>
  /\ seenFiles = {} /\ todo = <<>> /\ hand = {} /\ forwarded = <<>>
  /\ recorded = {} /\ took = {}
  /\ calls = 0 /\ outcome = <<>>
  /\ repeats = 0 /\ bridgeStarts = 0

------------------------------------------------------------------------------
(* The relay: _authorize_poll and _h_poll *)

\* Mutant: a nonce is recorded once a message was taken with it.
RecordedWith_Taken(nr, txt) == IF txt = Empty THEN recorded ELSE recorded \cup {nr}

RecordedWith(nr, txt) == recorded \cup {nr}

Polled(nr, txt) ==
  IF nr \in recorded
  THEN txt = Refused /\ UNCHANGED relayPart
  ELSE /\ txt \in {Empty} \cup {m \in {Cardinality(took) + 1} : m <= MaxTaken}
       /\ recorded' = RecordedWith(nr, txt)
       /\ took' = took \cup ({<<nr, txt>>} \ {<<nr, Empty>>})

------------------------------------------------------------------------------
(* MultiTransport.query: what it returns, and UDPTransport.query *)

Ends(a, of, txt) ==
  /\ call' = [call EXCEPT ![a] = NoCall]
  /\ outcome' = With(outcome, call[a].nr, [of |-> of, txt |-> txt])

\* Mutant: one socket for all queries.
PortOf_Shared(nr) == 0

\* A socket of its own for each query.
PortOf(nr) == nr

\* What of s goes to a socket that is open when the threads are at c.
ToOpen(s, c) == {r \in s : \E a \in Askers : c[a].at = "direct" /\ r.port = PortOf(c[a].nr)}

\* The poll is signed, and sent directly first.
Ask(a) ==
  /\ call[a] = NoCall
  /\ calls < MaxCalls
  /\ calls' = calls + 1
  /\ call' = [call EXCEPT ![a] = [nr |-> calls + 1, at |-> "direct", req |-> 0]]
  /\ packets' = packets \cup {calls + 1}
  /\ UNCHANGED <<relayPart, replies, folder, bridgePart, outcome, repeats>>

\* The relay serves a packet, which may come again.
ServePacket(nr, again) ==
  /\ nr \in packets
  /\ again => repeats < MaxRepeats
  /\ packets' = IF again THEN packets ELSE packets \ {nr}
  /\ repeats' = IF again THEN repeats + 1 ELSE repeats
  /\ \E txt \in Texts :
       /\ Polled(nr, txt)
       /\ replies' = ToOpen(replies \cup {[port |-> PortOf(nr), of |-> nr, txt |-> txt]}, call)
  /\ UNCHANGED <<call, folder, bridgePart, calls, outcome>>

\* An answer other than ERR ends the query; ERR:replay goes on to the next transport.
Receive(a, r) ==
  /\ call[a].at = "direct" /\ r.port = PortOf(call[a].nr)
  /\ IF r.txt = Refused
     THEN call' = [call EXCEPT ![a].at = "upload"] /\ UNCHANGED outcome
     ELSE Ends(a, r.of, r.txt)
  /\ replies' = ToOpen(replies \ {r}, call')
  /\ UNCHANGED <<relayPart, packets, folder, bridgePart, calls, repeats>>

\* "ERR:timeout".
DirectTimeout(a) ==
  /\ call[a].at = "direct"
  /\ call' = [call EXCEPT ![a].at = "upload"]
  /\ replies' = ToOpen(replies, call')
  /\ UNCHANGED <<relayPart, packets, folder, bridgePart, calls, outcome, repeats>>

------------------------------------------------------------------------------
(* YandexDiskTransport.query *)

\* The file may be there also if the upload seems to have failed.
Upload(a, there, ok) ==
  /\ call[a].at = "upload"
  /\ ok => there
  /\ folder' = IF there THEN Append(folder, call[a].nr) ELSE folder
  /\ IF ok
     THEN /\ call' = [call EXCEPT ![a].at = "disk", ![a].req = Len(folder) + 1]
          /\ UNCHANGED outcome
     ELSE Ends(a, call[a].nr, Failed)
  /\ UNCHANGED <<relayPart, netPart, bridgePart, calls, repeats>>

\* r_<username>_<req_id>.bin
ReplyName(req) == req

Fetch(a) ==
  /\ call[a].at = "disk"
  /\ ReplyName(call[a].req) \in DOMAIN answers
  /\ LET r == answers[ReplyName(call[a].req)] IN Ends(a, r.of, r.txt)
  /\ UNCHANGED <<relayPart, netPart, folder, bridgePart, calls, repeats>>

\* POLL_TIMEOUT.
DiskTimeout(a) ==
  /\ call[a].at = "disk"
  /\ Ends(a, call[a].nr, Failed)
  /\ UNCHANGED <<relayPart, netPart, folder, bridgePart, calls, repeats>>

------------------------------------------------------------------------------
(* The loop of disk_bridge.py *)

\* list_client_queries: the files are numbered in the order of their creation.
NewestFirst == [i \in 1 .. Len(folder) |-> Len(folder) + 1 - i]
Recent == {req \in 1 .. Len(folder) : req > Len(folder) - ListLimit}
Listed == Only(NewestFirst, Recent \ seenFiles)

ListQueries ==
  /\ todo = <<>> /\ hand = {}
  /\ Listed # <<>>
  /\ todo' = Listed
  /\ UNCHANGED <<call, relayPart, netPart, folder, answers, seenFiles, hand, forwarded,
                 bridgeStarts, calls, outcome, repeats>>

\* Mutant: a file counts as seen only once its answer is uploaded.
MarkSeen_Late(req) == seenFiles

MarkSeen(req) == seenFiles \cup {req}

\* seen.add, and then download_public, which may fail.
TakeFile(ok) ==
  /\ todo # <<>> /\ hand = {}
  /\ seenFiles' = MarkSeen(Head(todo))
  /\ todo' = Tail(todo)
  /\ hand' = IF ok THEN {[req |-> Head(todo), txt |-> Failed]} ELSE {}
  /\ UNCHANGED <<call, relayPart, netPart, folder, answers, forwarded, bridgeStarts,
                 calls, outcome, repeats>>

\* forward_to_relay: the relay may not get the packet, and its answer be late.
Forward(f, served, back) ==
  /\ f.txt = Failed
  /\ back => served
  /\ forwarded' = With(forwarded, f.req,
                       1 + IF f.req \in DOMAIN forwarded THEN forwarded[f.req] ELSE 0)
  /\ IF served
     THEN \E txt \in Texts :
            /\ Polled(folder[f.req], txt)
            /\ hand' = IF back THEN {[f EXCEPT !.txt = txt]} ELSE {}
     ELSE hand' = {} /\ UNCHANGED relayPart
  /\ UNCHANGED <<call, netPart, folder, answers, seenFiles, todo, bridgeStarts,
                 calls, outcome, repeats>>

\* upload_own, which may fail.
Reply(f, ok) ==
  /\ f.txt # Failed
  /\ hand' = {}
  /\ answers' =
       IF ok
       THEN With(answers, ReplyName(f.req), [of |-> folder[f.req], txt |-> f.txt])
       ELSE answers
  /\ UNCHANGED <<call, relayPart, netPart, folder, seenFiles, todo, forwarded, bridgeStarts,
                 calls, outcome, repeats>>

BridgeRestart ==
  /\ bridgeStarts < MaxBridgeStarts
  /\ bridgeStarts' = bridgeStarts + 1
  /\ seenFiles' = {} /\ todo' = <<>> /\ hand' = {}
  /\ forwarded' = <<>>
  /\ UNCHANGED <<call, relayPart, netPart, folder, answers, calls, outcome, repeats>>

TRNext ==
  \/ \E a \in Askers :
       \/ Ask(a) \/ DirectTimeout(a) \/ DiskTimeout(a) \/ Fetch(a)
       \/ \E r \in replies : Receive(a, r)
       \/ \E there, ok \in BOOLEAN : Upload(a, there, ok)
  \/ \E nr \in packets, again \in BOOLEAN : ServePacket(nr, again)
  \/ ListQueries \/ BridgeRestart
  \/ \E ok \in BOOLEAN : TakeFile(ok)
  \/ \E f \in hand :
       \/ \E served, back \in BOOLEAN : Forward(f, served, back)
       \/ \E ok \in BOOLEAN : Reply(f, ok)

TRSpec == TRInit /\ [][TRNext]_trVars

------------------------------------------------------------------------------
(* Correctness *)

\* One poll takes at most one message out of the mailbox, though its packet goes
\* over two transports, comes twice, or is forwarded again by a bridge that has
\* started anew; and a poll that was answered EMPTY never takes one afterwards.
TakenOnce ==
  /\ \A x, y \in took : x[1] = y[1] => x = y
  /\ \A x \in took : x[1] \in DOMAIN outcome => outcome[x[1]].txt # Empty

\* What a query returns is the answer to itself: not that to a query of another
\* thread, and not to an earlier one whose answer came late, over either transport.
AnswerIsItsOwn == \A nr \in DOMAIN outcome : outcome[nr].of = nr

\* The bridge forwards a query file once, whatever fails after it has seen it: a
\* query with no answer costs the client its timeout and is never repeated. Only
\* a bridge that has started anew forwards what it still finds listed again.
ForwardedOnce == \A req \in DOMAIN forwarded : forwarded[req] <= 1
==============================================================================
