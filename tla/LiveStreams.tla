------------------------------ MODULE LiveStreams ------------------------------
(***************************************************************************)
(* The live stream of one group: live_streams of web_client.py with its    *)
(* streamer and viewers, the handlers of stream-start, stream-end,         *)
(* stream-join and stream-leave, and what on_disconnect cleans up. The     *)
(* pictures themselves never pass the server.                              *)
(*                                                                         *)
(* Every socket event has a thread of its own. A thread changes the roster *)
(* under live_streams_lock, and emits its events after it has let go of    *)
(* it: between the two another thread may have ended the stream, and even  *)
(* a next one may have started. All users here are members of the group    *)
(* and have one page each; what passes along the roster and changes        *)
(* nothing (offers, answers, candidates, chat, counts) is left out.        *)
(***************************************************************************)
EXTENDS Integers, FiniteSets

CONSTANTS Viewers,     \* users
          MaxStreams,  \* bounds of the number of streams,
          MaxJoins,    \* ... of requests to join,
          MaxEnds,     \* ... to end, and to leave,
          MaxBreaks    \* ... and of pages closed

VARIABLES stream,    \* live_streams[gid] with a number of its own, in a set, or {}
          pages,     \* users with a page
          handlers   \* the threads under way: whose, where, and of which stream

\* History.
VARIABLES streams, joins, ends, breaks,  \* how many so far
          owed,      \* viewers and streams of whose end they are still to hear
          late       \* users whose page closed unnoticed, or before their request was served

lsHistory == <<streams, joins, ends, breaks, owed, late>>
lsVars == <<stream, pages, handlers, lsHistory>>

Handler(u, at, nr) == [who |-> {u}, at |-> at, nr |-> nr]
Streamer == {s.streamer : s \in stream}
Watching == UNION {s.viewers : s \in stream}
Current == {s.nr : s \in stream}

LSInit ==
  /\ stream = {} /\ pages = Viewers /\ handlers = {}
  /\ streams = 0 /\ joins = 0 /\ ends = 0 /\ breaks = 0
  /\ owed = {} /\ late = {}

------------------------------------------------------------------------------
(* stream-start *)

\* on_stream_start asks the relay for the members, which takes seconds.
AskToStart(u) ==
  /\ u \in pages
  /\ streams < MaxStreams
  /\ streams' = streams + 1
  /\ handlers' = handlers \cup {Handler(u, "start", streams + 1)}
  /\ UNCHANGED <<stream, pages, joins, ends, breaks, owed, late>>

\* One stream per group: "already_live" otherwise.
GoLive(h) ==
  /\ h.at = "start"
  /\ handlers' = handlers \ {h}
  /\ stream' = IF stream = {}
               THEN {[nr |-> h.nr, streamer |-> u, viewers |-> {}] : u \in h.who}
               ELSE stream
  /\ UNCHANGED <<pages, lsHistory>>

------------------------------------------------------------------------------
(* stream-end *)

\* on_stream_end finds that the stream is the user's, and lets go of the lock.
AskToEnd(u) ==
  /\ u \in pages \cap Streamer
  /\ ends < MaxEnds
  /\ ends' = ends + 1
  /\ \E nr \in Current : handlers' = handlers \cup {Handler(u, "end", nr)}
  /\ UNCHANGED <<stream, pages, streams, joins, breaks, owed, late>>

\* Mutant: who is to hear of the end is taken from the roster before the lock.
ToldOfEnd_Before(h) == h.who

\* The viewers of the stream that is popped.
ToldOfEnd(h) == Watching

\* _end_live_stream pops the stream that is there by now.
EndStream(h) ==
  /\ h.at = "end"
  /\ stream' = {}
  /\ handlers' = (handlers \ {h})
       \cup {[who |-> ToldOfEnd(h), at |-> "tell", nr |-> nr] : nr \in Current}
  /\ UNCHANGED <<pages, lsHistory>>

TellEnd(h) ==
  /\ h.at = "tell"
  /\ handlers' = handlers \ {h}
  /\ owed' = owed \ (h.who \X {h.nr})
  /\ UNCHANGED <<stream, pages, streams, joins, ends, breaks, late>>

------------------------------------------------------------------------------
(* stream-join and stream-leave *)

AskToJoin(u) ==
  /\ u \in pages
  /\ joins < MaxJoins
  /\ joins' = joins + 1
  /\ handlers' = handlers \cup {Handler(u, "join", 0)}
  /\ UNCHANGED <<stream, pages, streams, ends, breaks, owed, late>>

\* "not_live" if there is no stream.
JoinStream(h) ==
  /\ h.at = "join"
  /\ handlers' = handlers \ {h}
  /\ stream' = {[s EXCEPT !.viewers = @ \cup h.who] : s \in stream}
  /\ owed' = owed \cup (h.who \X Current)
  /\ UNCHANGED <<pages, streams, joins, ends, breaks, late>>

\* _remove_stream_viewer.
Unwatch(u) ==
  /\ stream' = {[s EXCEPT !.viewers = @ \ {u}] : s \in stream}
  /\ owed' = owed \ ({u} \X Current)

LeaveStream(u) ==
  /\ u \in pages \cap Watching
  /\ ends < MaxEnds
  /\ ends' = ends + 1
  /\ Unwatch(u)
  /\ UNCHANGED <<pages, handlers, streams, joins, breaks, late>>

------------------------------------------------------------------------------
(* on_connect and on_disconnect *)

OpenPage(u) ==
  /\ u \notin pages
  /\ pages' = pages \cup {u}
  /\ UNCHANGED <<stream, handlers, lsHistory>>

\* The last page of u closes. If its cookie is no longer good, nothing is cleaned
\* up; and what it has asked for just before is served afterwards.
ClosePage(u, noticed) ==
  /\ u \in pages
  /\ breaks < MaxBreaks
  /\ breaks' = breaks + 1
  /\ pages' = pages \ {u}
  /\ handlers' = IF noticed THEN handlers \cup {Handler(u, "cleanup", 0)} ELSE handlers
  /\ late' = IF noticed /\ \A h \in handlers : ~(u \in h.who /\ h.at \in {"start", "join"})
             THEN late
             ELSE late \cup {u}
  /\ UNCHANGED <<stream, streams, joins, ends, owed>>

\* Mutant: only the streams that the user hosts are cleaned up.
Cleaned_Hosted(u) ==
  IF u \in Streamer THEN {"end"} ELSE {}

\* What _cleanup_live_stream_presence is to do with the stream it finds.
Cleaned(u) ==
  IF u \in Streamer THEN {"end"}
  ELSE IF u \in Watching THEN {"unwatch"}
  ELSE {}

\* The look at the snapshot, without the lock.
Cleanup(h) ==
  /\ h.at = "cleanup"
  /\ \E u \in h.who :
       handlers' = (handlers \ {h}) \cup {Handler(u, at, 0) : at \in Cleaned(u)}
  /\ UNCHANGED <<stream, pages, lsHistory>>

CleanupViewer(h) ==
  /\ h.at = "unwatch"
  /\ \E u \in h.who : Unwatch(u)
  /\ handlers' = handlers \ {h}
  /\ UNCHANGED <<pages, streams, joins, ends, breaks, late>>

LSNext ==
  \/ \E u \in Viewers :
       \/ AskToStart(u) \/ AskToEnd(u) \/ AskToJoin(u) \/ LeaveStream(u)
       \/ OpenPage(u) \/ ClosePage(u, TRUE) \/ ClosePage(u, FALSE)
  \/ \E h \in handlers :
       \/ GoLive(h) \/ EndStream(h) \/ TellEnd(h) \/ JoinStream(h)
       \/ Cleanup(h) \/ CleanupViewer(h)

LSSpec == LSInit /\ [][LSNext]_lsVars

------------------------------------------------------------------------------
(* Correctness *)

\* Whoever joined a stream and did not leave it hears of its end, whichever of two
\* threads that end it pops it, also while others join, leave or disconnect.
ViewersHearOfEnd == handlers = {} => \A x \in owed : x[2] \in Current

\* Once the threads are done, nobody is on the roster without a page: a stream
\* without its streamer would keep the group from going live ("already_live").
\* Not so if the page closed while its request to start or to join was not yet
\* served, or closed with a revoked cookie.
NoGhostsLive == handlers = {} => Streamer \cup Watching \subseteq pages \cup late

Stages == {"start", "end", "tell", "join", "cleanup", "unwatch"}

LSTypeOK ==
  /\ stream \subseteq [nr : Nat, streamer : Viewers, viewers : SUBSET Viewers]
  /\ pages \subseteq Viewers
  /\ handlers \subseteq [who : SUBSET Viewers, at : Stages, nr : Nat]
  /\ \A h \in handlers : h.at # "tell" => \E u \in Viewers : h.who = {u}
  /\ streams \in Nat
  /\ owed \subseteq Viewers \X Nat
  /\ late \subseteq Viewers
==============================================================================
