---------------------------- MODULE WebServerProofs ----------------------------
(***************************************************************************)
(* Theorems about the web server: its live streams (LiveStreams), how what *)
(* is polled reaches the browser (WebPresence), and what it keeps of a     *)
(* registered name through requests and crashes (Accounts), for any number *)
(* of users, browsers, threads, events and requests.                       *)
(***************************************************************************)
EXTENDS LiveStreams, WebPresence, Accounts, FiniteSetTheorems, SequenceTheorems, TLAPS

------------------------------------------------------------------------------
(* The inductive invariants of LiveStreams *)

\* With LSTypeOK, the inductive invariant behind ViewersHearOfEnd: whoever is to
\* hear of the end of a stream is on its roster, or a thread is about to tell.
TellInv ==
  \A x \in owed :
    \/ \E s \in stream : x[2] = s.nr /\ x[1] \in s.viewers
    \/ \E h \in handlers : h.at = "tell" /\ x[1] \in h.who /\ x[2] = h.nr

\* With LSTypeOK, the inductive invariant behind NoGhostsLive: a request is served
\* for a user who has a page or is late, and a thread is at work for whoever is on
\* the roster and is neither.
GhostInv ==
  /\ \A h \in handlers : h.at \in {"start", "join"} => h.who \subseteq pages \cup late
  /\ \A u \in Streamer \ (pages \cup late) :
       \E h \in handlers : h.at = "end" \/ (h.at = "cleanup" /\ u \in h.who)
  /\ \A u \in Watching \ (pages \cup late) :
       \E h \in handlers : h.at = "end" \/ (h.at \in {"cleanup", "unwatch"} /\ u \in h.who)

------------------------------------------------------------------------------
(* The inductive invariants of WebPresence *)

\* With WPTypeOK, the inductive invariant behind CountsSockets: what a thread that
\* serves a connect or a disconnect has done of it, that the login of a socket that
\* has not joined is no longer good, and that one that joins or has joined finds the
\* messenger again when it closes, unless its login was revoked.
SocketOk(t) ==
  /\ socket[t].at = "closed" => ~socket[t].joined
  /\ thread[t].at = "free" => thread[t].for = "page"
  /\ thread[t].at = "answer" => thread[t].for = "login"
  /\ thread[t].at \in {"join", "flush", "emit"} => thread[t].for = "open"
  /\ thread[t].at = "leave" => thread[t].for = "close"
  /\ thread[t].for = "open" =>
       /\ socket[t].at # "closed"
       /\ socket[t].joined <=> thread[t].at \in {"flush", "emit"}
  /\ thread[t].for = "close" /\ unheard = 0 => socket[t].joined
  /\ socket[t].at # "closed" /\ ~socket[t].joined /\ thread[t].for # "open" /\ unheard = 0
       => socket[t].usv < version
  /\ thread[t].for = "open" \/ socket[t].joined =>
       known /\ (~revoked => socket[t].usv = version)

SocketInv == \A t \in Tabs : SocketOk(t)

\* With WPTypeOK, the inductive invariant behind NoneTwice: an event is in one
\* place, and once, until the pages have it.
Elems(s) == {s[i] : i \in DOMAIN s}
Once(s) == \A i, j \in DOMAIN s : s[i] = s[j] => i = j
Apart(s, z) == \A e \in Elems(s) : e \notin Elems(z)

HeldOnce ==
  /\ Once(relay) /\ Once(buffer) /\ Apart(relay, buffer)
  /\ \A l \in 1 .. MaxLoops :
       /\ Once(loops[l].hand) /\ Apart(loops[l].hand, relay) /\ Apart(loops[l].hand, buffer)
       /\ \A k \in 1 .. MaxLoops : k # l => Apart(loops[l].hand, loops[k].hand)
  /\ \A t \in Tabs :
       /\ Once(thread[t].buf) /\ Apart(thread[t].buf, relay) /\ Apart(thread[t].buf, buffer)
       /\ \A l \in 1 .. MaxLoops : Apart(thread[t].buf, loops[l].hand)
       /\ \A u \in Tabs : u # t => Apart(thread[t].buf, thread[u].buf)
  /\ \A t \in Tabs :
       /\ Once(screen[t]) /\ Apart(screen[t], relay) /\ Apart(screen[t], buffer)
       /\ \A l \in 1 .. MaxLoops : Apart(screen[t], loops[l].hand)
       /\ \A u \in Tabs : Apart(screen[t], thread[u].buf)

\* With WPTypeOK, the inductive invariant behind LoggedInIsPolled: a running loop
\* is there, and one runs or is about to be started for a login that is good; a
\* block that began when no request was served meets none that starts a loop.
PolledInv ==
  /\ running => \E l \in 1 .. MaxLoops : loops[l] # NoLoop
  /\ admin # "idle" => blocked
  /\ admin # "idle" /\ ~overlap =>
       \A t \in Tabs : thread[t].at \notin {"check", "start", "answer"}
  /\ (\E t \in Tabs : thread[t].at = "answer") /\ ~overlap => running
  /\ known /\ (\E t \in Tabs : cookie[t] = version) /\ admin # "stopped" /\ ~overlap =>
       running \/ \E t \in Tabs : thread[t].at \in {"check", "start"}

------------------------------------------------------------------------------
(* The inductive invariants of Accounts *)

\* As long as nothing clashes, requests that overlap are resets, none writes what
\* was unlinked, a deletion has dropped the messenger before it purges, and an
\* identity under a recovery code has its directory.
Calm ==
  /\ \A r, q \in Slots :
       r # q /\ ~IdleSlot(r) /\ ~IdleSlot(q) =>
         overlapped /\ serve[r].kind = "reset" /\ serve[q].kind = "reset"
  /\ \A r \in Slots :
       /\ ~serve[r].orphan
       /\ serve[r].at = "purge" => messenger = {}
  /\ rec # {} \/ (\E r \in Slots : serve[r].at = "codewrite") => dir

CalmInv == ~clash => Calm

\* What every request has in hand is the first identity; a new one is made only
\* when there is none.
FirstInv ==
  ~clash /\ ~torn =>
    /\ messenger \cup {x.id : x \in key \cup rec} \subseteq first
    /\ key = {} => first = {} \/ \E r \in Slots : serve[r].at = "keywrite"
    /\ \A r \in Slots :
         LET s == serve[r]
         IN  /\ s.kind \in {"reset", "code"} \/ s.at = "relay" => s.id \in first
             /\ s.kind \in {"register", "login"} /\ s.at \in {"key", "keywrite"} => first = {}

\* Every password is remembered, and the accounts agree with the identity: the
\* owner gets in also if accounts should be lost.
Sound(acc) ==
  /\ \A k \in key : k.pw \in remembered
  /\ \A pw \in acc : pw \in remembered /\ \A k \in key : k.pw = pw

\* A way in that a request leaves at each of its steps, or will have left at its end.
LeavesWay(r) ==
  LET s == serve[r]
      Fits == s.pw \in remembered /\ \A k \in key : k.pw = s.pw
  IN  /\ s.kind = "register" =>
           /\ Fits /\ s.snap = {s.pw}
           /\ IF s.at \in {"save", "write"} THEN accounts = {} /\ messenger = {} ELSE accounts = {s.pw}
      /\ s.kind = "login" => accounts = {s.pw} /\ s.pw \in remembered /\ WaysIn(accounts)
      /\ s.kind = "code" =>
           /\ accounts # {}
           /\ s.at = "code" => WaysIn(accounts)
           /\ s.at = "answer" => \E x \in rec : x.code \in s.snap
      /\ s.kind = "other" =>
           /\ WaysIn(s.snap) /\ (messenger # {} => s.snap # {})
           /\ accounts = IF s.at = "save" THEN s.snap ELSE {}
      /\ s.kind = "delete" /\ s.at # "save" => accounts = {}
      /\ s.kind = "delete" => s.snap = {}
      /\ s.kind = "reset" /\ s.at \in {"key", "keywrite", "save", "write"} => s.snap = {s.pw}

\* Resets under way leave an account and a code that was shown, or will be.
ResetsLeaveWay ==
  /\ accounts = {} => \E q \in Slots : serve[q].at = "write"
  /\ rec = {} => \E q \in Slots : serve[q].at = "codewrite"
  /\ \A x \in rec :
       x.code \in shown \/ \E q \in Slots : serve[q].at = "answer" /\ x.code \in serve[q].snap

\* A request alone, that a crash may break off at any step.
AloneLeavesWay ==
  /\ \A r \in Slots :
       LET s == serve[r]
           Fits == s.pw \in remembered /\ \A k \in key : k.pw = s.pw
       IN  /\ s.kind = "reset" => s.pw \in remembered
           /\ s.kind = "reset" /\ s.at \in {"save", "write"} => Fits
           /\ s.kind = "other" => Sound(s.snap)
  /\ \/ Sound(accounts)
     \/ /\ \E r \in Slots : serve[r].kind = "reset" /\ serve[r].at \in {"key", "keywrite", "save"}
        /\ accounts # {} /\ \E x \in rec : x.code \in shown

WayInv ==
  ~clash /\ crashes <= 1 =>
    /\ OwnerCanGetIn
    /\ \A r \in Slots : LeavesWay(r)
    /\ messenger # {} /\ accounts = {} => \E r \in Slots : serve[r].at \in {"write", "pop"}
    /\ (\E r \in Slots : serve[r].kind = "reset") => ResetsLeaveWay
    /\ ~overlapped /\ crashes = 0 => AloneLeavesWay

------------------------------------------------------------------------------
(* Live streams *)

\* Every state has the types of LSTypeOK.
THEOREM StreamTypes == LSSpec => []LSTypeOK
<1>1. LSInit => LSTypeOK
  BY DEF LSInit, LSTypeOK
<1>2. LSTypeOK /\ [LSNext]_lsVars => LSTypeOK'
  <2> SUFFICES ASSUME LSTypeOK, [LSNext]_lsVars PROVE LSTypeOK'
    OBVIOUS
  <2> USE DEF LSTypeOK, lsHistory
  <2>0. \A nr \in Current : nr \in Nat
    BY DEF Current
  <2>1. ASSUME NEW u \in Viewers, AskToStart(u) PROVE LSTypeOK'
    <3>1. Handler(u, "start", streams + 1) \in [who : SUBSET Viewers, at : Stages, nr : Nat]
      BY DEF Handler, Stages
    <3>2. Handler(u, "start", streams + 1).who = {u}
      BY DEF Handler
    <3>3. QED
      BY <2>1, <3>1, <3>2 DEF AskToStart
  <2>2. ASSUME NEW u \in Viewers, AskToEnd(u) PROVE LSTypeOK'
    <3>1. PICK nr \in Current : handlers' = handlers \cup {Handler(u, "end", nr)}
      BY <2>2 DEF AskToEnd
    <3>2. /\ Handler(u, "end", nr) \in [who : SUBSET Viewers, at : Stages, nr : Nat]
          /\ Handler(u, "end", nr).who = {u}
      BY <2>0 DEF Handler, Stages
    <3>3. QED
      BY <2>2, <3>1, <3>2 DEF AskToEnd
  <2>3. ASSUME NEW u \in Viewers, AskToJoin(u) PROVE LSTypeOK'
    <3>1. /\ Handler(u, "join", 0) \in [who : SUBSET Viewers, at : Stages, nr : Nat]
          /\ Handler(u, "join", 0).who = {u}
      BY DEF Handler, Stages
    <3>2. QED
      BY <2>3, <3>1 DEF AskToJoin
  <2>4. ASSUME NEW u \in Viewers, Unwatch(u)
        PROVE  /\ stream' \subseteq [nr : Nat, streamer : Viewers, viewers : SUBSET Viewers]
               /\ owed' \subseteq Viewers \X Nat
    BY <2>4 DEF Unwatch
  <2>5. ASSUME NEW u \in Viewers, LeaveStream(u) PROVE LSTypeOK'
    BY <2>4, <2>5 DEF LeaveStream
  <2>6. ASSUME NEW u \in Viewers, OpenPage(u) PROVE LSTypeOK'
    BY <2>6 DEF OpenPage
  <2>7. ASSUME NEW u \in Viewers, NEW noticed \in BOOLEAN, ClosePage(u, noticed) PROVE LSTypeOK'
    <3>1. /\ Handler(u, "cleanup", 0) \in [who : SUBSET Viewers, at : Stages, nr : Nat]
          /\ Handler(u, "cleanup", 0).who = {u}
      BY DEF Handler, Stages
    <3>2. late' \subseteq Viewers /\ pages' \subseteq Viewers
      BY <2>7 DEF ClosePage
    <3>3. handlers' \subseteq handlers \cup {Handler(u, "cleanup", 0)}
      BY <2>7 DEF ClosePage
    <3>4. QED
      BY <2>7, <3>1, <3>2, <3>3 DEF ClosePage
  <2>8. ASSUME NEW h \in handlers, GoLive(h) PROVE LSTypeOK'
    <3>1. stream' \subseteq [nr : Nat, streamer : Viewers, viewers : SUBSET Viewers]
      BY <2>8 DEF GoLive
    <3>2. QED
      BY <2>8, <3>1 DEF GoLive
  <2>9. ASSUME NEW h \in handlers, EndStream(h) PROVE LSTypeOK'
    <3>1. Watching \subseteq Viewers
      BY DEF Watching
    <3>2. \A g \in handlers' : \/ g \in handlers
                               \/ g \in [who : SUBSET Viewers, at : {"tell"}, nr : Nat]
      BY <2>0, <2>9, <3>1 DEF EndStream, ToldOfEnd
    <3>3. QED
      BY <2>9, <3>2 DEF EndStream, Stages
  <2>10. ASSUME NEW h \in handlers, TellEnd(h) PROVE LSTypeOK'
    BY <2>10 DEF TellEnd
  <2>11. ASSUME NEW h \in handlers, JoinStream(h) PROVE LSTypeOK'
    <3>1. /\ stream' \subseteq [nr : Nat, streamer : Viewers, viewers : SUBSET Viewers]
          /\ owed' \subseteq Viewers \X Nat
      BY <2>0, <2>11 DEF JoinStream
    <3>2. QED
      BY <2>11, <3>1 DEF JoinStream
  <2>12. ASSUME NEW h \in handlers, Cleanup(h) PROVE LSTypeOK'
    <3>1. PICK u \in h.who :
            handlers' = (handlers \ {h}) \cup {Handler(u, at, 0) : at \in Cleaned(u)}
      BY <2>12 DEF Cleanup
    <3>2. Cleaned(u) \subseteq Stages /\ u \in Viewers
      BY DEF Cleaned, Stages
    <3>3. \A at \in Stages : /\ Handler(u, at, 0) \in [who : SUBSET Viewers, at : Stages, nr : Nat]
                             /\ Handler(u, at, 0).who = {u}
      BY <3>2 DEF Handler
    <3>4. QED
      BY <2>12, <3>1, <3>2, <3>3 DEF Cleanup
  <2>13. ASSUME NEW h \in handlers, CleanupViewer(h) PROVE LSTypeOK'
    <3>1. PICK u \in h.who : Unwatch(u)
      BY <2>13 DEF CleanupViewer
    <3>2. u \in Viewers
      OBVIOUS
    <3>3. QED
      BY <2>4, <2>13, <3>1, <3>2 DEF CleanupViewer
  <2>14. CASE UNCHANGED lsVars
    BY <2>14 DEF lsVars
  <2>15. QED
    BY <2>1, <2>2, <2>3, <2>5, <2>6, <2>7, <2>8, <2>9, <2>10, <2>11, <2>12, <2>13, <2>14
       DEF LSNext
<1>3. QED
  BY <1>1, <1>2, PTL DEF LSSpec

\* Who leaves the roster is owed nothing more, and nobody else leaves it.
LEMMA UnwatchTells ==
  ASSUME LSTypeOK, TellInv, NEW u \in Viewers, Unwatch(u),
         \A h \in handlers : h.at = "tell" => h \in handlers'
  PROVE  TellInv'
<1> SUFFICES ASSUME NEW x \in owed'
             PROVE  \/ \E s \in stream' : x[2] = s.nr /\ x[1] \in s.viewers
                    \/ \E h \in handlers' : h.at = "tell" /\ x[1] \in h.who /\ x[2] = h.nr
  BY DEF TellInv
<1>1. x \in owed /\ x = <<x[1], x[2]>> /\ ~(x[1] = u /\ x[2] \in Current)
  BY DEF Unwatch, LSTypeOK
<1>2. CASE \E s \in stream : x[2] = s.nr /\ x[1] \in s.viewers
  <2>1. PICK s \in stream : x[2] = s.nr /\ x[1] \in s.viewers
    BY <1>2
  <2>2. x[1] # u
    BY <1>1, <2>1 DEF Current
  <2> DEFINE t == [s EXCEPT !.viewers = @ \ {u}]
  <2>3. t \in stream'
    BY DEF Unwatch
  <2>4. t.nr = s.nr /\ x[1] \in t.viewers
    BY <2>1, <2>2 DEF LSTypeOK
  <2>5. QED
    BY <2>1, <2>3, <2>4
<1>3. CASE \E h \in handlers : h.at = "tell" /\ x[1] \in h.who /\ x[2] = h.nr
  BY <1>3
<1>4. QED
  BY <1>1, <1>2, <1>3 DEF TellInv

\* Everybody who watched a stream hears of its end.
THEOREM EndIsHeard == LSSpec => []ViewersHearOfEnd
<1>1. LSInit => TellInv
  BY DEF LSInit, TellInv
<1>2. LSTypeOK /\ TellInv /\ [LSNext]_lsVars => TellInv'
  <2> SUFFICES ASSUME LSTypeOK, TellInv, [LSNext]_lsVars PROVE TellInv'
    OBVIOUS
  <2>0. ASSUME UNCHANGED <<stream, owed>>,
               \A h \in handlers : h.at = "tell" => h \in handlers'
        PROVE  TellInv'
    BY <2>0 DEF TellInv
  <2>1. ASSUME NEW u \in Viewers,
               AskToStart(u) \/ AskToEnd(u) \/ AskToJoin(u) \/ OpenPage(u)
        PROVE  TellInv'
    BY <2>0, <2>1 DEF AskToStart, AskToEnd, AskToJoin, OpenPage, lsHistory
  <2>2. ASSUME NEW u \in Viewers, LeaveStream(u) PROVE TellInv'
    BY <2>2, UnwatchTells DEF LeaveStream
  <2>3. ASSUME NEW u \in Viewers, NEW noticed \in BOOLEAN, ClosePage(u, noticed) PROVE TellInv'
    BY <2>0, <2>3 DEF ClosePage
  <2>4. ASSUME NEW h \in handlers, GoLive(h) PROVE TellInv'
    <3>1. \A s \in stream : s \in stream'
      BY <2>4 DEF GoLive
    <3>2. \A g \in handlers : g.at = "tell" => g \in handlers'
      BY <2>4 DEF GoLive
    <3>3. owed' = owed
      BY <2>4 DEF GoLive, lsHistory
    <3>4. QED
      BY <3>1, <3>2, <3>3 DEF TellInv
  <2>5. ASSUME NEW h \in handlers, EndStream(h) PROVE TellInv'
    <3> SUFFICES ASSUME NEW x \in owed
                 PROVE  \E g \in handlers' : g.at = "tell" /\ x[1] \in g.who /\ x[2] = g.nr
      BY <2>5 DEF TellInv, EndStream, lsHistory
    <3>1. CASE \E s \in stream : x[2] = s.nr /\ x[1] \in s.viewers
      <4>1. x[1] \in Watching /\ x[2] \in Current
        BY <3>1 DEF Watching, Current
      <4> DEFINE g == [who |-> ToldOfEnd(h), at |-> "tell", nr |-> x[2]]
      <4>2. g \in handlers' /\ x[1] \in g.who
        BY <2>5, <4>1 DEF EndStream, ToldOfEnd
      <4>3. QED
        BY <4>2
    <3>2. CASE \E g \in handlers : g.at = "tell" /\ x[1] \in g.who /\ x[2] = g.nr
      BY <2>5, <3>2 DEF EndStream
    <3>3. QED
      BY <3>1, <3>2 DEF TellInv
  <2>6. ASSUME NEW h \in handlers, TellEnd(h) PROVE TellInv'
    <3> SUFFICES ASSUME NEW x \in owed'
                 PROVE  \/ \E s \in stream : x[2] = s.nr /\ x[1] \in s.viewers
                        \/ \E g \in handlers' : g.at = "tell" /\ x[1] \in g.who /\ x[2] = g.nr
      BY <2>6 DEF TellInv, TellEnd
    <3>1. x \in owed /\ x = <<x[1], x[2]>> /\ ~(x[1] \in h.who /\ x[2] = h.nr)
      BY <2>6 DEF TellEnd, LSTypeOK
    <3>2. QED
      BY <2>6, <3>1 DEF TellEnd, TellInv
  <2>7. ASSUME NEW h \in handlers, JoinStream(h) PROVE TellInv'
    <3>1. \A g \in handlers : g.at = "tell" => g \in handlers'
      BY <2>7 DEF JoinStream
    <3>2. ASSUME NEW s \in stream
          PROVE  LET t == [s EXCEPT !.viewers = @ \cup h.who]
                 IN  t \in stream' /\ t.nr = s.nr /\ t.viewers = s.viewers \cup h.who
      BY <2>7 DEF JoinStream, LSTypeOK
    <3>3. ASSUME NEW x \in owed PROVE
               \/ \E s \in stream' : x[2] = s.nr /\ x[1] \in s.viewers
               \/ \E g \in handlers' : g.at = "tell" /\ x[1] \in g.who /\ x[2] = g.nr
      BY <3>1, <3>2 DEF TellInv
    <3>4. ASSUME NEW x \in h.who \X Current
          PROVE  \E s \in stream' : x[2] = s.nr /\ x[1] \in s.viewers
      <4>1. PICK s \in stream : x[2] = s.nr
        BY DEF Current
      <4>2. QED
        BY <3>2, <4>1
    <3>5. QED
      BY <2>7, <3>3, <3>4 DEF JoinStream, TellInv
  <2>8. ASSUME NEW h \in handlers, Cleanup(h) PROVE TellInv'
    <3>1. \A g \in handlers : g.at = "tell" => g \in handlers'
      BY <2>8 DEF Cleanup
    <3>2. QED
      BY <2>0, <2>8, <3>1 DEF Cleanup, lsHistory
  <2>9. ASSUME NEW h \in handlers, CleanupViewer(h) PROVE TellInv'
    <3>1. PICK u \in h.who : Unwatch(u)
      BY <2>9 DEF CleanupViewer
    <3>2. u \in Viewers
      BY DEF LSTypeOK
    <3>3. QED
      BY <2>9, <3>1, <3>2, UnwatchTells DEF CleanupViewer
  <2>10. CASE UNCHANGED lsVars
    BY <2>0, <2>10 DEF lsVars, lsHistory
  <2>11. QED
    BY <2>1, <2>2, <2>3, <2>4, <2>5, <2>6, <2>7, <2>8, <2>9, <2>10 DEF LSNext
<1>3. TellInv => ViewersHearOfEnd
  BY DEF TellInv, ViewersHearOfEnd, Current
<1>4. QED
  BY <1>1, <1>2, <1>3, StreamTypes, PTL DEF LSSpec

\* The roster after u is taken off it.
LEMMA UnwatchRoster ==
  ASSUME LSTypeOK, NEW u \in Viewers, Unwatch(u)
  PROVE  Streamer' = Streamer /\ Watching' = Watching \ {u}
<1>1. \A s \in stream : \E t \in stream' : /\ t.streamer = s.streamer
                                             /\ t.viewers = s.viewers \ {u}
  <2>1. ASSUME NEW s \in stream
        PROVE  LET t == [s EXCEPT !.viewers = @ \ {u}]
               IN  t \in stream' /\ t.streamer = s.streamer /\ t.viewers = s.viewers \ {u}
    BY DEF Unwatch, LSTypeOK
  <2>2. QED
    BY <2>1
<1>2. \A t \in stream' : \E s \in stream : /\ t.streamer = s.streamer
                                             /\ t.viewers = s.viewers \ {u}
  BY DEF Unwatch, LSTypeOK
<1>3. /\ \A x : x \in Streamer <=> \E s \in stream : x = s.streamer
      /\ \A x : x \in Streamer' <=> \E t \in stream' : x = t.streamer
  BY DEF Streamer
<1>4. /\ \A x : x \in Watching <=> \E s \in stream : x \in s.viewers
      /\ \A x : x \in Watching' <=> \E t \in stream' : x \in t.viewers
  BY DEF Watching
<1>5. \A x : x \in Streamer' <=> x \in Streamer
  BY <1>1, <1>2, <1>3
<1>6. \A x : x \in Watching' <=> x \in Watching \ {u}
  BY <1>1, <1>2, <1>4
<1>7. QED
  BY <1>5, <1>6

\* Once the threads are done, nobody is on the roster who has no page, but for
\* those whose page closed unnoticed or before their request was served.
THEOREM RosterIsPresent == LSSpec => []NoGhostsLive
<1>1. LSInit => GhostInv
  BY DEF LSInit, GhostInv, Streamer, Watching
<1>2. LSTypeOK /\ GhostInv /\ [LSNext]_lsVars => GhostInv'
  <2> SUFFICES ASSUME LSTypeOK, GhostInv, [LSNext]_lsVars PROVE GhostInv'
    OBVIOUS
  <2> DEFINE Stage(h) == h.at \in {"end", "cleanup", "unwatch"}
  <2>0. ASSUME Streamer' \subseteq Streamer, Watching' \subseteq Watching,
               pages \cup late \subseteq pages' \cup late',
               \A h \in handlers : Stage(h) => h \in handlers',
               \A h \in handlers' \ handlers :
                 h.at \in {"start", "join"} => h.who \subseteq pages \cup late
        PROVE  GhostInv'
    BY <2>0 DEF GhostInv
  <2>1. ASSUME NEW u \in Viewers, AskToStart(u) \/ AskToEnd(u) \/ AskToJoin(u)
        PROVE  GhostInv'
    BY <2>0, <2>1 DEF AskToStart, AskToEnd, AskToJoin, lsHistory, Streamer, Watching, Handler
  <2>2. ASSUME NEW u \in Viewers, OpenPage(u) PROVE GhostInv'
    BY <2>0, <2>2 DEF OpenPage, lsHistory, Streamer, Watching
  <2>3. ASSUME NEW u \in Viewers, LeaveStream(u) PROVE GhostInv'
    BY <2>0, <2>3, UnwatchRoster DEF LeaveStream
  <2>4. ASSUME NEW u \in Viewers, NEW noticed \in BOOLEAN, ClosePage(u, noticed) PROVE GhostInv'
    <3>1. Streamer' = Streamer /\ Watching' = Watching
      BY <2>4 DEF ClosePage, Streamer, Watching
    <3>2. handlers \subseteq handlers' /\ pages' = pages \ {u} /\ late \subseteq late'
      BY <2>4 DEF ClosePage
    <3>3. \A h \in handlers' \ handlers : h.at = "cleanup" /\ h.who = {u}
      BY <2>4 DEF ClosePage, Handler
    <3>4. u \in late' \/ (/\ \E h \in handlers' : h.at = "cleanup" /\ u \in h.who
                          /\ \A h \in handlers : ~(u \in h.who /\ h.at \in {"start", "join"}))
      <4>1. CASE noticed /\ \A h \in handlers : ~(u \in h.who /\ h.at \in {"start", "join"})
        <5>1. Handler(u, "cleanup", 0) \in handlers'
          BY <2>4, <4>1 DEF ClosePage
        <5>2. Handler(u, "cleanup", 0).at = "cleanup" /\ u \in Handler(u, "cleanup", 0).who
          BY DEF Handler
        <5>3. QED
          BY <4>1, <5>1, <5>2
      <4>2. CASE ~(noticed /\ \A h \in handlers : ~(u \in h.who /\ h.at \in {"start", "join"}))
        BY <2>4, <4>2 DEF ClosePage
      <4>3. QED
        BY <4>1, <4>2
    <3>5. \A h \in handlers' : h.at \in {"start", "join"} => h.who \subseteq pages' \cup late'
      BY <3>2, <3>3, <3>4 DEF GhostInv
    <3>6. \A v \in Streamer \ (pages' \cup late') :
            \E h \in handlers' : h.at = "end" \/ (h.at = "cleanup" /\ v \in h.who)
      BY <3>2, <3>4 DEF GhostInv
    <3>7. \A v \in Watching \ (pages' \cup late') :
            \E h \in handlers' : h.at = "end" \/ (h.at \in {"cleanup", "unwatch"} /\ v \in h.who)
      BY <3>2, <3>4 DEF GhostInv
    <3>8. QED
      BY <3>1, <3>5, <3>6, <3>7 DEF GhostInv
  <2>5. ASSUME NEW h \in handlers, GoLive(h) PROVE GhostInv'
    <3>1. Watching' = Watching /\ Streamer' \subseteq Streamer \cup h.who
      BY <2>5 DEF GoLive, Watching, Streamer
    <3>2. h.who \subseteq pages \cup late /\ UNCHANGED <<pages, late>>
      BY <2>5 DEF GoLive, GhostInv, lsHistory
    <3>3. handlers' = handlers \ {h} /\ ~Stage(h)
      BY <2>5 DEF GoLive
    <3>4. QED
      BY <3>1, <3>2, <3>3 DEF GhostInv
  <2>6. ASSUME NEW h \in handlers, EndStream(h) PROVE GhostInv'
    <3>1. Streamer' = {} /\ Watching' = {}
      BY <2>6 DEF EndStream, Streamer, Watching
    <3>2. \A g \in handlers' : g \in handlers \/ g.at = "tell"
      BY <2>6 DEF EndStream
    <3>3. QED
      BY <2>6, <3>1, <3>2 DEF GhostInv, EndStream, lsHistory
  <2>7. ASSUME NEW h \in handlers, TellEnd(h) PROVE GhostInv'
    BY <2>0, <2>7 DEF TellEnd, Streamer, Watching
  <2>8. ASSUME NEW h \in handlers, JoinStream(h) PROVE GhostInv'
    <3>1. Streamer' = Streamer /\ Watching' \subseteq Watching \cup h.who
      <4>1. \A s \in stream : \E t \in stream' : t.streamer = s.streamer
        <5>1. ASSUME NEW s \in stream
              PROVE  LET t == [s EXCEPT !.viewers = @ \cup h.who]
                     IN  t \in stream' /\ t.streamer = s.streamer
          BY <2>8 DEF JoinStream, LSTypeOK
        <5>2. QED
          BY <5>1
      <4>2. \A t \in stream' : \E s \in stream : /\ t.streamer = s.streamer
                                                  /\ t.viewers = s.viewers \cup h.who
        BY <2>8 DEF JoinStream, LSTypeOK
      <4>3. Streamer' = Streamer
        <5>1. /\ \A x : x \in Streamer <=> \E s \in stream : x = s.streamer
              /\ \A x : x \in Streamer' <=> \E t \in stream' : x = t.streamer
          BY DEF Streamer
        <5>2. \A x : x \in Streamer' <=> x \in Streamer
          BY <4>1, <4>2, <5>1
        <5>3. QED
          BY <5>2
      <4>4. Watching' \subseteq Watching \cup h.who
        BY <4>2 DEF Watching
      <4>5. QED
        BY <4>3, <4>4
    <3>2. h.who \subseteq pages \cup late /\ UNCHANGED <<pages, late>>
      BY <2>8 DEF JoinStream, GhostInv
    <3>3. handlers' = handlers \ {h} /\ ~Stage(h)
      BY <2>8 DEF JoinStream
    <3>4. QED
      BY <3>1, <3>2, <3>3 DEF GhostInv
  <2>9. ASSUME NEW h \in handlers, Cleanup(h) PROVE GhostInv'
    <3>1. PICK u \in h.who :
            handlers' = (handlers \ {h}) \cup {Handler(u, at, 0) : at \in Cleaned(u)}
      BY <2>9 DEF Cleanup
    <3>2. h.at = "cleanup" /\ h.who = {u}
      BY <2>9, <3>1 DEF Cleanup, LSTypeOK
    <3>3. Streamer' = Streamer /\ Watching' = Watching /\ UNCHANGED <<pages, late>>
      BY <2>9 DEF Cleanup, Streamer, Watching, lsHistory
    <3>4. \A g \in handlers' \ handlers : g.at \in {"end", "unwatch"}
      BY <3>1 DEF Cleaned, Handler
    <3>5. ASSUME u \in Streamer PROVE \E g \in handlers' : g.at = "end"
      <4>1. "end" \in Cleaned(u)
        BY <3>5 DEF Cleaned
      <4>2. Handler(u, "end", 0) \in handlers' /\ Handler(u, "end", 0).at = "end"
        BY <3>1, <4>1 DEF Handler
      <4>3. QED
        BY <4>2
    <3>6. ASSUME u \in Watching
          PROVE  \E g \in handlers' : g.at = "end" \/ (g.at = "unwatch" /\ u \in g.who)
      <4>1. CASE u \in Streamer
        BY <3>5, <4>1
      <4>2. CASE u \notin Streamer
        <5>1. "unwatch" \in Cleaned(u)
          BY <3>6, <4>2 DEF Cleaned
        <5>2. /\ Handler(u, "unwatch", 0) \in handlers'
              /\ Handler(u, "unwatch", 0).at = "unwatch" /\ u \in Handler(u, "unwatch", 0).who
          BY <3>1, <5>1 DEF Handler
        <5>3. QED
          BY <5>2
      <4>3. QED
        BY <4>1, <4>2
    <3>7. \A g \in handlers : g # h => g \in handlers'
      BY <3>1
    <3>8. QED
      BY <3>2, <3>3, <3>4, <3>5, <3>6, <3>7 DEF GhostInv
  <2>10. ASSUME NEW h \in handlers, CleanupViewer(h) PROVE GhostInv'
    <3>1. PICK u \in h.who : Unwatch(u)
      BY <2>10 DEF CleanupViewer
    <3>2. h.at = "unwatch" /\ h.who = {u} /\ u \in Viewers
      BY <2>10, <3>1 DEF CleanupViewer, LSTypeOK
    <3>3. Streamer' = Streamer /\ Watching' = Watching \ {u}
      BY <3>1, <3>2, UnwatchRoster
    <3>4. handlers' = handlers \ {h} /\ UNCHANGED <<pages, late>>
      BY <2>10 DEF CleanupViewer
    <3>5. QED
      BY <3>2, <3>3, <3>4 DEF GhostInv
  <2>11. CASE UNCHANGED lsVars
    BY <2>11 DEF lsVars, lsHistory, GhostInv, Streamer, Watching
  <2>12. QED
    BY <2>1, <2>2, <2>3, <2>4, <2>5, <2>6, <2>7, <2>8, <2>9, <2>10, <2>11 DEF LSNext
<1>3. GhostInv => NoGhostsLive
  BY DEF GhostInv, NoGhostsLive
<1>4. QED
  BY <1>1, <1>2, <1>3, StreamTypes, PTL DEF LSSpec

------------------------------------------------------------------------------
(* Presence and the poll loops: types *)

\* What becomes of a sequence that loses its first element.
LEMMA TailOf ==
  ASSUME NEW S, NEW s \in Seq(S), s # <<>>
  PROVE  /\ Head(s) \in S /\ Tail(s) \in Seq(S)
         /\ Len(s) \in Nat \ {0}
         /\ Len(s) = 1 <=> Tail(s) = <<>>
<1>1. /\ Head(s) \in S /\ Tail(s) \in Seq(S) /\ Len(Tail(s)) = Len(s) - 1
  BY HeadTailProperties
<1>2. Len(s) \in Nat \ {0}
  BY LenProperties, EmptySeq
<1>3. Tail(s) = <<>> <=> Len(Tail(s)) = 0
  BY <1>1, EmptySeq
<1>4. QED
  BY <1>1, <1>2, <1>3

\* A thread goes on in a state that is one of a thread.
LEMMA GoesTypes ==
  ASSUME WPTypeOK, NEW t \in Tabs, NEW state \in Threads, Goes(t, state),
         state.at = "emit" <=> state.buf # <<>>
  PROVE  /\ thread' \in [Tabs -> Threads]
         /\ \A u \in Tabs : thread'[u].at = "emit" <=> thread'[u].buf # <<>>
BY DEF WPTypeOK, Goes

\* A thread that has nothing in hand.
LEMMA BusyTypes ==
  ASSUME NEW at \in {"free", "check", "start", "answer", "join", "flush", "leave"},
         NEW for \in {"login", "open", "close", "page"}
  PROVE  /\ Busy(at, for) \in Threads
         /\ Busy(at, for).at = at /\ Busy(at, for).for = for /\ Busy(at, for).buf = <<>>
<1>1. <<>> \in Seq(Events)
  OBVIOUS
<1>2. QED
  BY <1>1 DEF Busy, Threads

\* A thread that has its messenger, and one that is free.
LEMMA AfterTypes ==
  ASSUME NEW for \in {"login", "open", "close", "page"}
  PROVE  /\ After(for) \in Threads /\ After(for).for = for /\ After(for).buf = <<>>
         /\ After(for).at = IF for = "login" THEN "answer" ELSE IF for = "open" THEN "join"
                            ELSE IF for = "close" THEN "leave" ELSE "free"
         /\ Free \in Threads /\ Free.at = "free" /\ Free.for = "page" /\ Free.buf = <<>>
<1>1. <<>> \in Seq(Events)
  OBVIOUS
<1>2. Free \in Threads /\ Free.at = "free" /\ Free.for = "page" /\ Free.buf = <<>>
  BY <1>1 DEF Free, Threads
<1>3. QED
  BY <1>2, BusyTypes DEF After

\* What get_messenger does to the thread that asks for it.
LEMMA MessengerTypes ==
  ASSUME WPTypeOK, NEW t \in Tabs, NEW for \in {"login", "open", "close", "page"}, NEW usv,
         HasMessenger(t, for, usv) \/ Restore(t, for, usv)
  PROVE  /\ known' = TRUE /\ usv = version
         /\ thread' \in [Tabs -> Threads]
         /\ \A u \in Tabs : thread'[u].at = "emit" <=> thread'[u].buf # <<>>
<1>1. CASE HasMessenger(t, for, usv)
  <2>1. After(for) \in Threads /\ After(for).at # "emit" /\ After(for).buf = <<>>
    BY AfterTypes
  <2>2. QED
    BY <1>1, <2>1, GoesTypes DEF HasMessenger, WPTypeOK
<1>2. CASE Restore(t, for, usv)
  <2>1. Busy("check", for) \in Threads /\ Busy("check", for).at # "emit"
        /\ Busy("check", for).buf = <<>>
    BY BusyTypes
  <2>2. QED
    BY <1>2, <2>1, GoesTypes DEF Restore
<1>3. QED
  BY <1>1, <1>2

\* A page that shows an event has a sequence of events still.
LEMMA ShownTypes ==
  ASSUME WPTypeOK, NEW event \in Events
  PROVE  Shown(event) \in [Tabs -> Seq(Events)]
<1>1. ASSUME NEW t \in Tabs PROVE Append(screen[t], event) \in Seq(Events)
  BY AppendProperties DEF WPTypeOK
<1>2. QED
  BY <1>1 DEF Shown, WPTypeOK

\* Every state has the types of WPTypeOK.
THEOREM PresenceTypes == WPSpec => []WPTypeOK
<1>0. /\ <<>> \in Seq(Events)
      /\ NoLoop \in LoopStates /\ NoLoop.at = "none" /\ NoLoop.hand = <<>>
      /\ Free \in Threads /\ Free.at = "free" /\ Free.buf = <<>>
      /\ Closed.at = "closed" /\ Closed.usv = NoCookie /\ Closed.joined = FALSE
      /\ DOMAIN Closed = {"at", "usv", "joined"}
  BY AfterTypes DEF NoLoop, LoopStates, Closed
<1>1. WPInit => WPTypeOK
  <2> SUFFICES ASSUME WPInit PROVE WPTypeOK
    OBVIOUS
  <2>1. Closed \in Sockets
    BY DEF WPInit, Closed, Sockets, NoCookie
  <2>2. relay \in Seq(Events)
    <3>1. [n \in 1 .. MaxEvents |-> n] \in Seq(Events)
      BY PresenceAssumption, IsASeq DEF Events
    <3>2. QED
      BY <3>1 DEF WPInit, Events
  <2>3. /\ loops \in [1 .. MaxLoops -> LoopStates]
        /\ \A l \in 1 .. MaxLoops : loops[l].at \in {"poll", "emit"} <=> loops[l].hand # <<>>
    BY <1>0 DEF WPInit, NoLoops
  <2>4. /\ thread \in [Tabs -> Threads]
        /\ \A t \in Tabs : thread[t].at = "emit" <=> thread[t].buf # <<>>
    BY <1>0 DEF WPInit
  <2>5. cookie \in [Tabs -> NoCookie .. version]
    BY DEF WPInit, NoCookie
  <2>6. QED
    BY <1>0, <2>1, <2>2, <2>3, <2>4, <2>5 DEF WPInit, WPTypeOK
<1>2. WPTypeOK /\ [WPNext]_wpVars => WPTypeOK'
  <2> SUFFICES ASSUME WPTypeOK, [WPNext]_wpVars PROVE WPTypeOK'
    OBVIOUS
  <2> USE DEF browser, wpHistory
  <2>1. ASSUME NEW t \in Tabs, Request(t) PROVE WPTypeOK'
    <3>1. /\ thread' \in [Tabs -> Threads] /\ known' = TRUE
          /\ \A u \in Tabs : thread'[u].at = "emit" <=> thread'[u].buf # <<>>
      BY <2>1, MessengerTypes DEF Request
    <3>2. QED
      BY <2>1, <3>1 DEF Request, WPTypeOK, Sockets
  <2>2. ASSUME NEW t \in Tabs, Login(t) PROVE WPTypeOK'
    <3>1. /\ thread' \in [Tabs -> Threads]
          /\ \A u \in Tabs : thread'[u].at = "emit" <=> thread'[u].buf # <<>>
      BY <2>2, BusyTypes, GoesTypes DEF Login
    <3>2. QED
      BY <2>2, <3>1 DEF Login, WPTypeOK, Sockets
  <2>3. ASSUME NEW t \in Tabs, LoginAnswer(t) PROVE WPTypeOK'
    <3>1. /\ thread' \in [Tabs -> Threads]
          /\ \A u \in Tabs : thread'[u].at = "emit" <=> thread'[u].buf # <<>>
      BY <1>0, <2>3, GoesTypes DEF LoginAnswer
    <3>2. cookie' \in [Tabs -> NoCookie .. version]
      BY <2>3 DEF LoginAnswer, WPTypeOK, NoCookie
    <3>3. QED
      BY <2>3, <3>1, <3>2 DEF LoginAnswer, WPTypeOK, Sockets
  <2>4. ASSUME version' = version + 1, UNCHANGED socket,
               cookie' \in [Tabs -> NoCookie .. version]
        PROVE  /\ version' \in Nat /\ socket' \in [Tabs -> Sockets']
               /\ cookie' \in [Tabs -> NoCookie .. version']
    <3>1. /\ version \in Nat /\ version' \in Nat
          /\ NoCookie .. version \subseteq NoCookie .. version'
      BY <2>4 DEF WPTypeOK, NoCookie
    <3>2. Sockets \subseteq Sockets'
      BY <3>1 DEF Sockets
    <3>3. QED
      BY <2>4, <3>1, <3>2 DEF WPTypeOK
  <2>5. ASSUME NEW t \in Tabs, Logout(t) PROVE WPTypeOK'
    <3>1. cookie' \in [Tabs -> NoCookie .. version]
      BY <2>5 DEF Logout, WPTypeOK, NoCookie, Revoke
    <3>2. QED
      BY <2>4, <2>5, <3>1 DEF Logout, WPTypeOK, Revoke
  <2>6. ASSUME NEW t \in Tabs, StartCheck(t) PROVE WPTypeOK'
    <3>1. thread[t].for \in {"login", "open", "close", "page"}
      BY DEF WPTypeOK, Threads
    <3> DEFINE state == IF running THEN After(thread[t].for) ELSE Busy("start", thread[t].for)
    <3>2. state \in Threads /\ state.at # "emit" /\ state.buf = <<>>
      BY <3>1, AfterTypes, BusyTypes
    <3>3. Goes(t, state)
      BY <2>6 DEF StartCheck
    <3> HIDE DEF state
    <3>4. /\ thread' \in [Tabs -> Threads]
          /\ \A u \in Tabs : thread'[u].at = "emit" <=> thread'[u].buf # <<>>
      BY <3>2, <3>3, GoesTypes
    <3>5. QED
      BY <2>6, <3>4 DEF StartCheck, WPTypeOK, Sockets
  <2>7. ASSUME NEW t \in Tabs, StartLoop(t) PROVE WPTypeOK'
    <3>1. thread[t].for \in {"login", "open", "close", "page"}
      BY DEF WPTypeOK, Threads
    <3>2. /\ thread' \in [Tabs -> Threads]
          /\ \A u \in Tabs : thread'[u].at = "emit" <=> thread'[u].buf # <<>>
      BY <2>7, <3>1, AfterTypes, GoesTypes DEF StartLoop
    <3>3. PICK l \in 1 .. MaxLoops : loops' = [loops EXCEPT ![l] = [at |-> "top", hand |-> <<>>]]
      BY <2>7 DEF StartLoop
    <3>4. /\ loops' \in [1 .. MaxLoops -> LoopStates]
          /\ \A k \in 1 .. MaxLoops : loops'[k].at \in {"poll", "emit"} <=> loops'[k].hand # <<>>
      BY <1>0, <3>3 DEF WPTypeOK, LoopStates
    <3>5. QED
      BY <2>7, <3>2, <3>4 DEF StartLoop, WPTypeOK, Sockets
  <2>8. ASSUME NEW t \in Tabs, Connect(t) PROVE WPTypeOK'
    <3>1. /\ thread' \in [Tabs -> Threads] /\ known' \in BOOLEAN
          /\ \A u \in Tabs : thread'[u].at = "emit" <=> thread'[u].buf # <<>>
      <4>1. CASE HasMessenger(t, "open", cookie[t]) \/ Restore(t, "open", cookie[t])
        BY <4>1, MessengerTypes
      <4>2. CASE NoMessenger(cookie[t]) /\ UNCHANGED <<known, thread>>
        BY <4>2 DEF WPTypeOK
      <4>3. QED
        BY <2>8, <4>1, <4>2 DEF Connect
    <3>2. socket' \in [Tabs -> Sockets]
      BY <2>8 DEF Connect, WPTypeOK, Sockets, Opened
    <3>3. unheard' \in Nat
      BY <2>8 DEF Connect, WPTypeOK
    <3>4. QED
      BY <2>8, <3>1, <3>2, <3>3 DEF Connect, WPTypeOK, Sockets
  <2>9. ASSUME NEW t \in Tabs, Join(t) PROVE WPTypeOK'
    <3>1. /\ thread' \in [Tabs -> Threads]
          /\ \A u \in Tabs : thread'[u].at = "emit" <=> thread'[u].buf # <<>>
      BY <2>9, BusyTypes, GoesTypes DEF Join
    <3>2. socket' \in [Tabs -> Sockets]
      <4>1. socket' = [socket EXCEPT ![t].joined = TRUE]
        BY <2>9 DEF Join
      <4>2. \A x \in Sockets : [x EXCEPT !.joined = TRUE] \in Sockets
        BY DEF Sockets
      <4>3. QED
        BY <4>1, <4>2 DEF WPTypeOK
    <3>3. online' \in Nat
      BY <2>9 DEF Join, WPTypeOK
    <3>4. QED
      BY <2>9, <3>1, <3>2, <3>3 DEF Join, WPTypeOK, Sockets
  <2>10. ASSUME NEW t \in Tabs, TakeBuffer(t) PROVE WPTypeOK'
    <3> DEFINE state == IF buffer = <<>> THEN Free
                        ELSE [at |-> "emit", for |-> "open", buf |-> buffer]
    <3>1. state \in Threads /\ (state.at = "emit" <=> state.buf # <<>>)
      BY <1>0 DEF WPTypeOK, Threads
    <3>2. Goes(t, state)
      BY <2>10 DEF TakeBuffer
    <3> HIDE DEF state
    <3>3. /\ thread' \in [Tabs -> Threads]
          /\ \A u \in Tabs : thread'[u].at = "emit" <=> thread'[u].buf # <<>>
      BY <3>1, <3>2, GoesTypes
    <3>4. QED
      BY <1>0, <2>10, <3>3 DEF TakeBuffer, WPTypeOK, Sockets
  <2>11. ASSUME NEW t \in Tabs, EmitTaken(t) PROVE WPTypeOK'
    <3> DEFINE buf == thread[t].buf
               state == IF Len(buf) = 1 THEN Free ELSE [thread[t] EXCEPT !.buf = Tail(@)]
    <3>1. buf \in Seq(Events) /\ buf # <<>> /\ thread[t] \in Threads /\ thread[t].at = "emit"
      BY <2>11 DEF EmitTaken, WPTypeOK, Threads
    <3>2. /\ Head(buf) \in Events /\ Tail(buf) \in Seq(Events)
          /\ Len(buf) = 1 <=> Tail(buf) = <<>>
      BY <3>1, TailOf
    <3>3. state \in Threads /\ (state.at = "emit" <=> state.buf # <<>>)
      BY <1>0, <3>1, <3>2 DEF Threads
    <3>4. Goes(t, state) /\ screen' = Shown(Head(buf))
      BY <2>11 DEF EmitTaken
    <3> HIDE DEF state, buf
    <3>5. /\ thread' \in [Tabs -> Threads]
          /\ \A u \in Tabs : thread'[u].at = "emit" <=> thread'[u].buf # <<>>
          /\ screen' \in [Tabs -> Seq(Events)]
      BY <3>2, <3>3, <3>4, GoesTypes, ShownTypes
    <3>6. QED
      BY <2>11, <3>5 DEF EmitTaken, WPTypeOK, Sockets
  <2>12. ASSUME NEW t \in Tabs, Break(t) PROVE WPTypeOK'
    <3>1. socket' \in [Tabs -> Sockets]
      BY <2>12 DEF Break, WPTypeOK, Sockets
    <3>2. QED
      BY <2>12, <3>1 DEF Break, WPTypeOK, Sockets, server
  <2>13. \A t \in Tabs : [socket EXCEPT ![t] = Closed] \in [Tabs -> Sockets]
    <3>1. Closed \in Sockets
      BY DEF WPTypeOK, Sockets, Closed, NoCookie
    <3>2. QED
      BY <3>1 DEF WPTypeOK
  <2>14. ASSUME NEW t \in Tabs, Disconnect(t) PROVE WPTypeOK'
    <3>1. CASE /\ HasMessenger(t, "close", socket[t].usv) \/ Restore(t, "close", socket[t].usv)
               /\ UNCHANGED socket
      <4>1. /\ thread' \in [Tabs -> Threads] /\ known' = TRUE
            /\ \A u \in Tabs : thread'[u].at = "emit" <=> thread'[u].buf # <<>>
        BY <3>1, MessengerTypes
      <4>2. QED
        BY <2>14, <3>1, <4>1 DEF Disconnect, WPTypeOK, Sockets
    <3>2. CASE /\ NoMessenger(socket[t].usv)
               /\ socket' = [socket EXCEPT ![t] = Closed]
               /\ UNCHANGED <<known, thread>>
      BY <2>13, <2>14, <3>2 DEF Disconnect, WPTypeOK, Sockets
    <3>3. QED
      BY <2>14, <3>1, <3>2 DEF Disconnect
  <2>15. ASSUME NEW t \in Tabs, Leave(t) PROVE WPTypeOK'
    <3>1. /\ thread' \in [Tabs -> Threads]
          /\ \A u \in Tabs : thread'[u].at = "emit" <=> thread'[u].buf # <<>>
      BY <1>0, <2>15, GoesTypes DEF Leave
    <3>2. online' \in Nat
      BY <2>15 DEF Leave, WPTypeOK
    <3>3. QED
      BY <2>13, <2>15, <3>1, <3>2 DEF Leave, WPTypeOK, Sockets
  <2>16. ASSUME NEW l \in 1 .. MaxLoops, LoopEnd(l) PROVE WPTypeOK'
    BY <1>0, <2>16 DEF LoopEnd, WPTypeOK, Sockets
  <2>17. ASSUME NEW l \in 1 .. MaxLoops, LoopPoll(l) PROVE WPTypeOK'
    <3> DEFINE hand == Append(loops[l].hand, Head(relay))
    <3>1. relay \in Seq(Events) /\ relay # <<>> /\ loops[l].hand \in Seq(Events)
      BY <2>17 DEF LoopPoll, WPTypeOK, LoopStates
    <3>2. Head(relay) \in Events /\ Tail(relay) \in Seq(Events)
      BY <3>1, TailOf
    <3>3. hand \in Seq(Events) /\ hand # <<>>
      BY <3>1, <3>2, AppendProperties
    <3>4. loops' = [loops EXCEPT ![l] = [at |-> "poll", hand |-> hand]]
      BY <2>17 DEF LoopPoll, WPTypeOK
    <3> HIDE DEF hand
    <3>5. /\ loops' \in [1 .. MaxLoops -> LoopStates]
          /\ \A k \in 1 .. MaxLoops : loops'[k].at \in {"poll", "emit"} <=> loops'[k].hand # <<>>
      BY <3>3, <3>4 DEF WPTypeOK, LoopStates
    <3>6. QED
      BY <2>17, <3>2, <3>5 DEF LoopPoll, WPTypeOK, Sockets
  <2>18. ASSUME NEW l \in 1 .. MaxLoops, LoopEmit(l) PROVE WPTypeOK'
    <3> DEFINE hand == loops[l].hand
               state == [at |-> IF Len(hand) = 1 THEN "top" ELSE "emit", hand |-> Tail(hand)]
    <3>1. hand \in Seq(Events) /\ hand # <<>>
      BY <2>18 DEF LoopEmit, WPTypeOK, LoopStates
    <3>2. /\ Head(hand) \in Events /\ Tail(hand) \in Seq(Events)
          /\ Len(hand) = 1 <=> Tail(hand) = <<>>
      BY <3>1, TailOf
    <3>3. state \in LoopStates /\ (state.at \in {"poll", "emit"} <=> state.hand # <<>>)
      BY <3>2 DEF LoopStates
    <3>4. loops' = [loops EXCEPT ![l] = state]
      BY <2>18 DEF LoopEmit, WPTypeOK
    <3>5. buffer' \in Seq(Events) /\ screen' \in [Tabs -> Seq(Events)]
      <4>1. Append(buffer, Head(hand)) \in Seq(Events)
        BY <3>2, AppendProperties DEF WPTypeOK
      <4>2. QED
        BY <2>18, <3>2, <4>1, ShownTypes DEF LoopEmit, WPTypeOK
    <3> HIDE DEF hand, state
    <3>6. /\ loops' \in [1 .. MaxLoops -> LoopStates]
          /\ \A k \in 1 .. MaxLoops : loops'[k].at \in {"poll", "emit"} <=> loops'[k].hand # <<>>
      BY <3>3, <3>4 DEF WPTypeOK
    <3>7. QED
      BY <2>18, <3>5, <3>6 DEF LoopEmit, WPTypeOK, Sockets
  <2>19. CASE BlockSave
    BY <2>19 DEF BlockSave, WPTypeOK, Sockets
  <2>20. CASE BlockStop
    BY <2>20 DEF BlockStop, WPTypeOK, Sockets
  <2>21. CASE BlockRevoke
    <3>1. cookie' \in [Tabs -> NoCookie .. version]
      BY <2>21 DEF BlockRevoke, WPTypeOK, Revoke
    <3>2. QED
      BY <2>4, <2>21, <3>1 DEF BlockRevoke, WPTypeOK, Revoke
  <2>22. CASE Unblock
    BY <2>22 DEF Unblock, WPTypeOK, Sockets
  <2>23. CASE ServerRestart
    <3>1. Closed \in Sockets
      BY DEF WPTypeOK, Sockets, Closed, NoCookie
    <3>2. QED
      BY <1>0, <2>23, <3>1 DEF ServerRestart, WPTypeOK, Sockets, NoLoops
  <2>24. CASE UNCHANGED wpVars
    BY <2>24 DEF wpVars, server, WPTypeOK, Sockets
  <2>25. QED
    BY <2>1, <2>2, <2>3, <2>5, <2>6, <2>7, <2>8, <2>9, <2>10, <2>11, <2>12, <2>14, <2>15,
       <2>16, <2>17, <2>18, <2>19, <2>20, <2>21, <2>22, <2>23, <2>24
       DEF WPNext, TabStep, LoopStep
<1>3. QED
  BY <1>1, <1>2, PTL DEF WPSpec

------------------------------------------------------------------------------
(* The count of connected sockets *)

\* The sockets that joined can be counted, and change one at a time.
LEMMA JoinedCount ==
  ASSUME WPTypeOK, NEW t \in Tabs, NEW s,
         socket' = [socket EXCEPT ![t] = s], s.joined \in BOOLEAN
  PROVE  /\ Cardinality(Joined) \in Nat
         /\ Cardinality(Joined') = Cardinality(Joined)
              + (IF s.joined THEN 1 ELSE 0) - (IF socket[t].joined THEN 1 ELSE 0)
<1>1. Joined \in SUBSET Tabs /\ t \in Tabs
  BY DEF Joined
<1>2. IsFiniteSet(Joined) /\ Cardinality(Joined) \in Nat
  BY <1>1, PresenceAssumption, FS_Subset, FS_CardinalityType
<1>3. socket[t].joined \in BOOLEAN
  BY DEF WPTypeOK, Sockets
<1>4. CASE s.joined /\ ~socket[t].joined
  <2>1. Joined' = Joined \cup {t} /\ t \notin Joined
    BY <1>4 DEF Joined, WPTypeOK
  <2>2. Cardinality(Joined \cup {t}) = Cardinality(Joined) + 1
    BY <1>2, <2>1, FS_AddElement
  <2>3. QED
    BY <1>2, <1>4, <2>1, <2>2
<1>5. CASE ~s.joined /\ socket[t].joined
  <2>1. Joined' = Joined \ {t} /\ t \in Joined
    BY <1>5 DEF Joined, WPTypeOK
  <2>2. Cardinality(Joined \ {t}) = Cardinality(Joined) - 1
    BY <1>2, <2>1, FS_RemoveElement
  <2>3. QED
    BY <1>2, <1>5, <2>1, <2>2
<1>6. CASE s.joined <=> socket[t].joined
  <2>1. Joined' = Joined
    BY <1>6 DEF Joined, WPTypeOK
  <2>2. QED
    BY <1>2, <1>3, <1>6, <2>1
<1>7. QED
  BY <1>3, <1>4, <1>5, <1>6

\* Where no socket changes, the count and the threads of connects decide.
LEMMA JoinedStays ==
  ASSUME UNCHANGED socket
  PROVE  Joined' = Joined
BY DEF Joined

\* A step of one browser leaves the sockets and the threads of the others.
LEMMA OneTabStep ==
  ASSUME WPTypeOK, WPTypeOK', SocketInv, NEW t \in Tabs,
         \A u \in Tabs : u # t => thread'[u] = thread[u] /\ socket'[u] = socket[u],
         UNCHANGED <<version, revoked>>, known => known', unheard <= unheard', SocketOk(t)'
  PROVE  SocketInv'
<1>1. ASSUME NEW u \in Tabs, u # t PROVE SocketOk(u)'
  <2>1. /\ version \in Nat /\ version' \in Nat /\ socket[u].usv \in Int
        /\ unheard \in Nat /\ unheard' \in Nat
    BY DEF WPTypeOK, Sockets, NoCookie
  <2>2. SocketOk(u) /\ thread'[u] = thread[u] /\ socket'[u] = socket[u]
    BY <1>1 DEF SocketInv
  <2>3. unheard' = 0 => unheard = 0
    BY <2>1
  <2>4. QED
    BY <2>1, <2>2, <2>3 DEF SocketOk
<1>2. QED
  BY <1>1 DEF SocketInv

\* A step that touches no socket and no thread.
LEMMA NoTabStep ==
  ASSUME WPTypeOK, WPTypeOK', SocketInv, UNCHANGED <<thread, socket, unheard, known>>,
         UNCHANGED <<version, revoked>> \/ Revoke
  PROVE  SocketInv'
<1>1. ASSUME NEW u \in Tabs PROVE SocketOk(u)'
  <2>1. /\ version \in Nat /\ version' \in Nat /\ version <= version'
        /\ socket[u].usv \in Int
    BY DEF WPTypeOK, Sockets, NoCookie, Revoke
  <2>2. SocketOk(u)
    BY DEF SocketInv
  <2>3. ASSUME ~revoked', thread[u].for = "open" \/ socket[u].joined
        PROVE  UNCHANGED <<version, revoked>>
    <3>1. socket[u].at # "closed"
      BY <2>2, <2>3 DEF SocketOk
    <3>2. socket[u] # Closed
      BY <3>1 DEF Closed
    <3>3. QED
      BY <2>3, <3>2 DEF Revoke
  <2>4. QED
    BY <2>1, <2>2, <2>3 DEF SocketOk
<1>2. QED
  BY <1>1 DEF SocketInv

\* A thread goes on, and the count and the sockets stay.
LEMMA ThreadStep ==
  ASSUME WPTypeOK, WPTypeOK', SocketInv, NEW t \in Tabs, NEW state, Goes(t, state),
         UNCHANGED <<socket, unheard, version, revoked>>, known => known',
         \/ state.for = thread[t].for
         \/ state.for \in {"page", "login"} /\ thread[t].for \in {"page", "login"},
         state.at = "free" => state.for = "page",
         state.at = "answer" => state.for = "login",
         state.at \in {"join", "flush", "emit"} => state.for = "open",
         state.at = "leave" => state.for = "close",
         state.for = "open" =>
           (state.at \in {"flush", "emit"} <=> thread[t].at \in {"flush", "emit"})
  PROVE  SocketInv'
<1>1. \A u \in Tabs : thread'[u] = IF u = t THEN state ELSE thread[u]
  BY DEF Goes, WPTypeOK
<1>2. SocketOk(t)'
  BY <1>1 DEF SocketInv, SocketOk
<1>3. unheard <= unheard'
  BY DEF WPTypeOK
<1>4. QED
  BY <1>1, <1>2, <1>3, OneTabStep

\* What SocketInv says of the threads holds, and with it the count is right.
THEOREM SocketsCounted == WPSpec => [](SocketInv /\ CountsSockets)
<1>0. /\ Closed.at = "closed" /\ Closed.joined = FALSE
      /\ Free.at = "free" /\ Free.for = "page"
  BY DEF Closed, Free
<1>1. WPInit => SocketInv /\ CountsSockets
  <2> SUFFICES ASSUME WPInit PROVE SocketInv /\ CountsSockets
    OBVIOUS
  <2>1. Joined = {} /\ online = 0
    BY <1>0 DEF WPInit, Joined
  <2>2. CountsSockets
    BY <2>1, FS_EmptySet DEF CountsSockets
  <2>3. SocketInv
    BY <1>0 DEF WPInit, SocketInv, SocketOk
  <2>4. QED
    BY <2>2, <2>3
<1>2. WPTypeOK /\ WPTypeOK' /\ SocketInv /\ CountsSockets /\ [WPNext]_wpVars
        => SocketInv' /\ CountsSockets'
  <2> SUFFICES ASSUME WPTypeOK, WPTypeOK', SocketInv, CountsSockets, [WPNext]_wpVars
               PROVE  SocketInv' /\ CountsSockets'
    OBVIOUS
  <2> USE DEF browser, wpHistory
  <2>0. ASSUME UNCHANGED <<socket, online, unheard>>, revoked => revoked' PROVE CountsSockets'
    BY <2>0, JoinedStays DEF CountsSockets
  <2>1. unheard <= unheard /\ version \in Nat
    BY DEF WPTypeOK
  <2>2. ASSUME NEW t \in Tabs, Request(t) \/ Login(t) PROVE SocketInv' /\ CountsSockets'
    <3>1. PICK for \in {"page", "login"} : Goes(t, Busy("check", for))
      BY <2>2 DEF Request, Restore, Login
    <3>2. Busy("check", for).at = "check" /\ Busy("check", for).for = for
      BY DEF Busy
    <3>3. /\ UNCHANGED <<socket, online, unheard, version, revoked>> /\ thread[t].for = "page"
          /\ known'
      BY <1>0, <2>2 DEF Request, Login, Restore
    <3>4. SocketInv'
      BY <3>1, <3>2, <3>3, ThreadStep
    <3>5. QED
      BY <2>0, <3>3, <3>4
  <2>3. ASSUME NEW t \in Tabs, LoginAnswer(t) PROVE SocketInv' /\ CountsSockets'
    <3>1. Goes(t, Free) /\ UNCHANGED <<socket, online, unheard, version, revoked, known>>
      BY <2>3 DEF LoginAnswer
    <3>2. thread[t].for = "login"
      BY <2>3 DEF LoginAnswer, SocketInv, SocketOk
    <3>3. SocketInv'
      BY <1>0, <3>1, <3>2, ThreadStep
    <3>4. QED
      BY <2>0, <3>1, <3>3
  <2>4. ASSUME NEW t \in Tabs, Logout(t) PROVE SocketInv' /\ CountsSockets'
    BY <2>0, <2>4, NoTabStep DEF Logout, Revoke
  <2>5. ASSUME NEW t \in Tabs, StartCheck(t) \/ StartLoop(t) PROVE SocketInv' /\ CountsSockets'
    <3> DEFINE for == thread[t].for
    <3>1. for \in {"login", "open", "close", "page"} /\ thread[t].at \in {"check", "start"}
      BY <2>5 DEF WPTypeOK, Threads, StartCheck, StartLoop
    <3>2. /\ After(for).for = for
          /\ After(for).at = IF for = "login" THEN "answer" ELSE IF for = "open" THEN "join"
                             ELSE IF for = "close" THEN "leave" ELSE "free"
          /\ Busy("start", for).for = for /\ Busy("start", for).at = "start"
      BY <3>1, AfterTypes, BusyTypes
    <3>3. Goes(t, After(for)) \/ Goes(t, Busy("start", for))
      BY <2>5 DEF StartCheck, StartLoop
    <3>4. UNCHANGED <<socket, online, unheard, version, revoked, known>>
      BY <2>5 DEF StartCheck, StartLoop
    <3> HIDE DEF for
    <3>5. SocketInv'
      <4>1. CASE Goes(t, After(for))
        BY <3>1, <3>2, <3>4, <4>1, ThreadStep DEF for
      <4>2. CASE Goes(t, Busy("start", for))
        BY <3>1, <3>2, <3>4, <4>2, ThreadStep DEF for
      <4>3. QED
        BY <3>3, <4>1, <4>2
    <3>6. QED
      BY <2>0, <3>4, <3>5
  <2>6. ASSUME NEW t \in Tabs, Connect(t) PROVE SocketInv' /\ CountsSockets'
    <3>1. /\ socket' = [socket EXCEPT ![t] = Opened(cookie[t])]
          /\ thread[t] = Free /\ socket[t] = Closed
          /\ UNCHANGED <<version, online, revoked>>
          /\ unheard' = unheard + (IF cookie[t] = version /\ ~known' THEN 1 ELSE 0)
      BY <2>6 DEF Connect
    <3>2. /\ Opened(cookie[t]).at = "open" /\ Opened(cookie[t]).joined = FALSE
          /\ Opened(cookie[t]).usv = cookie[t]
      BY DEF Opened
    <3>3. unheard \in Nat /\ unheard <= unheard' /\ (unheard' = 0 => unheard = 0)
      BY <3>1 DEF WPTypeOK
    <3>4. CountsSockets'
      <4>1. /\ Cardinality(Joined) \in Nat
            /\ Cardinality(Joined') = Cardinality(Joined) + 0 - 0
        BY <1>0, <3>1, <3>2, JoinedCount
      <4>2. QED
        BY <3>1, <3>3, <4>1 DEF CountsSockets
    <3>9. known => known'
      BY <2>6 DEF Connect, HasMessenger, Restore
    <3>5. \A u \in Tabs : socket'[u] = IF u = t THEN Opened(cookie[t]) ELSE socket[u]
      BY <3>1 DEF WPTypeOK
    <3>6. CASE HasMessenger(t, "open", cookie[t]) \/ Restore(t, "open", cookie[t])
      <4>1. PICK state \in {After("open"), Busy("check", "open")} : Goes(t, state)
        BY <3>6 DEF HasMessenger, Restore
      <4>2. state.for = "open" /\ state.at \in {"join", "check"}
        BY <4>1, AfterTypes, BusyTypes
      <4>3. \A u \in Tabs : thread'[u] = IF u = t THEN state ELSE thread[u]
        BY <4>1 DEF WPTypeOK, Goes
      <4>4. SocketOk(t)'
        <5>1. known' /\ cookie[t] = version'
          BY <3>1, <3>6 DEF HasMessenger, Restore
        <5>2. QED
          BY <3>2, <3>5, <4>2, <4>3, <5>1 DEF SocketOk
      <4>5. QED
        BY <3>1, <3>3, <3>4, <3>5, <3>9, <4>3, <4>4, OneTabStep
    <3>7. CASE NoMessenger(cookie[t]) /\ UNCHANGED <<known, thread>>
      <4>1. unheard' = 0 => cookie[t] # version
        <5>1. CASE cookie[t] = version
          BY <3>1, <3>3, <3>7, <5>1 DEF NoMessenger
        <5>2. CASE cookie[t] # version
          BY <5>2
        <5>3. QED
          BY <5>1, <5>2
      <4>2. cookie[t] \in NoCookie .. version
        BY DEF WPTypeOK
      <4>3. unheard' = 0 => cookie[t] < version
        BY <2>1, <4>1, <4>2 DEF NoCookie
      <4>4. SocketOk(t)'
        BY <1>0, <3>1, <3>2, <3>5, <3>7, <4>3 DEF SocketOk
      <4>5. QED
        BY <3>1, <3>3, <3>4, <3>5, <3>7, <4>4, OneTabStep
    <3>8. QED
      BY <2>6, <3>6, <3>7 DEF Connect
  <2>7. ASSUME NEW t \in Tabs, Join(t) PROVE SocketInv' /\ CountsSockets'
    <3> DEFINE s == [socket[t] EXCEPT !.joined = TRUE]
    <3>1. /\ socket' = [socket EXCEPT ![t] = s]
          /\ Goes(t, Busy("flush", "open"))
          /\ online' = online + 1 /\ UNCHANGED <<version, revoked, unheard, known>>
      BY <2>7 DEF Join
    <3>2. s.joined = TRUE /\ s.at = socket[t].at /\ s.usv = socket[t].usv
      BY DEF WPTypeOK, Sockets
    <3>3. thread[t].for = "open" /\ socket[t].joined = FALSE /\ socket[t].at # "closed"
      BY <2>7 DEF Join, SocketInv, SocketOk, WPTypeOK, Sockets
    <3> HIDE DEF s
    <3>4. CountsSockets'
      <4>1. /\ Cardinality(Joined) \in Nat
            /\ Cardinality(Joined') = Cardinality(Joined) + 1 - 0
        BY <3>1, <3>2, <3>3, JoinedCount
      <4>2. online \in Nat
        BY DEF WPTypeOK
      <4>3. QED
        BY <3>1, <4>1, <4>2 DEF CountsSockets
    <3>5. \A u \in Tabs : /\ socket'[u] = IF u = t THEN s ELSE socket[u]
                          /\ thread'[u] = IF u = t THEN Busy("flush", "open") ELSE thread[u]
      BY <3>1 DEF WPTypeOK, Goes
    <3>6. SocketOk(t)'
      BY <3>1, <3>2, <3>3, <3>5 DEF SocketInv, SocketOk, Busy
    <3>7. QED
      BY <2>1, <3>1, <3>4, <3>5, <3>6, OneTabStep
  <2>8. ASSUME NEW t \in Tabs, TakeBuffer(t) PROVE SocketInv' /\ CountsSockets'
    <3>1. UNCHANGED <<socket, online, unheard, version, revoked, known>>
      BY <2>8 DEF TakeBuffer
    <3>2. thread[t].at = "flush" /\ thread[t].for = "open"
      BY <2>8 DEF TakeBuffer, SocketInv, SocketOk
    <3>3. \A u \in Tabs : u # t => thread'[u] = thread[u] /\ socket'[u] = socket[u]
      BY <2>8 DEF TakeBuffer, Goes, WPTypeOK
    <3>4. thread'[t] = IF buffer = <<>> THEN Free
                       ELSE [at |-> "emit", for |-> "open", buf |-> buffer]
      BY <2>8 DEF TakeBuffer, Goes, WPTypeOK
    <3>5. SocketOk(t)'
      BY <1>0, <3>1, <3>2, <3>4 DEF SocketInv, SocketOk
    <3>6. QED
      BY <2>0, <2>1, <3>1, <3>3, <3>5, OneTabStep
  <2>9. ASSUME NEW t \in Tabs, EmitTaken(t) PROVE SocketInv' /\ CountsSockets'
    <3>1. UNCHANGED <<socket, online, unheard, version, revoked, known>>
      BY <2>9 DEF EmitTaken
    <3>2. thread[t].at = "emit" /\ thread[t].for = "open"
      BY <2>9 DEF EmitTaken, SocketInv, SocketOk
    <3>3. \A u \in Tabs : u # t => thread'[u] = thread[u] /\ socket'[u] = socket[u]
      BY <2>9 DEF EmitTaken, Goes, WPTypeOK
    <3>4. \/ thread'[t] = Free
          \/ thread'[t].at = "emit" /\ thread'[t].for = "open"
      BY <2>9, <3>2 DEF EmitTaken, Goes, WPTypeOK, Threads
    <3>5. SocketOk(t)'
      BY <1>0, <3>1, <3>2, <3>4 DEF SocketInv, SocketOk
    <3>6. QED
      BY <2>0, <2>1, <3>1, <3>3, <3>5, OneTabStep
  <2>10. ASSUME NEW t \in Tabs, Break(t) PROVE SocketInv' /\ CountsSockets'
    <3> DEFINE s == [socket[t] EXCEPT !.at = "dead"]
    <3>1. /\ socket' = [socket EXCEPT ![t] = s] /\ socket[t].at = "open"
          /\ UNCHANGED <<thread, online, unheard, version, revoked, known>>
      BY <2>10 DEF Break, server
    <3>2. /\ s.at = "dead" /\ s.joined = socket[t].joined /\ s.usv = socket[t].usv
          /\ s.joined \in BOOLEAN
      BY DEF WPTypeOK, Sockets
    <3> HIDE DEF s
    <3>3. CountsSockets'
      <4>1. /\ Cardinality(Joined) \in Nat
            /\ Cardinality(Joined') = Cardinality(Joined)
        <5>1. /\ Cardinality(Joined) \in Nat
              /\ Cardinality(Joined') = Cardinality(Joined)
                   + (IF s.joined THEN 1 ELSE 0) - (IF socket[t].joined THEN 1 ELSE 0)
          BY <3>1, <3>2, JoinedCount
        <5>2. QED
          BY <3>2, <5>1
      <4>2. QED
        BY <3>1, <4>1 DEF CountsSockets
    <3>4. \A u \in Tabs : socket'[u] = IF u = t THEN s ELSE socket[u]
      BY <3>1 DEF WPTypeOK
    <3>5. SocketOk(t)'
      BY <3>1, <3>2, <3>4 DEF SocketInv, SocketOk
    <3>6. QED
      BY <2>1, <3>1, <3>3, <3>4, <3>5, OneTabStep
  <2>11. ASSUME NEW t \in Tabs, Disconnect(t) PROVE SocketInv' /\ CountsSockets'
    <3>1. socket[t].at = "dead" /\ thread[t] = Free /\ UNCHANGED <<version, online, unheard, revoked>>
      BY <2>11 DEF Disconnect
    <3>2. CASE /\ HasMessenger(t, "close", socket[t].usv) \/ Restore(t, "close", socket[t].usv)
               /\ UNCHANGED socket
      <4>1. PICK state \in {After("close"), Busy("check", "close")} :
              Goes(t, state) /\ socket[t].usv = version
        BY <3>2 DEF HasMessenger, Restore
      <4>2. state.for = "close" /\ state.at \in {"leave", "check"}
        BY <4>1, AfterTypes, BusyTypes
      <4>3. \A u \in Tabs : thread'[u] = IF u = t THEN state ELSE thread[u]
        BY <4>1 DEF WPTypeOK, Goes
      <4>4. unheard = 0 => socket[t].joined
        BY <1>0, <2>1, <3>1, <4>1 DEF SocketInv, SocketOk
      <4>7. known'
        BY <3>2 DEF HasMessenger, Restore
      <4>5. SocketOk(t)'
        BY <3>1, <3>2, <4>2, <4>3, <4>4, <4>7 DEF SocketInv, SocketOk
      <4>6. QED
        BY <2>0, <2>1, <3>1, <3>2, <4>3, <4>5, <4>7, OneTabStep
    <3>3. CASE /\ NoMessenger(socket[t].usv)
               /\ socket' = [socket EXCEPT ![t] = Closed]
               /\ UNCHANGED <<known, thread>>
      <4>1. /\ Cardinality(Joined) \in Nat
            /\ Cardinality(Joined') = Cardinality(Joined)
                                        + 0 - (IF socket[t].joined THEN 1 ELSE 0)
        BY <1>0, <3>3, JoinedCount
      <4>2. online \in Nat /\ (socket[t].joined => revoked)
        BY <3>3 DEF WPTypeOK, SocketInv, SocketOk, NoMessenger
      <4>3. CountsSockets'
        BY <3>1, <3>3, <4>1, <4>2 DEF CountsSockets
      <4>4. \A u \in Tabs : socket'[u] = IF u = t THEN Closed ELSE socket[u]
        BY <3>3 DEF WPTypeOK
      <4>5. SocketOk(t)'
        BY <1>0, <3>1, <3>3, <4>4 DEF SocketOk
      <4>6. QED
        BY <2>1, <3>1, <3>3, <4>3, <4>4, <4>5, OneTabStep
    <3>4. QED
      BY <2>11, <3>2, <3>3 DEF Disconnect
  <2>12. ASSUME NEW t \in Tabs, Leave(t) PROVE SocketInv' /\ CountsSockets'
    <3>1. /\ socket' = [socket EXCEPT ![t] = Closed] /\ Goes(t, Free)
          /\ online' = (IF online = 0 THEN 0 ELSE online - 1)
          /\ UNCHANGED <<version, unheard, revoked, known>>
      BY <2>12 DEF Leave
    <3>2. unheard = 0 => socket[t].joined = TRUE
      BY <2>12 DEF Leave, SocketInv, SocketOk, WPTypeOK, Sockets
    <3>3. CountsSockets'
      <4>1. /\ Cardinality(Joined) \in Nat /\ Cardinality(Joined') \in Nat
            /\ Cardinality(Joined') = Cardinality(Joined)
                                        + 0 - (IF socket[t].joined THEN 1 ELSE 0)
        <5>1. /\ Cardinality(Joined) \in Nat
              /\ Cardinality(Joined') = Cardinality(Joined)
                                        + 0 - (IF socket[t].joined THEN 1 ELSE 0)
          BY <1>0, <3>1, JoinedCount
        <5>2. Cardinality(Joined') \in Nat
          <6>1. Joined' \in SUBSET Tabs
            BY DEF Joined
          <6>2. QED
            BY <6>1, PresenceAssumption, FS_Subset, FS_CardinalityType
        <5>3. QED
          BY <5>1, <5>2
      <4>2. online \in Nat
        BY DEF WPTypeOK
      <4>3. QED
        BY <3>1, <3>2, <4>1, <4>2 DEF CountsSockets
    <3>4. \A u \in Tabs : /\ socket'[u] = IF u = t THEN Closed ELSE socket[u]
                          /\ thread'[u] = IF u = t THEN Free ELSE thread[u]
      BY <3>1 DEF WPTypeOK, Goes
    <3>5. SocketOk(t)'
      BY <1>0, <3>4 DEF SocketOk
    <3>6. QED
      BY <2>1, <3>1, <3>3, <3>4, <3>5, OneTabStep
  <2>13. ASSUME NEW l \in 1 .. MaxLoops, LoopStep(l) PROVE SocketInv' /\ CountsSockets'
    <3>1. UNCHANGED <<thread, socket, online, unheard, version, revoked, known>>
      BY <2>13 DEF LoopStep, LoopEnd, LoopPoll, LoopEmit
    <3>2. QED
      BY <2>0, <2>1, <3>1, NoTabStep
  <2>14. CASE BlockSave \/ BlockStop \/ BlockRevoke \/ Unblock \/ UNCHANGED wpVars
    <3>1. /\ UNCHANGED <<thread, socket, online, unheard, known>>
          /\ UNCHANGED <<version, revoked>> \/ Revoke
      BY <2>14 DEF BlockSave, BlockStop, BlockRevoke, Unblock, wpVars, server
    <3>2. revoked => revoked'
      BY <3>1 DEF Revoke
    <3>3. QED
      BY <2>0, <3>1, <3>2, NoTabStep
  <2>15. CASE ServerRestart
    <3>1. Joined' = {} /\ online' = 0
      BY <1>0, <2>15 DEF ServerRestart, Joined
    <3>2. CountsSockets'
      BY <3>1, FS_EmptySet DEF CountsSockets
    <3>3. SocketInv'
      BY <1>0, <2>15 DEF ServerRestart, SocketInv, SocketOk
    <3>4. QED
      BY <3>2, <3>3
  <2>16. QED
    BY <2>2, <2>3, <2>4, <2>5, <2>6, <2>7, <2>8, <2>9, <2>10, <2>11, <2>12, <2>13, <2>14, <2>15
       DEF WPNext, TabStep
<1>3. QED
  BY <1>1, <1>2, PresenceTypes, PTL DEF WPSpec

\* online_sockets is never less than the number of sockets that joined and have not
\* left, and is that number as long as no login was revoked while a page was open;
\* both as long as no socket with a good login opened without a messenger.
THEOREM CountIsRight == WPSpec => []CountsSockets
BY SocketsCounted, PTL

------------------------------------------------------------------------------
(* The buffer *)

\* Nothing waits in the buffer while somebody is connected who has looked there.
LEMMA StuckStep ==
  ASSUME WPTypeOK, SocketInv, CountsSockets, NothingStuck, [WPNext]_wpVars
  PROVE  NothingStuck'
<1> SUFFICES ASSUME unheard' = 0, NEW t \in Tabs, socket'[t].joined, thread'[t].at # "flush"
             PROVE  buffer' = <<>>
  BY DEF NothingStuck, Joined
<1> USE DEF browser, wpHistory
<1>1. unheard \in Nat /\ online \in Nat
  BY DEF WPTypeOK
<1>2. CASE ServerRestart
  BY <1>2 DEF ServerRestart
<1>3. CASE \E u \in Tabs : TakeBuffer(u)
  BY <1>3 DEF TakeBuffer
<1>4. ASSUME UNCHANGED <<socket, thread, unheard, buffer>> PROVE buffer' = <<>>
  BY <1>4 DEF NothingStuck, Joined
<1>5. CASE \/ \E u \in Tabs : Logout(u)
           \/ \E l \in 1 .. MaxLoops : LoopEnd(l) \/ LoopPoll(l)
           \/ BlockSave \/ BlockStop \/ BlockRevoke \/ Unblock
           \/ UNCHANGED wpVars
  <2>1. UNCHANGED <<socket, thread, unheard, buffer>>
    BY <1>5 DEF Logout, LoopEnd, LoopPoll, BlockSave, BlockStop, BlockRevoke, Unblock,
                wpVars, server, Revoke
  <2>2. QED
    BY <1>4, <2>1
<1>6. ASSUME NEW l \in 1 .. MaxLoops, LoopEmit(l) PROVE buffer' = <<>>
  <2>1. UNCHANGED <<socket, thread, unheard>>
    BY <1>6 DEF LoopEmit
  <2>2. online > 0
    <3>1. t \in Joined /\ Joined \in SUBSET Tabs
      BY <2>1 DEF Joined
    <3>2. IsFiniteSet(Joined) /\ Cardinality(Joined) \in Nat
      BY <3>1, PresenceAssumption, FS_Subset, FS_CardinalityType
    <3>3. Cardinality(Joined) # 0
      BY <3>1, <3>2, FS_EmptySet
    <3>4. QED
      BY <1>1, <2>1, <3>2, <3>3 DEF CountsSockets
  <2>3. UNCHANGED buffer
    BY <1>6, <2>2 DEF LoopEmit
  <2>4. QED
    BY <1>4, <2>1, <2>3
<1>7. ASSUME NEW u \in Tabs, TabStep(u), ~TakeBuffer(u), ~Logout(u)
      PROVE  buffer' = <<>>
  <2>1. UNCHANGED buffer /\ unheard = 0
    <3>1. UNCHANGED buffer
      BY <1>7 DEF TabStep, Request, Login, LoginAnswer, StartCheck, StartLoop, Connect, Join,
                  EmitTaken, Break, Disconnect, Leave, server
    <3>2. unheard <= unheard'
      BY <1>1, <1>7 DEF TabStep, Request, Login, LoginAnswer, StartCheck, StartLoop, Connect,
                        Join, EmitTaken, Break, Disconnect, Leave, server
    <3>3. QED
      BY <1>1, <3>1, <3>2
  <2>2. socket[t].joined /\ thread[t].at # "flush"
    <3>1. CASE t # u
      <4>1. socket'[t] = socket[t] /\ thread'[t] = thread[t]
        BY <1>7, <3>1 DEF TabStep, Request, Login, LoginAnswer, StartCheck, StartLoop, Connect,
             Join, EmitTaken, Break, Disconnect, Leave, server, Goes, HasMessenger, Restore,
             WPTypeOK
      <4>2. QED
        BY <4>1
    <3>2. CASE t = u
      <4>1. CASE Connect(t)
        <5>1. socket'[t] = Opened(cookie[t])
          BY <4>1 DEF Connect, WPTypeOK
        <5>2. QED
          BY <5>1 DEF Opened
      <4>2. CASE Join(t)
        <5>1. thread'[t] = Busy("flush", "open")
          BY <4>2 DEF Join, Goes, WPTypeOK
        <5>2. QED
          BY <5>1 DEF Busy
      <4>3. CASE Leave(t)
        <5>1. socket'[t] = Closed
          BY <4>3 DEF Leave, WPTypeOK
        <5>2. QED
          BY <5>1 DEF Closed
      <4>4. CASE Disconnect(t)
        <5>1. socket'[t] = socket[t] \/ socket'[t] = Closed
          BY <4>4 DEF Disconnect, WPTypeOK
        <5>2. thread[t].at = "free"
          BY <4>4 DEF Disconnect, Free
        <5>3. QED
          BY <5>1, <5>2 DEF Closed
      <4>5. CASE Break(t)
        <5>1. socket'[t].joined = socket[t].joined /\ thread' = thread
          BY <4>5 DEF Break, WPTypeOK, Sockets, server
        <5>2. QED
          BY <5>1
      <4>6. CASE \/ Request(t) \/ Login(t) \/ LoginAnswer(t) \/ StartCheck(t)
                 \/ StartLoop(t) \/ EmitTaken(t)
        <5>1. UNCHANGED socket
          BY <4>6 DEF Request, Login, LoginAnswer, StartCheck, StartLoop, EmitTaken
        <5>2. thread[t].at # "flush"
          BY <4>6 DEF Request, Login, LoginAnswer, StartCheck, StartLoop, EmitTaken, Free
        <5>3. QED
          BY <5>1, <5>2
      <4>7. QED
        BY <1>7, <3>2, <4>1, <4>2, <4>3, <4>4, <4>5, <4>6 DEF TabStep
    <3>3. QED
      BY <3>1, <3>2
  <2>3. QED
    BY <2>1, <2>2 DEF NothingStuck, Joined
<1>8. QED
  BY <1>2, <1>3, <1>5, <1>6, <1>7 DEF WPNext, LoopStep

------------------------------------------------------------------------------
(* Events are handed over once *)

\* A sequence without its first element, and with one more at its end.
LEMMA TailOnce ==
  ASSUME NEW S, NEW s \in Seq(S), s # <<>>, Once(s)
  PROVE  /\ Once(Tail(s)) /\ Head(s) \in Elems(s)
         /\ Elems(Tail(s)) = Elems(s) \ {Head(s)}
<1> DEFINE r == Tail(s)
<1>1. /\ r \in Seq(S) /\ Len(r) = Len(s) - 1 /\ Head(s) = s[1]
      /\ \A i \in 1 .. Len(r) : r[i] = s[i + 1]
  BY HeadTailProperties
<1>2. Len(s) \in Nat \ {0} /\ DOMAIN s = 1 .. Len(s) /\ DOMAIN r = 1 .. Len(r)
  BY <1>1, LenProperties, EmptySeq
<1> HIDE DEF r
<1>3. Once(r)
  <2> SUFFICES ASSUME NEW i \in 1 .. Len(r), NEW j \in 1 .. Len(r), r[i] = r[j] PROVE i = j
    BY <1>2 DEF Once
  <2>1. i + 1 \in 1 .. Len(s) /\ j + 1 \in 1 .. Len(s)
    BY <1>1, <1>2
  <2>2. s[i + 1] = s[j + 1]
    BY <1>1
  <2>3. i + 1 = j + 1
    BY <1>2, <2>1, <2>2 DEF Once
  <2> QED
    BY <2>3
<1>4. Head(s) \in Elems(s)
  BY <1>1, <1>2 DEF Elems
<1>5. ASSUME NEW x \in Elems(r) PROVE x \in Elems(s) /\ x # Head(s)
  <2>1. PICK i \in 1 .. Len(r) : x = r[i]
    BY <1>2 DEF Elems
  <2>2. x = s[i + 1] /\ i + 1 \in 1 .. Len(s) /\ i + 1 # 1 /\ 1 \in 1 .. Len(s)
    BY <1>1, <1>2, <2>1
  <2>3. QED
    BY <1>1, <1>2, <2>2 DEF Elems, Once
<1>6. ASSUME NEW x \in Elems(s), x # Head(s) PROVE x \in Elems(r)
  <2>1. PICK i \in 1 .. Len(s) : x = s[i]
    BY <1>2 DEF Elems
  <2>2. i - 1 \in 1 .. Len(r) /\ r[i - 1] = s[(i - 1) + 1] /\ (i - 1) + 1 = i
    BY <1>1, <1>2, <1>6, <2>1
  <2>3. x = r[i - 1] /\ i - 1 \in DOMAIN r
    BY <1>2, <2>1, <2>2
  <2>4. QED
    BY <2>3 DEF Elems
<1>7. QED
  BY <1>3, <1>4, <1>5, <1>6 DEF r

LEMMA AppendOnce ==
  ASSUME NEW S, NEW s \in Seq(S), NEW e \in S, Once(s)
  PROVE  /\ Elems(Append(s, e)) = Elems(s) \cup {e}
         /\ e \notin Elems(s) => Once(Append(s, e))
<1> DEFINE r == Append(s, e)
<1>1. /\ r \in Seq(S) /\ Len(r) = Len(s) + 1
      /\ \A i \in 1 .. Len(s) : r[i] = s[i]
      /\ r[Len(s) + 1] = e
  BY AppendProperties
<1>2. Len(s) \in Nat /\ DOMAIN s = 1 .. Len(s) /\ DOMAIN r = 1 .. Len(r)
  BY <1>1, LenProperties
<1> HIDE DEF r
<1>3. \A i \in DOMAIN r : i \in DOMAIN s \/ i = Len(s) + 1
  BY <1>1, <1>2
<1>4. Elems(r) \subseteq Elems(s) \cup {e}
  BY <1>1, <1>2, <1>3 DEF Elems
<1>5. Elems(s) \cup {e} \subseteq Elems(r)
  <2>1. e \in Elems(r)
    BY <1>1, <1>2 DEF Elems
  <2>2. \A i \in DOMAIN s : i \in DOMAIN r /\ r[i] = s[i]
    BY <1>1, <1>2
  <2>3. QED
    BY <2>1, <2>2 DEF Elems
<1>6. ASSUME e \notin Elems(s) PROVE Once(r)
  BY <1>1, <1>2, <1>3, <1>6 DEF Once, Elems
<1>7. QED
  BY <1>4, <1>5, <1>6 DEF r

\* Nothing is in an empty sequence.
LEMMA NothingHeld == Once(<<>>) /\ Elems(<<>>) = {}
BY DEF Once, Elems

\* What is thrown away is nowhere twice.
LEMMA HeldShrinks ==
  ASSUME HeldOnce, UNCHANGED <<relay, screen>>, buffer' \in {buffer, <<>>},
         \A l \in 1 .. MaxLoops : loops'[l].hand \in {loops[l].hand, <<>>},
         \A t \in Tabs : thread'[t].buf \in {thread[t].buf, <<>>}
  PROVE  HeldOnce'
<1>1. Once(<<>>) /\ \A e : e \notin Elems(<<>>)
  BY NothingHeld
<1>2. /\ Once(relay') /\ Once(buffer') /\ Apart(relay', buffer')
      /\ \A l \in 1 .. MaxLoops :
           /\ Once(loops'[l].hand)
           /\ Apart(loops'[l].hand, relay') /\ Apart(loops'[l].hand, buffer')
  BY <1>1 DEF HeldOnce, Apart
<1>3. \A l, k \in 1 .. MaxLoops : k # l => Apart(loops'[l].hand, loops'[k].hand)
  BY <1>1 DEF HeldOnce, Apart
<1>4. \A t \in Tabs :
        /\ Once(thread'[t].buf)
        /\ Apart(thread'[t].buf, relay') /\ Apart(thread'[t].buf, buffer')
  BY <1>1 DEF HeldOnce, Apart
<1>5. \A t \in Tabs : \A l \in 1 .. MaxLoops : Apart(thread'[t].buf, loops'[l].hand)
  BY <1>1 DEF HeldOnce, Apart
<1>6. \A t, u \in Tabs : u # t => Apart(thread'[t].buf, thread'[u].buf)
  BY <1>1 DEF HeldOnce, Apart
<1>7. \A t \in Tabs :
        /\ Once(screen'[t]) /\ Apart(screen'[t], relay') /\ Apart(screen'[t], buffer')
        /\ \A l \in 1 .. MaxLoops : Apart(screen'[t], loops'[l].hand)
        /\ \A u \in Tabs : Apart(screen'[t], thread'[u].buf)
  BY <1>1 DEF HeldOnce, Apart
<1>8. QED
  BY <1>2, <1>3, <1>4, <1>5, <1>6, <1>7 DEF HeldOnce

\* An event that no page has is on each of them once when it is shown.
LEMMA ShownOnce ==
  ASSUME WPTypeOK, HeldOnce, NEW event \in Events, \A t \in Tabs : event \notin Elems(screen[t]),
         screen' = Shown(event)
  PROVE  \A t \in Tabs : /\ Once(screen'[t])
                         /\ \A e \in Elems(screen'[t]) : e \in Elems(screen[t]) \/ e = event
<1> SUFFICES ASSUME NEW t \in Tabs
             PROVE  /\ Once(screen'[t])
                    /\ \A e \in Elems(screen'[t]) : e \in Elems(screen[t]) \/ e = event
  OBVIOUS
<1>1. screen[t] \in Seq(Events) /\ Once(screen[t])
  BY DEF WPTypeOK, HeldOnce
<1>2. screen'[t] = screen[t] \/ screen'[t] = Append(screen[t], event)
  BY DEF Shown
<1>3. /\ Once(Append(screen[t], event))
      /\ Elems(Append(screen[t], event)) = Elems(screen[t]) \cup {event}
  BY <1>1, AppendOnce
<1>4. QED
  BY <1>1, <1>2, <1>3

\* An event that is polled is in the hand of the loop and with the relay no more.
LEMMA PollOnce ==
  ASSUME WPTypeOK, HeldOnce, NEW l \in 1 .. MaxLoops, LoopPoll(l)
  PROVE  HeldOnce'
<1> DEFINE event == Head(relay)
           hand == Append(loops[l].hand, event)
<1>1. relay \in Seq(Events) /\ relay # <<>> /\ loops[l].hand \in Seq(Events)
  BY DEF LoopPoll, WPTypeOK, LoopStates
<1>2. /\ Once(Tail(relay)) /\ event \in Elems(relay)
      /\ \A e : e \in Elems(Tail(relay)) <=> e \in Elems(relay) /\ e # event
  BY <1>1, TailOnce DEF HeldOnce
<1>3. event \notin Elems(loops[l].hand) /\ event \in Events /\ Once(loops[l].hand)
  BY <1>1, <1>2, TailOf DEF HeldOnce, Apart
<1>4. Once(hand) /\ \A e : e \in Elems(hand) <=> e \in Elems(loops[l].hand) \/ e = event
  <2>1. Once(hand) /\ Elems(hand) = Elems(loops[l].hand) \cup {event}
    BY <1>1, <1>3, AppendOnce
  <2>2. QED
    BY <2>1
<1>5. /\ relay' = Tail(relay) /\ UNCHANGED <<buffer, thread, screen>>
      /\ \A k \in 1 .. MaxLoops : loops'[k].hand = IF k = l THEN hand ELSE loops[k].hand
  BY DEF LoopPoll, WPTypeOK
<1> HIDE DEF event, hand
<1>6. /\ Once(relay') /\ Once(buffer') /\ Apart(relay', buffer')
      /\ \A k \in 1 .. MaxLoops :
           /\ Once(loops'[k].hand)
           /\ Apart(loops'[k].hand, relay') /\ Apart(loops'[k].hand, buffer')
  BY <1>2, <1>4, <1>5 DEF HeldOnce, Apart
<1>7. \A j, k \in 1 .. MaxLoops : k # j => Apart(loops'[j].hand, loops'[k].hand)
  <2>1. \A k \in 1 .. MaxLoops : event \notin Elems(loops[k].hand)
    BY <1>2 DEF HeldOnce, Apart
  <2>2. \A k \in 1 .. MaxLoops : \A e \in Elems(loops'[k].hand) :
          e \in Elems(loops[k].hand) \/ (k = l /\ e = event)
    BY <1>4, <1>5
  <2>3. \A j, k \in 1 .. MaxLoops : k # j => Apart(loops[j].hand, loops[k].hand)
    BY DEF HeldOnce
  <2>4. QED
    BY <2>1, <2>2, <2>3 DEF Apart
<1>8. \A t \in Tabs :
        /\ Once(thread'[t].buf)
        /\ Apart(thread'[t].buf, relay') /\ Apart(thread'[t].buf, buffer')
        /\ \A k \in 1 .. MaxLoops : Apart(thread'[t].buf, loops'[k].hand)
        /\ \A u \in Tabs : u # t => Apart(thread'[t].buf, thread'[u].buf)
  <2> SUFFICES ASSUME NEW t \in Tabs
               PROVE  /\ Once(thread[t].buf)
                      /\ Apart(thread[t].buf, relay') /\ Apart(thread[t].buf, buffer)
                      /\ \A k \in 1 .. MaxLoops : Apart(thread[t].buf, loops'[k].hand)
                      /\ \A u \in Tabs : u # t => Apart(thread[t].buf, thread[u].buf)
    BY <1>5
  <2>1. /\ Once(thread[t].buf) /\ Apart(thread[t].buf, relay) /\ Apart(thread[t].buf, buffer)
        /\ \A k \in 1 .. MaxLoops : Apart(thread[t].buf, loops[k].hand)
        /\ \A u \in Tabs : u # t => Apart(thread[t].buf, thread[u].buf)
    BY DEF HeldOnce
  <2> QED
    BY <1>2, <1>4, <1>5, <2>1 DEF Apart
<1>9. \A t \in Tabs :
        /\ Once(screen'[t]) /\ Apart(screen'[t], relay') /\ Apart(screen'[t], buffer')
        /\ \A k \in 1 .. MaxLoops : Apart(screen'[t], loops'[k].hand)
        /\ \A u \in Tabs : Apart(screen'[t], thread'[u].buf)
  <2> SUFFICES ASSUME NEW t \in Tabs
               PROVE  /\ Once(screen[t]) /\ Apart(screen[t], relay') /\ Apart(screen[t], buffer)
                      /\ \A k \in 1 .. MaxLoops : Apart(screen[t], loops'[k].hand)
                      /\ \A u \in Tabs : Apart(screen[t], thread[u].buf)
    BY <1>5
  <2>1. /\ Once(screen[t]) /\ Apart(screen[t], relay) /\ Apart(screen[t], buffer)
        /\ \A k \in 1 .. MaxLoops : Apart(screen[t], loops[k].hand)
        /\ \A u \in Tabs : Apart(screen[t], thread[u].buf)
    BY DEF HeldOnce
  <2> QED
    BY <1>2, <1>4, <1>5, <2>1 DEF Apart
<1>10. QED
  BY <1>6, <1>7, <1>8, <1>9 DEF HeldOnce

\* An event that a loop emits leaves its hand: for the pages, or for the buffer.
LEMMA EmitOnce ==
  ASSUME WPTypeOK, HeldOnce, NEW l \in 1 .. MaxLoops, LoopEmit(l)
  PROVE  HeldOnce'
<1> DEFINE hand == loops[l].hand
           event == Head(hand)
<1>1. hand \in Seq(Events) /\ hand # <<>> /\ Once(hand) /\ buffer \in Seq(Events)
  BY DEF LoopEmit, WPTypeOK, LoopStates, HeldOnce
<1>2. /\ Once(Tail(hand)) /\ event \in Elems(hand) /\ event \in Events
      /\ \A e : e \in Elems(Tail(hand)) <=> e \in Elems(hand) /\ e # event
  BY <1>1, TailOnce, TailOf
<1>3. /\ event \notin Elems(relay) /\ event \notin Elems(buffer)
      /\ \A k \in 1 .. MaxLoops : k # l => event \notin Elems(loops[k].hand)
      /\ \A t \in Tabs : event \notin Elems(thread[t].buf) /\ event \notin Elems(screen[t])
  BY <1>2 DEF HeldOnce, Apart
<1>4. /\ UNCHANGED <<relay, thread>>
      /\ \A k \in 1 .. MaxLoops : loops'[k].hand = IF k = l THEN Tail(hand) ELSE loops[k].hand
  BY DEF LoopEmit, WPTypeOK
<1>5. /\ \A t \in Tabs : /\ Once(screen'[t])
                         /\ \A e \in Elems(screen'[t]) : e \in Elems(screen[t]) \/ e = event
      /\ Once(buffer') /\ \A e \in Elems(buffer') : e \in Elems(buffer) \/ e = event
      /\ UNCHANGED buffer \/ UNCHANGED screen
  <2>1. CASE screen' = Shown(event) /\ UNCHANGED buffer
    <3>1. \A t \in Tabs : /\ Once(screen'[t])
                          /\ \A e \in Elems(screen'[t]) : e \in Elems(screen[t]) \/ e = event
      BY <1>2, <1>3, <2>1, ShownOnce
    <3>2. QED
      BY <2>1, <3>1 DEF HeldOnce
  <2>2. CASE buffer' \in {buffer, Append(buffer, event)} /\ UNCHANGED screen
    <3>1. Once(buffer') /\ \A e \in Elems(buffer') : e \in Elems(buffer) \/ e = event
      <4>1. /\ Once(Append(buffer, event)) /\ Once(buffer)
            /\ Elems(Append(buffer, event)) = Elems(buffer) \cup {event}
        BY <1>1, <1>2, <1>3, AppendOnce DEF HeldOnce
      <4>2. QED
        BY <2>2, <4>1
    <3>2. QED
      BY <2>2, <3>1 DEF HeldOnce
  <2>3. QED
    BY <2>1, <2>2 DEF LoopEmit
<1> HIDE DEF event, hand
<1>6. \A k \in 1 .. MaxLoops :
        /\ Once(loops'[k].hand) /\ event \notin Elems(loops'[k].hand)
        /\ \A e \in Elems(loops'[k].hand) : e \in Elems(loops[k].hand)
  BY <1>2, <1>3, <1>4 DEF HeldOnce, hand
<1>7. /\ Once(relay') /\ Once(buffer') /\ Apart(relay', buffer')
      /\ \A k \in 1 .. MaxLoops :
           /\ Once(loops'[k].hand)
           /\ Apart(loops'[k].hand, relay') /\ Apart(loops'[k].hand, buffer')
           /\ \A j \in 1 .. MaxLoops : j # k => Apart(loops'[k].hand, loops'[j].hand)
  BY <1>3, <1>4, <1>5, <1>6 DEF HeldOnce, Apart
<1>8. \A t \in Tabs :
        /\ Once(thread'[t].buf)
        /\ Apart(thread'[t].buf, relay') /\ Apart(thread'[t].buf, buffer')
        /\ \A k \in 1 .. MaxLoops : Apart(thread'[t].buf, loops'[k].hand)
        /\ \A u \in Tabs : u # t => Apart(thread'[t].buf, thread'[u].buf)
  BY <1>3, <1>4, <1>5, <1>6 DEF HeldOnce, Apart
<1>9. \A t \in Tabs :
        /\ Once(screen'[t]) /\ Apart(screen'[t], relay') /\ Apart(screen'[t], buffer')
        /\ \A k \in 1 .. MaxLoops : Apart(screen'[t], loops'[k].hand)
        /\ \A u \in Tabs : Apart(screen'[t], thread'[u].buf)
  <2> SUFFICES ASSUME NEW t \in Tabs
               PROVE  /\ Once(screen'[t]) /\ Apart(screen'[t], relay) /\ Apart(screen'[t], buffer')
                      /\ \A k \in 1 .. MaxLoops : Apart(screen'[t], loops'[k].hand)
                      /\ \A u \in Tabs : Apart(screen'[t], thread[u].buf)
    BY <1>4
  <2>1. /\ Once(screen[t]) /\ Apart(screen[t], relay) /\ Apart(screen[t], buffer)
        /\ \A k \in 1 .. MaxLoops : Apart(screen[t], loops[k].hand)
        /\ \A u \in Tabs : Apart(screen[t], thread[u].buf)
    BY DEF HeldOnce
  <2> QED
    BY <1>3, <1>5, <1>6, <2>1 DEF Apart
<1>10. QED
  BY <1>7, <1>8, <1>9 DEF HeldOnce

\* The buffer that a thread takes is in its hand and with the server no more.
LEMMA TakeOnce ==
  ASSUME WPTypeOK, HeldOnce, NEW t \in Tabs, TakeBuffer(t)
  PROVE  HeldOnce'
<1>1. Once(<<>>) /\ \A e : e \notin Elems(<<>>)
  BY NothingHeld
<1>2. /\ buffer' = <<>> /\ UNCHANGED <<relay, loops, screen>>
      /\ \A u \in Tabs : thread'[u].buf = IF u = t THEN buffer ELSE thread[u].buf
  <2>1. thread' = [thread EXCEPT ![t] = IF buffer = <<>> THEN Free
                                        ELSE [at |-> "emit", for |-> "open", buf |-> buffer]]
    BY DEF TakeBuffer, Goes
  <2>2. \A u \in Tabs : thread'[u].buf = IF u = t THEN buffer ELSE thread[u].buf
    BY <2>1 DEF WPTypeOK, Free
  <2>3. QED
    BY <2>2 DEF TakeBuffer, browser
<1>3. /\ Once(relay') /\ Once(buffer') /\ Apart(relay', buffer')
      /\ \A k \in 1 .. MaxLoops :
           /\ Once(loops'[k].hand)
           /\ Apart(loops'[k].hand, relay') /\ Apart(loops'[k].hand, buffer')
           /\ \A j \in 1 .. MaxLoops : j # k => Apart(loops'[k].hand, loops'[j].hand)
  BY <1>1, <1>2 DEF HeldOnce, Apart
<1>4. \A u \in Tabs :
        /\ Once(thread'[u].buf)
        /\ Apart(thread'[u].buf, relay') /\ Apart(thread'[u].buf, buffer')
        /\ \A k \in 1 .. MaxLoops : Apart(thread'[u].buf, loops'[k].hand)
        /\ \A v \in Tabs : v # u => Apart(thread'[u].buf, thread'[v].buf)
  BY <1>1, <1>2 DEF HeldOnce, Apart
<1>5. \A u \in Tabs :
        /\ Once(screen'[u]) /\ Apart(screen'[u], relay') /\ Apart(screen'[u], buffer')
        /\ \A k \in 1 .. MaxLoops : Apart(screen'[u], loops'[k].hand)
        /\ \A v \in Tabs : Apart(screen'[u], thread'[v].buf)
  BY <1>1, <1>2 DEF HeldOnce, Apart
<1>6. QED
  BY <1>3, <1>4, <1>5 DEF HeldOnce

\* An event that a thread emits leaves its hand for the pages.
LEMMA EmitTakenOnce ==
  ASSUME WPTypeOK, HeldOnce, NEW t \in Tabs, EmitTaken(t)
  PROVE  HeldOnce'
<1> DEFINE buf == thread[t].buf
           event == Head(buf)
<1>1. buf \in Seq(Events) /\ buf # <<>> /\ Once(buf)
  BY DEF EmitTaken, WPTypeOK, Threads, HeldOnce
<1>2. /\ Once(Tail(buf)) /\ event \in Elems(buf) /\ event \in Events
      /\ \A e : e \in Elems(Tail(buf)) <=> e \in Elems(buf) /\ e # event
      /\ Len(buf) = 1 <=> Tail(buf) = <<>>
  BY <1>1, TailOnce, TailOf
<1>3. /\ event \notin Elems(relay) /\ event \notin Elems(buffer)
      /\ \A k \in 1 .. MaxLoops : event \notin Elems(loops[k].hand)
      /\ \A u \in Tabs : /\ u # t => event \notin Elems(thread[u].buf)
                         /\ event \notin Elems(screen[u])
  BY <1>2 DEF HeldOnce, Apart
<1>4. /\ UNCHANGED <<relay, loops, buffer>>
      /\ \A u \in Tabs : thread'[u].buf = IF u = t THEN Tail(buf) ELSE thread[u].buf
  <2>1. thread' = [thread EXCEPT ![t] = IF Len(buf) = 1 THEN Free
                                        ELSE [thread[t] EXCEPT !.buf = Tail(@)]]
    BY DEF EmitTaken, Goes
  <2>2. \A u \in Tabs : thread'[u].buf = IF u = t THEN Tail(buf) ELSE thread[u].buf
    BY <1>2, <2>1 DEF WPTypeOK, Threads, Free
  <2>3. QED
    BY <2>2 DEF EmitTaken
<1>5. \A u \in Tabs : /\ Once(screen'[u])
                      /\ \A e \in Elems(screen'[u]) : e \in Elems(screen[u]) \/ e = event
  BY <1>2, <1>3, ShownOnce DEF EmitTaken
<1> HIDE DEF event, buf
<1>6. \A u \in Tabs :
        /\ Once(thread'[u].buf) /\ event \notin Elems(thread'[u].buf)
        /\ \A e \in Elems(thread'[u].buf) : e \in Elems(thread[u].buf)
  BY <1>2, <1>3, <1>4 DEF HeldOnce, buf
<1>7. /\ Once(relay') /\ Once(buffer') /\ Apart(relay', buffer')
      /\ \A k \in 1 .. MaxLoops :
           /\ Once(loops'[k].hand)
           /\ Apart(loops'[k].hand, relay') /\ Apart(loops'[k].hand, buffer')
           /\ \A j \in 1 .. MaxLoops : j # k => Apart(loops'[k].hand, loops'[j].hand)
  BY <1>4 DEF HeldOnce, Apart
<1>8. \A u \in Tabs :
        /\ Once(thread'[u].buf)
        /\ Apart(thread'[u].buf, relay') /\ Apart(thread'[u].buf, buffer')
        /\ \A k \in 1 .. MaxLoops : Apart(thread'[u].buf, loops'[k].hand)
        /\ \A v \in Tabs : v # u => Apart(thread'[u].buf, thread'[v].buf)
  BY <1>4, <1>6 DEF HeldOnce, Apart
<1>9. \A u \in Tabs :
        /\ Once(screen'[u]) /\ Apart(screen'[u], relay') /\ Apart(screen'[u], buffer')
        /\ \A k \in 1 .. MaxLoops : Apart(screen'[u], loops'[k].hand)
        /\ \A v \in Tabs : Apart(screen'[u], thread'[v].buf)
  <2>1. \A u \in Tabs : Apart(screen'[u], relay') /\ Apart(screen'[u], buffer')
    BY <1>3, <1>4, <1>5 DEF HeldOnce, Apart
  <2>2. \A u \in Tabs : \A k \in 1 .. MaxLoops : Apart(screen'[u], loops'[k].hand)
    BY <1>3, <1>4, <1>5 DEF HeldOnce, Apart
  <2>3. ASSUME NEW u \in Tabs, NEW v \in Tabs PROVE Apart(screen'[u], thread'[v].buf)
    <3>1. Apart(screen[u], thread[v].buf)
      BY DEF HeldOnce
    <3> QED
      BY <1>5, <1>6, <3>1 DEF Apart
  <2> QED
    BY <1>5, <2>1, <2>2, <2>3
<1>10. QED
  BY <1>7, <1>8, <1>9 DEF HeldOnce

\* What is polled waits in one place, and no page receives it twice; and nothing
\* waits in the buffer while somebody is connected who has looked there.
THEOREM HandedOver == WPSpec => []BufferHandedOver
<1>1. WPInit => HeldOnce /\ NothingStuck
  <2> SUFFICES ASSUME WPInit PROVE HeldOnce /\ NothingStuck
    OBVIOUS
  <2>1. Once(<<>>) /\ \A e : e \notin Elems(<<>>)
    BY NothingHeld
  <2>2. Once(relay)
    BY DEF WPInit, Once
  <2>3. /\ \A l \in 1 .. MaxLoops : loops[l].hand = <<>>
        /\ \A t \in Tabs : thread[t].buf = <<>> /\ screen[t] = <<>>
        /\ buffer = <<>>
    BY DEF WPInit, NoLoops, NoLoop, Free
  <2>4. HeldOnce
    BY <2>1, <2>2, <2>3 DEF HeldOnce, Apart
  <2>5. QED
    BY <2>3, <2>4 DEF NothingStuck
<1>2. WPTypeOK /\ HeldOnce /\ [WPNext]_wpVars => HeldOnce'
  <2> SUFFICES ASSUME WPTypeOK, HeldOnce, [WPNext]_wpVars PROVE HeldOnce'
    OBVIOUS
  <2> USE DEF browser, wpHistory
  <2>1. ASSUME NEW t \in Tabs, NEW state, Goes(t, state), state.buf = <<>>,
               UNCHANGED <<relay, screen, buffer>>,
               \A l \in 1 .. MaxLoops : loops'[l].hand \in {loops[l].hand, <<>>}
        PROVE  HeldOnce'
    <3>1. \A u \in Tabs : thread'[u].buf \in {thread[u].buf, <<>>}
      BY <2>1 DEF Goes, WPTypeOK
    <3>2. QED
      BY <2>1, <3>1, HeldShrinks
  <2>2. ASSUME UNCHANGED <<relay, screen, buffer, loops, thread>> PROVE HeldOnce'
    BY <2>2, HeldShrinks
  <2>3. Free.buf = <<>> /\ \A at, for : Busy(at, for).buf = <<>>
    BY DEF Free, Busy
  <2>4. \A t \in Tabs : thread[t].for \in {"login", "open", "close", "page"}
    BY DEF WPTypeOK, Threads
  <2>5. \A for \in {"login", "open", "close", "page"} : After(for).buf = <<>>
    BY AfterTypes
  <2>6. ASSUME NEW t \in Tabs,
               Request(t) \/ Login(t) \/ LoginAnswer(t) \/ StartCheck(t) \/ Join(t) \/ Leave(t)
        PROVE  HeldOnce'
    <3>1. PICK state : Goes(t, state) /\ state.buf = <<>>
      BY <2>3, <2>4, <2>5, <2>6
         DEF Request, Restore, Login, LoginAnswer, StartCheck, Join, Leave
    <3>2. UNCHANGED <<relay, screen, buffer, loops>>
      BY <2>6 DEF Request, Login, LoginAnswer, StartCheck, Join, Leave
    <3>3. QED
      BY <2>1, <3>1, <3>2
  <2>7. ASSUME NEW t \in Tabs, StartLoop(t) PROVE HeldOnce'
    <3>1. PICK l \in 1 .. MaxLoops : loops' = [loops EXCEPT ![l] = [at |-> "top", hand |-> <<>>]]
      BY <2>7 DEF StartLoop
    <3>2. \A k \in 1 .. MaxLoops : loops'[k].hand \in {loops[k].hand, <<>>}
      BY <3>1 DEF WPTypeOK
    <3>3. After(thread[t].for).buf = <<>>
      BY <2>4, <2>5
    <3>4. QED
      BY <2>1, <2>7, <3>2, <3>3 DEF StartLoop
  <2>8. ASSUME NEW t \in Tabs, Connect(t) \/ Disconnect(t) PROVE HeldOnce'
    <3>1. UNCHANGED <<relay, screen, buffer, loops>>
      BY <2>8 DEF Connect, Disconnect
    <3>2. \/ UNCHANGED thread
          \/ \E state : Goes(t, state) /\ state.buf = <<>>
      BY <2>3, <2>5, <2>8 DEF Connect, Disconnect, HasMessenger, Restore
    <3>3. QED
      BY <2>1, <2>2, <3>1, <3>2
  <2>9. ASSUME NEW t \in Tabs, Logout(t) \/ Break(t) PROVE HeldOnce'
    BY <2>2, <2>9 DEF Logout, Break, server, Revoke
  <2>10. ASSUME NEW l \in 1 .. MaxLoops, LoopEnd(l) PROVE HeldOnce'
    <3>1. \A k \in 1 .. MaxLoops : loops'[k].hand \in {loops[k].hand, <<>>}
      BY <2>10 DEF LoopEnd, NoLoop, WPTypeOK
    <3>2. QED
      BY <2>10, <3>1, HeldShrinks DEF LoopEnd
  <2>11. CASE BlockSave \/ BlockStop \/ BlockRevoke \/ Unblock \/ UNCHANGED wpVars
    BY <2>2, <2>11 DEF BlockSave, BlockStop, BlockRevoke, Unblock, wpVars, server
  <2>12. CASE ServerRestart
    <3>1. /\ \A k \in 1 .. MaxLoops : loops'[k].hand = <<>>
          /\ \A u \in Tabs : thread'[u].buf = <<>>
          /\ buffer' = <<>> /\ UNCHANGED <<relay, screen>>
      BY <2>12 DEF ServerRestart, NoLoops, NoLoop, Free
    <3>2. QED
      BY <3>1, HeldShrinks
  <2>13. QED
    BY <2>6, <2>7, <2>8, <2>9, <2>10, <2>11, <2>12, PollOnce, EmitOnce, TakeOnce, EmitTakenOnce
       DEF WPNext, TabStep, LoopStep
<1>3. WPTypeOK /\ SocketInv /\ CountsSockets /\ NothingStuck /\ [WPNext]_wpVars => NothingStuck'
  BY StuckStep
<1>4. HeldOnce /\ NothingStuck => BufferHandedOver
  BY DEF HeldOnce, NoneTwice, Once, BufferHandedOver
<1>5. QED
  BY <1>1, <1>2, <1>3, <1>4, PresenceTypes, SocketsCounted, PTL DEF WPSpec

------------------------------------------------------------------------------
(* Who is logged in is polled for *)

\* While a loop runs there is one, and one runs or is about to be started for a
\* login that is good: also after a block that was lifted and after a restart.
THEOREM PolledFor == WPSpec => []LoggedInIsPolled
<1>1. WPInit => PolledInv
  BY DEF WPInit, PolledInv, Free
<1>2. WPTypeOK /\ SocketInv /\ PolledInv /\ [WPNext]_wpVars => PolledInv'
  <2> SUFFICES ASSUME WPTypeOK, SocketInv, PolledInv, [WPNext]_wpVars PROVE PolledInv'
    OBVIOUS
  <2> USE DEF browser, wpHistory
  <2> DEFINE Runs    == \E l \in 1 .. MaxLoops : loops[l] # NoLoop
             Good    == \E t \in Tabs : cookie[t] = version
             Starts  == \E t \in Tabs : thread[t].at \in {"check", "start"}
             Answers == \E t \in Tabs : thread[t].at = "answer"
  <2>1. /\ version \in Nat /\ cookie \in [Tabs -> NoCookie .. version]
        /\ \A t \in Tabs : cookie[t] <= version /\ cookie[t] # version + 1
    BY DEF WPTypeOK, NoCookie
  <2>2. /\ Free.at = "free" /\ \A at, for : Busy(at, for).at = at
        /\ \A t \in Tabs : thread[t].for \in {"login", "open", "close", "page"}
        /\ \A for \in {"login", "open", "close", "page"} :
             /\ After(for).at \notin {"check", "start"}
             /\ After(for).at = "answer" <=> for = "login"
    BY AfterTypes DEF Free, Busy, WPTypeOK, Threads
  \* A step that leaves alone who runs, who is blocked and who is logged in, and in
  \* which no thread comes to an answer or is through with the start of a loop.
  <2>3. ASSUME UNCHANGED <<running, loops, blocked, admin, overlap, version, cookie, known>>,
               \A t \in Tabs : \/ thread'[t] = thread[t]
                               \/ /\ thread[t].at \notin {"check", "start"}
                                  /\ thread'[t].at \notin {"check", "start", "answer"}
        PROVE  PolledInv'
    BY <2>3 DEF PolledInv
  <2>4. ASSUME NEW t \in Tabs, \/ Join(t) \/ TakeBuffer(t) \/ EmitTaken(t) \/ Break(t) \/ Leave(t)
        PROVE  PolledInv'
    <3>1. CASE Break(t)
      BY <2>3, <3>1 DEF Break, server
    <3>2. CASE Join(t) \/ TakeBuffer(t) \/ EmitTaken(t) \/ Leave(t)
      <4>1. PICK state : Goes(t, state) /\ state.at \notin {"check", "start", "answer"}
        <5>1. CASE Join(t) \/ Leave(t)
          BY <2>2, <5>1 DEF Join, Leave
        <5>2. CASE TakeBuffer(t)
          <6> DEFINE state == IF buffer = <<>> THEN Free
                              ELSE [at |-> "emit", for |-> "open", buf |-> buffer]
          <6>1. Goes(t, state) /\ state.at \notin {"check", "start", "answer"}
            BY <2>2, <5>2 DEF TakeBuffer
          <6>2. QED
            BY <6>1
        <5>3. CASE EmitTaken(t)
          <6> DEFINE state == IF Len(thread[t].buf) = 1 THEN Free
                              ELSE [thread[t] EXCEPT !.buf = Tail(@)]
          <6>1. Goes(t, state) /\ state.at \notin {"check", "start", "answer"}
            BY <2>2, <5>3 DEF EmitTaken, WPTypeOK, Threads
          <6>2. QED
            BY <6>1
        <5>4. QED
          BY <3>2, <5>1, <5>2, <5>3
      <4>2. thread[t].at \notin {"check", "start"}
        BY <3>2 DEF Join, TakeBuffer, EmitTaken, Leave
      <4>3. \A u \in Tabs : thread'[u] = IF u = t THEN state ELSE thread[u]
        BY <4>1 DEF Goes, WPTypeOK
      <4>4. UNCHANGED <<running, loops, blocked, admin, overlap, version, cookie, known>>
        BY <3>2 DEF Join, TakeBuffer, EmitTaken, Leave
      <4>5. QED
        BY <2>3, <4>1, <4>2, <4>3, <4>4
    <3>3. QED
      BY <2>4, <3>1, <3>2
  \* A messenger built anew, or a login: not while the user is blocked, and a check follows.
  <2>5. ASSUME NEW t \in Tabs, NEW for, Goes(t, Busy("check", for)), ~blocked,
               UNCHANGED <<running, loops, blocked, admin, overlap, version, cookie>>,
               thread[t].at = "free"
        PROVE  PolledInv'
    <3>1. \A u \in Tabs : thread'[u] = IF u = t THEN Busy("check", for) ELSE thread[u]
      BY <2>5 DEF Goes, WPTypeOK
    <3>2. admin = "idle" /\ Starts'
      BY <2>2, <2>5, <3>1 DEF PolledInv
    <3>3. Answers' => Answers
      BY <2>2, <3>1
    <3>4. QED
      BY <2>5, <3>2, <3>3 DEF PolledInv
  \* A request that finds the messenger, and is no login.
  <2>6. ASSUME NEW t \in Tabs, NEW for \in {"open", "close", "page"}, Goes(t, After(for)),
               UNCHANGED <<running, loops, blocked, admin, overlap, version, cookie, known>>,
               thread[t].at = "free"
        PROVE  PolledInv'
    <3>1. \A u \in Tabs : thread'[u] = IF u = t THEN After(for) ELSE thread[u]
      BY <2>6 DEF Goes, WPTypeOK
    <3>2. QED
      BY <2>2, <2>3, <2>6, <3>1
  <2>7. ASSUME NEW t \in Tabs, Request(t) \/ Login(t) PROVE PolledInv'
    BY <2>2, <2>5, <2>7 DEF Request, Login, Restore
  <2>8. ASSUME NEW t \in Tabs, Connect(t) PROVE PolledInv'
    BY <2>2, <2>3, <2>5, <2>6, <2>8 DEF Connect, HasMessenger, Restore
  <2>9. ASSUME NEW t \in Tabs, Disconnect(t) PROVE PolledInv'
    BY <2>2, <2>3, <2>5, <2>6, <2>9 DEF Disconnect, HasMessenger, Restore
  <2>10. ASSUME NEW t \in Tabs, LoginAnswer(t) PROVE PolledInv'
    <3>1. \A u \in Tabs : thread'[u] = IF u = t THEN Free ELSE thread[u]
      BY <2>10 DEF LoginAnswer, Goes, WPTypeOK
    <3>2. UNCHANGED <<running, loops, blocked, admin, overlap, version, known>>
      BY <2>10 DEF LoginAnswer
    <3>3. ~overlap => running
      BY <2>10 DEF LoginAnswer, PolledInv
    <3>4. QED
      BY <2>2, <3>1, <3>2, <3>3 DEF PolledInv
  <2>11. ASSUME NEW t \in Tabs, Logout(t) PROVE PolledInv'
    <3>1. version' = version + 1 /\ cookie' = [cookie EXCEPT ![t] = NoCookie]
      BY <2>11 DEF Logout, Revoke
    <3>2. ~Good'
      BY <2>1, <3>1 DEF NoCookie
    <3>3. UNCHANGED <<running, loops, blocked, admin, overlap, thread>>
      BY <2>11 DEF Logout, Revoke
    <3>4. QED
      BY <3>2, <3>3 DEF PolledInv
  <2>12. ASSUME NEW t \in Tabs, StartCheck(t) PROVE PolledInv'
    <3> DEFINE state == IF running THEN After(thread[t].for) ELSE Busy("start", thread[t].for)
    <3>1. \A u \in Tabs : thread'[u] = IF u = t THEN state ELSE thread[u]
      BY <2>12 DEF StartCheck, Goes, WPTypeOK
    <3>2. UNCHANGED <<running, loops, blocked, admin, overlap, version, known, cookie>>
      BY <2>12 DEF StartCheck
    <3>3. running \/ (state.at = "start" /\ Starts')
      BY <2>2, <3>1
    <3>4. admin # "idle" => overlap
      BY <2>12 DEF StartCheck, PolledInv
    <3>5. ~running => (Answers' => Answers)
      BY <3>1, <3>3
    <3>6. QED
      BY <3>2, <3>3, <3>4, <3>5 DEF PolledInv
  <2>13. ASSUME NEW t \in Tabs, StartLoop(t) PROVE PolledInv'
    <3>1. PICK l \in 1 .. MaxLoops : loops' = [loops EXCEPT ![l] = [at |-> "top", hand |-> <<>>]]
      BY <2>13 DEF StartLoop
    <3>2. loops'[l] # NoLoop
      BY <3>1 DEF NoLoop, WPTypeOK
    <3>3. running' = TRUE /\ UNCHANGED <<blocked, admin, overlap, version, known, cookie>>
      BY <2>13 DEF StartLoop
    <3>4. admin # "idle" => overlap
      BY <2>13 DEF StartLoop, PolledInv
    <3>5. QED
      BY <3>2, <3>3, <3>4 DEF PolledInv
  <2>14. ASSUME NEW l \in 1 .. MaxLoops, LoopStep(l) PROVE PolledInv'
    <3>1. UNCHANGED <<running, blocked, admin, overlap, version, known, cookie, thread>>
      BY <2>14 DEF LoopStep, LoopEnd, LoopPoll, LoopEmit
    <3>2. running => Runs'
      <4>1. CASE LoopEnd(l)
        BY <4>1 DEF LoopEnd
      <4>2. CASE LoopPoll(l) \/ LoopEmit(l)
        <5>1. PICK state : loops' = [loops EXCEPT ![l] = state] /\ state.at \in {"top", "poll", "emit"}
          BY <4>2 DEF LoopPoll, LoopEmit
        <5>2. loops'[l] # NoLoop
          BY <5>1 DEF NoLoop, WPTypeOK
        <5>3. QED
          BY <5>2
      <4>3. QED
        BY <2>14, <4>1, <4>2 DEF LoopStep
    <3>3. QED
      BY <3>1, <3>2 DEF PolledInv
  <2>15. CASE BlockSave
    <3>1. UNCHANGED <<running, loops, version, known, cookie, thread>> /\ blocked' = TRUE
      BY <2>15 DEF BlockSave
    <3>2. overlap' \/ (~overlap /\ \A t \in Tabs : thread[t] = Free)
      BY <2>15 DEF BlockSave
    <3>3. admin' = "saved" /\ admin = "idle"
      BY <2>15 DEF BlockSave
    <3>4. overlap => overlap'
      BY <2>15 DEF BlockSave
    <3>5. QED
      BY <2>2, <3>1, <3>2, <3>3, <3>4 DEF PolledInv
  <2>16. CASE BlockStop
    <3>1. /\ admin = "saved" /\ admin' = "stopped" /\ running' = FALSE
          /\ UNCHANGED <<loops, version, known, cookie, thread, blocked, overlap>>
      BY <2>16 DEF BlockStop
    <3>2. QED
      BY <3>1 DEF PolledInv
  <2>17. CASE BlockRevoke
    <3>1. /\ version' = version + 1 /\ admin' = "idle"
          /\ UNCHANGED <<loops, running, known, cookie, thread, blocked, overlap>>
      BY <2>17 DEF BlockRevoke, Revoke
    <3>2. ~Good'
      BY <2>1, <3>1
    <3>3. QED
      BY <3>1, <3>2 DEF PolledInv
  <2>18. CASE Unblock
    BY <2>18 DEF Unblock, PolledInv
  <2>19. CASE ServerRestart
    BY <2>2, <2>19 DEF ServerRestart, PolledInv
  <2>20. CASE UNCHANGED wpVars
    BY <2>3, <2>20 DEF wpVars, server
  <2>21. QED
    BY <2>4, <2>7, <2>8, <2>9, <2>10, <2>11, <2>12, <2>13, <2>14, <2>15, <2>16, <2>17, <2>18,
       <2>19, <2>20 DEF WPNext, TabStep
<1>3. PolledInv => LoggedInIsPolled
  BY DEF PolledInv, LoggedInIsPolled
<1>4. QED
  BY <1>1, <1>2, <1>3, PresenceTypes, SocketsCounted, PTL DEF WPSpec

------------------------------------------------------------------------------
(* Accounts, logins, recovery: how a request goes on *)

\* Where only the request of r changes.
LEMMA OneServes ==
  ASSUME ACTypeOK, NEW r \in Slots, NEW s \in Requests, WellFormed(s),
         serve' = [serve EXCEPT ![r] = s]
  PROVE  /\ serve' \in [Slots -> Requests]
         /\ \A q \in Slots : WellFormed(serve'[q])
         /\ serve'[r] = s
         /\ \A q \in Slots : q # r => serve'[q] = serve[q]
  <1>1. serve \in [Slots -> Requests] /\ \A q \in Slots : WellFormed(serve[q])
    BY DEF ACTypeOK
  <1>2. serve' \in [Slots -> Requests] /\ serve'[r] = s /\ \A q \in Slots : q # r => serve'[q] = serve[q]
    BY <1>1
  <1>3. \A q \in Slots : WellFormed(serve'[q])
    BY <1>1, <1>2, Zenon
  <1> QED
    BY <1>2, <1>3

\* A request that goes on, or ends.
LEMMA ProceedIs ==
  ASSUME ACTypeOK, NEW r \in Slots, NEW at, Proceed(r, at), ~IdleSlot(r),
         WellFormed([serve[r] EXCEPT !.at = at])
  PROVE  /\ serve' = [serve EXCEPT ![r] = [serve[r] EXCEPT !.at = at]]
         /\ [serve[r] EXCEPT !.at = at] \in Requests
         /\ serve' \in [Slots -> Requests]
         /\ \A q \in Slots : WellFormed(serve'[q])
         /\ \A q \in Slots : q # r => serve'[q] = serve[q]
         /\ serve'[r].at = at /\ serve'[r].kind = serve[r].kind /\ serve'[r].pw = serve[r].pw
         /\ serve'[r].id = serve[r].id /\ serve'[r].snap = serve[r].snap
         /\ serve'[r].orphan = serve[r].orphan
  <1> DEFINE s == [serve[r] EXCEPT !.at = at]
  <1>1. serve[r] \in Requests
    BY DEF ACTypeOK
  <1>2. /\ s.kind = serve[r].kind /\ s.at = at /\ s.pw = serve[r].pw /\ s.id = serve[r].id
        /\ s.snap = serve[r].snap /\ s.orphan = serve[r].orphan
    BY <1>1 DEF Requests
  <1>3. s.kind = "none" => s = NoRequest /\ at = "idle"
    BY <1>2 DEF WellFormed, OnRoute, NoRequest, Serving
  <1>4. serve[r].kind # "none"
    BY DEF ACTypeOK, WellFormed, OnRoute, IdleSlot
  <1>5. s \in Requests
    BY <1>1, <1>2, <1>4 DEF Requests, WellFormed, OnRoute
  <1>6. serve' = [serve EXCEPT ![r] = s]
    BY DEF Proceed
  <1> HIDE DEF s
  <1>7. /\ serve' \in [Slots -> Requests]
        /\ \A q \in Slots : WellFormed(serve'[q])
        /\ serve'[r] = s
        /\ \A q \in Slots : q # r => serve'[q] = serve[q]
    BY <1>5, <1>6, OneServes DEF s
  <1>8. /\ s = [serve[r] EXCEPT !.at = at]
    BY DEF s
  <1> QED
    BY <1>2, <1>5, <1>6, <1>7, <1>8

LEMMA FinishIs ==
  ASSUME ACTypeOK, NEW r \in Slots, Finish(r)
  PROVE  /\ serve' \in [Slots -> Requests]
         /\ \A q \in Slots : WellFormed(serve'[q])
         /\ serve'[r] = NoRequest
         /\ \A q \in Slots : q # r => serve'[q] = serve[q]
  <1>1. NoRequest \in Requests /\ WellFormed(NoRequest)
    BY DEF NoRequest, Serving, Requests, WellFormed, OnRoute
  <1> QED
    BY <1>1, OneServes DEF Finish

\* Which requests can be where.
LEMMA WhoIsWhere ==
  ASSUME ACTypeOK, NEW r \in Slots
  PROVE  /\ serve[r] \in Requests /\ WellFormed(serve[r])
         /\ serve[r].at = "idle" <=> IdleSlot(r)
         /\ serve[r].kind = "none" <=> IdleSlot(r)
         /\ serve[r].at \in {"save", "write"} => serve[r].kind \in {"register", "reset", "delete", "other"}
         /\ serve[r].at \in {"enter", "relay"} => serve[r].kind \in {"register", "login"}
         /\ serve[r].at \in {"key", "keywrite"} => serve[r].kind \in {"register", "login", "reset"}
         /\ serve[r].at \in {"code", "codewrite", "answer"} => serve[r].kind \in {"code", "reset"}
         /\ serve[r].at \in {"pop", "purge"} => serve[r].kind = "delete"
  <1>1. serve[r] \in Requests /\ WellFormed(serve[r])
    BY DEF ACTypeOK
  <1>2. NoRequest.at = "idle" /\ NoRequest.kind = "none"
    BY DEF NoRequest, Serving
  <1> QED
    BY <1>1, <1>2 DEF WellFormed, OnRoute, IdleSlot

\* A request that begins, and what it finds and leaves.
Started(r, kind, at, pw, id, snap, keep) ==
  /\ IdleSlot(r)
  /\ asked' \in 0 .. MaxAsked
  /\ serve' \in [Slots -> Requests]
  /\ \A q \in Slots : WellFormed(serve'[q])
  /\ \A q \in Slots : q # r => serve'[q] = serve[q]
  /\ serve'[r].at = at /\ serve'[r].kind = kind /\ serve'[r].pw = pw
  /\ serve'[r].id = id /\ serve'[r].snap = snap /\ ~serve'[r].orphan
  /\ overlapped' = (overlapped \/ Others(r) # {})
  /\ clash' = (clash \/ Clashes(r, Serving(kind, at, pw, id, snap)))
  /\ remembered' = keep
  /\ UNCHANGED <<accounts, key, dir, messenger, lock, ids, codes, crashes, shown, first, torn>>

LEMMA BeginIs ==
  ASSUME ACTypeOK, NEW r \in Slots, NEW keep,
         NEW kind \in {"register", "login", "code", "reset", "delete", "other"}, NEW at,
         NEW pw \in Passwords \cup {0}, NEW id \in Nat, NEW snap \in SUBSET (Passwords \cup Nat),
         WellFormed(Serving(kind, at, pw, id, snap)), Begin(r, Serving(kind, at, pw, id, snap), keep)
  PROVE  Started(r, kind, at, pw, id, snap, keep)
  <1> DEFINE s == Serving(kind, at, pw, id, snap)
  <1>1. /\ s.kind = kind /\ s.at = at /\ s.pw = pw /\ s.id = id /\ s.snap = snap /\ s.orphan = FALSE
    BY DEF Serving
  <1>2. at \in {"save", "write", "enter", "relay", "key", "keywrite", "code", "codewrite",
                "answer", "pop", "purge"}
    BY <1>1 DEF WellFormed, OnRoute
  <1>3. s \in Requests
    BY <1>2 DEF Serving, Requests
  <1>4. asked' \in 0 .. MaxAsked
    BY AccountsAssumption DEF Begin, ACTypeOK
  <1>5. serve' = [serve EXCEPT ![r] = s] /\ IdleSlot(r)
    BY DEF Begin
  <1>6. WellFormed(s)
    OBVIOUS
  <1>7. /\ overlapped' = (overlapped \/ Others(r) # {})
        /\ clash' = (clash \/ Clashes(r, s))
        /\ remembered' = keep
        /\ UNCHANGED <<accounts, key, dir, messenger, lock, ids, codes, crashes, shown, first, torn>>
    BY DEF Begin
  <1> HIDE DEF s
  <1>8. /\ serve' \in [Slots -> Requests]
        /\ \A q \in Slots : WellFormed(serve'[q])
        /\ serve'[r] = s
        /\ \A q \in Slots : q # r => serve'[q] = serve[q]
    BY <1>3, <1>5, <1>6, OneServes
  <1> QED
    BY <1>1, <1>4, <1>5, <1>7, <1>8 DEF s, Started

\* The types of what a request that begins does not touch.
LEMMA BeginTypes ==
  ASSUME ACTypeOK, NEW r \in Slots, NEW keep \in SUBSET Passwords,
         NEW kind \in {"register", "login", "code", "reset", "delete", "other"}, NEW at,
         NEW pw \in Passwords \cup {0}, NEW id \in Nat, NEW snap \in SUBSET (Passwords \cup Nat),
         WellFormed(Serving(kind, at, pw, id, snap)), Begin(r, Serving(kind, at, pw, id, snap), keep),
         rec' = rec
  PROVE  ACTypeOK'
  <1>1. /\ asked' \in 0 .. MaxAsked
        /\ serve' \in [Slots -> Requests]
        /\ \A q \in Slots : WellFormed(serve'[q])
        /\ overlapped' \in BOOLEAN
        /\ clash' \in BOOLEAN
        /\ remembered' = keep
        /\ UNCHANGED <<accounts, key, dir, messenger, lock, ids, codes, crashes, shown, first, torn>>
    <2>1. Started(r, kind, at, pw, id, snap, keep)
      BY BeginIs
    <2> QED
      BY <2>1 DEF ACTypeOK, Started
  <1> QED
    BY <1>1 DEF ACTypeOK

\* Every step keeps the types.
LEMMA AccountTypesStep ==
  ASSUME ACTypeOK, [ACNext]_acVars
  PROVE  ACTypeOK'
  <1> USE AccountsAssumption
  <1>1. ASSUME NEW r \in Slots, NEW pw \in Passwords, RequestRegister(r, pw) PROVE ACTypeOK'
    <2>1. WellFormed(Serving("register", "save", pw, 0, {pw}))
      BY DEF WellFormed, OnRoute, Serving
    <2>2. Begin(r, Serving("register", "save", pw, 0, {pw}), remembered \cup {pw}) /\ rec' = rec
      BY <1>1 DEF RequestRegister
    <2>3. remembered \cup {pw} \in SUBSET Passwords
      BY DEF ACTypeOK
    <2> QED
      BY <2>1, <2>2, <2>3, BeginTypes
  <1>2. ASSUME NEW r \in Slots, NEW pw \in Passwords, RequestLogin(r, pw) PROVE ACTypeOK'
    <2>1. WellFormed(Serving("login", "enter", pw, 0, {}))
      BY DEF WellFormed, OnRoute, Serving
    <2>2. Begin(r, Serving("login", "enter", pw, 0, {}), remembered \cup {pw}) /\ rec' = rec
      BY <1>2 DEF RequestLogin
    <2>3. remembered \cup {pw} \in SUBSET Passwords /\ {} \in SUBSET (Passwords \cup Nat)
          /\ pw \in Passwords \cup {0} /\ 0 \in Nat
      BY DEF ACTypeOK
    <2> QED
      BY <2>1, <2>2, <2>3, BeginTypes
  <1>3. ASSUME NEW r \in Slots, NEW pw \in Passwords, RequestReset(r, pw) PROVE ACTypeOK'
    <2>1. PICK x \in rec :
            Begin(r, Serving("reset", "key", pw, x.id, {pw}),
                  IF \E q \in Others(r) : serve[q].kind = "reset" THEN remembered \cup {pw} ELSE {pw})
      BY <1>3 DEF RequestReset
    <2>2. WellFormed(Serving("reset", "key", pw, x.id, {pw}))
      BY DEF WellFormed, OnRoute, Serving
    <2>3. x.id \in Nat
      BY DEF ACTypeOK
    <2>4. (IF \E q \in Others(r) : serve[q].kind = "reset" THEN remembered \cup {pw} ELSE {pw})
            \in SUBSET Passwords
      BY DEF ACTypeOK
    <2>5. rec' = rec /\ {pw} \in SUBSET (Passwords \cup Nat) /\ pw \in Passwords \cup {0}
      BY <1>3 DEF RequestReset, WhenUsed
    <2> DEFINE keep == IF \E q \in Others(r) : serve[q].kind = "reset" THEN remembered \cup {pw} ELSE {pw}
    <2>6. Begin(r, Serving("reset", "key", pw, x.id, {pw}), keep) /\ keep \in SUBSET Passwords
      BY <2>1, <2>4
    <2> HIDE DEF keep
    <2> QED
      BY <2>2, <2>3, <2>5, <2>6, BeginTypes
  <1>4. ASSUME NEW r \in Slots, RequestCode(r) PROVE ACTypeOK'
    <2>1. PICK id \in messenger : Begin(r, Serving("code", "code", 0, id, {}), remembered)
      BY <1>4 DEF RequestCode
    <2>2. WellFormed(Serving("code", "code", 0, id, {}))
      BY DEF WellFormed, OnRoute, Serving
    <2>3. rec' = rec /\ id \in Nat /\ remembered \in SUBSET Passwords
          /\ {} \in SUBSET (Passwords \cup Nat) /\ 0 \in Passwords \cup {0}
      BY <1>4 DEF RequestCode, ACTypeOK
    <2> QED
      BY <2>1, <2>2, <2>3, BeginTypes
  <1>5. ASSUME NEW r \in Slots, RequestDelete(r) PROVE ACTypeOK'
    <2>1. WellFormed(Serving("delete", "save", 0, 0, {}))
      BY DEF WellFormed, OnRoute, Serving
    <2>2. rec' = rec /\ Begin(r, Serving("delete", "save", 0, 0, {}), remembered)
          /\ remembered \in SUBSET Passwords /\ {} \in SUBSET (Passwords \cup Nat)
          /\ 0 \in Passwords \cup {0} /\ 0 \in Nat
      BY <1>5 DEF RequestDelete, ACTypeOK
    <2> QED
      BY <2>1, <2>2, BeginTypes
  <1>6. ASSUME NEW r \in Slots, RequestOther(r) PROVE ACTypeOK'
    <2>1. WellFormed(Serving("other", "save", 0, 0, accounts))
      BY DEF WellFormed, OnRoute, Serving, ACTypeOK
    <2>2. rec' = rec /\ Begin(r, Serving("other", "save", 0, 0, accounts), remembered)
          /\ remembered \in SUBSET Passwords /\ accounts \in SUBSET (Passwords \cup Nat)
          /\ 0 \in Passwords \cup {0} /\ 0 \in Nat
      BY <1>6 DEF RequestOther, ACTypeOK
    <2> QED
      BY <2>1, <2>2, BeginTypes
  <1>7. ASSUME NEW r \in Slots, TruncateAccounts(r) PROVE ACTypeOK'
    <2>1. Proceed(r, "write") /\ ~IdleSlot(r) /\ WellFormed([serve[r] EXCEPT !.at = "write"])
      BY <1>7, WhoIsWhere DEF TruncateAccounts, WellFormed, OnRoute, Requests
    <2>2. serve' \in [Slots -> Requests] /\ \A q \in Slots : WellFormed(serve'[q])
      BY <2>1, ProceedIs
    <2> QED
      BY <1>7, <2>2 DEF TruncateAccounts, ACTypeOK, acHistory
  <1>8. ASSUME NEW r \in Slots, WriteAccounts(r) PROVE ACTypeOK'
    <2>1. ~IdleSlot(r) /\ serve[r] \in Requests /\ WellFormed(serve[r]) /\ serve[r].at = "write"
          /\ serve[r].kind \in {"register", "reset", "delete", "other"}
      BY <1>8, WhoIsWhere DEF WriteAccounts
    <2>2. serve' \in [Slots -> Requests] /\ \A q \in Slots : WellFormed(serve'[q])
      <3>1. CASE serve[r].kind = "register"
        <4>1. Proceed(r, "enter") /\ WellFormed([serve[r] EXCEPT !.at = "enter"])
          BY <1>8, <2>1, <3>1 DEF WriteAccounts, WellFormed, OnRoute, Requests
        <4> QED
          BY <2>1, <4>1, ProceedIs
      <3>2. CASE serve[r].kind = "reset"
        <4>1. Proceed(r, "code") /\ WellFormed([serve[r] EXCEPT !.at = "code"])
          BY <1>8, <2>1, <3>2 DEF WriteAccounts, WellFormed, OnRoute, Requests
        <4> QED
          BY <2>1, <4>1, ProceedIs
      <3>3. CASE serve[r].kind = "delete"
        <4>1. Proceed(r, "pop") /\ WellFormed([serve[r] EXCEPT !.at = "pop"])
          BY <1>8, <2>1, <3>3 DEF WriteAccounts, WellFormed, OnRoute, Requests
        <4> QED
          BY <2>1, <4>1, ProceedIs
      <3>4. CASE serve[r].kind = "other"
        BY <1>8, <2>1, <3>4, FinishIs DEF WriteAccounts
      <3> QED
        BY <2>1, <3>1, <3>2, <3>3, <3>4
    <2>3. \A pw \in accounts' : pw \in Passwords /\ accounts' = {pw}
      BY <1>8, <2>1 DEF WriteAccounts, WellFormed
    <2> QED
      BY <1>8, <2>2, <2>3 DEF WriteAccounts, ACTypeOK, acHistory
  <1>9. ASSUME NEW r \in Slots, Enter(r) PROVE ACTypeOK'
    <2>1. ~IdleSlot(r) /\ serve[r] \in Requests /\ WellFormed(serve[r]) /\ serve[r].at = "enter"
          /\ serve[r].kind \in {"register", "login"}
      BY <1>9, WhoIsWhere DEF Enter
    <2>2. \A id \in OpensWith(serve[r].pw) : id \in Nat
      BY DEF OpensWith, ACTypeOK
    <2>3. \/ Finish(r) /\ ids' = ids /\ lock' = lock
          \/ \E id \in OpensWith(serve[r].pw) :
               serve' = [serve EXCEPT ![r] = [serve[r] EXCEPT !.at = "relay", !.id = id]]
               /\ ids' = ids /\ lock' = {r}
          \/ /\ ids' = ids + 1 /\ ids < MaxIds /\ lock' = {r}
             /\ serve' = [serve EXCEPT ![r] = [serve[r] EXCEPT !.at = "key", !.id = ids + 1]]
      BY <1>9 DEF Enter
    <2>4. /\ serve' \in [Slots -> Requests] /\ \A q \in Slots : WellFormed(serve'[q])
          /\ ids' \in 0 .. MaxIds /\ lock' \subseteq Slots
      <3>1. CASE Finish(r) /\ ids' = ids /\ lock' = lock
        BY <3>1, FinishIs DEF ACTypeOK
      <3>2. ASSUME NEW id \in Nat, NEW at \in {"relay", "key"},
                   serve' = [serve EXCEPT ![r] = [serve[r] EXCEPT !.at = at, !.id = id]]
            PROVE  serve' \in [Slots -> Requests] /\ \A q \in Slots : WellFormed(serve'[q])
        <4> DEFINE s == [serve[r] EXCEPT !.at = at, !.id = id]
        <4>1. s \in Requests /\ WellFormed(s)
          BY <2>1 DEF Requests, WellFormed, OnRoute
        <4> HIDE DEF s
        <4> QED
          BY <3>2, <4>1, OneServes DEF s
      <3>3. ids \in 0 .. MaxIds /\ (ids < MaxIds => ids + 1 \in 0 .. MaxIds)
        BY DEF ACTypeOK
      <3>4. lock \subseteq Slots
        BY DEF ACTypeOK
      <3>5. CASE \E id \in OpensWith(serve[r].pw) :
                   serve' = [serve EXCEPT ![r] = [serve[r] EXCEPT !.at = "relay", !.id = id]]
                   /\ ids' = ids /\ lock' = {r}
        BY <2>2, <3>2, <3>3, <3>5
      <3>6. CASE /\ ids' = ids + 1 /\ ids < MaxIds /\ lock' = {r}
                 /\ serve' = [serve EXCEPT ![r] = [serve[r] EXCEPT !.at = "key", !.id = ids + 1]]
        <4>1. ids + 1 \in Nat
          BY <3>3
        <4> QED
          BY <3>2, <3>3, <3>6, <4>1
      <3> QED
        BY <2>3, <3>1, <3>5, <3>6
    <2>5. dir' \in BOOLEAN
      BY <1>9 DEF Enter, ACTypeOK
    <2> QED
      BY <1>9, <2>4, <2>5 DEF Enter, ACTypeOK
  <1>10. ASSUME NEW r \in Slots, JoinRelay(r) PROVE ACTypeOK'
    <2>1. serve[r].id \in Nat
      BY WhoIsWhere DEF Requests
    <2> QED
      BY <1>10, <2>1, FinishIs DEF JoinRelay, ACTypeOK, kept, acHistory
  <1>11. ASSUME NEW r \in Slots, TruncateKey(r) PROVE ACTypeOK'
    <2>1. ~IdleSlot(r) /\ WellFormed([serve[r] EXCEPT !.at = "keywrite"])
      BY <1>11, WhoIsWhere DEF TruncateKey, WellFormed, OnRoute, Requests
    <2>2. serve' \in [Slots -> Requests] /\ \A q \in Slots : WellFormed(serve'[q])
      BY <1>11, <2>1, ProceedIs, FinishIs DEF TruncateKey
    <2>3. lock' \subseteq Slots /\ \A k \in key' : k \in key /\ key' = key
      BY <1>11 DEF TruncateKey, ACTypeOK
    <2> QED
      BY <1>11, <2>2, <2>3 DEF TruncateKey, ACTypeOK, acHistory
  <1>12. ASSUME NEW r \in Slots, WriteKey(r) PROVE ACTypeOK'
    <2> DEFINE s == [serve[r] EXCEPT !.at = IF serve[r].kind = "reset" THEN "save" ELSE "relay",
                                     !.orphan = FALSE]
    <2>1. ~IdleSlot(r) /\ serve[r] \in Requests /\ WellFormed(serve[r]) /\ serve[r].at = "keywrite"
      BY <1>12, WhoIsWhere DEF WriteKey
    <2>2. s \in Requests /\ WellFormed(s)
      <3>1. /\ s.kind = serve[r].kind /\ s.pw = serve[r].pw /\ s.id = serve[r].id
            /\ s.snap = serve[r].snap /\ s.orphan = FALSE
            /\ s.at = IF serve[r].kind = "reset" THEN "save" ELSE "relay"
        BY <2>1 DEF Requests
      <3>2. serve[r].kind \in {"register", "login", "reset"}
        BY <2>1 DEF WellFormed, OnRoute, NoRequest, Serving
      <3>3. s \in Requests
        BY <2>1 DEF Requests
      <3> QED
        BY <2>1, <3>1, <3>2, <3>3 DEF WellFormed, OnRoute
    <2>3. serve' = [serve EXCEPT ![r] = s]
      BY <1>12 DEF WriteKey
    <2> HIDE DEF s
    <2>4. serve' \in [Slots -> Requests] /\ \A q \in Slots : WellFormed(serve'[q])
      BY <2>2, <2>3, OneServes
    <2>5. /\ \A k \in key' : k \in [id : Nat, pw : Passwords \cup {0}] /\ key' = {k}
          /\ first' \subseteq Nat
      BY <1>12, <2>1 DEF WriteKey, ACTypeOK, Requests
    <2> QED
      BY <1>12, <2>4, <2>5 DEF WriteKey, ACTypeOK
  <1>13. ASSUME NEW r \in Slots, TruncateCode(r) PROVE ACTypeOK'
    <2>1. ~IdleSlot(r) /\ WellFormed([serve[r] EXCEPT !.at = "codewrite"])
      BY <1>13, WhoIsWhere DEF TruncateCode, WellFormed, OnRoute, Requests
    <2>2. serve' \in [Slots -> Requests] /\ \A q \in Slots : WellFormed(serve'[q])
      BY <1>13, <2>1, ProceedIs DEF TruncateCode
    <2> QED
      BY <1>13, <2>2 DEF TruncateCode, ACTypeOK, acHistory
  <1>14. ASSUME NEW r \in Slots, WriteCode(r) PROVE ACTypeOK'
    <2> DEFINE s == [serve[r] EXCEPT !.at = "answer", !.snap = {codes + 1}, !.orphan = FALSE]
    <2>1. ~IdleSlot(r) /\ serve[r] \in Requests /\ WellFormed(serve[r]) /\ serve[r].at = "codewrite"
      BY <1>14, WhoIsWhere DEF WriteCode
    <2>2. codes + 1 \in Nat /\ codes + 1 \in 0 .. MaxCodes
      BY <1>14 DEF WriteCode, ACTypeOK
    <2>3. s \in Requests /\ WellFormed(s)
      <3>1. /\ s.kind = serve[r].kind /\ s.at = "answer" /\ s.pw = serve[r].pw
            /\ s.id = serve[r].id /\ s.snap = {codes + 1} /\ s.orphan = FALSE
        BY <2>1 DEF Requests
      <3>2. serve[r].kind \in {"code", "reset"}
        BY <2>1 DEF WellFormed, OnRoute, NoRequest, Serving
      <3>3. {codes + 1} \in SUBSET (Passwords \cup Nat) /\ {codes + 1} \subseteq Nat
        BY <2>2
      <3>4. s \in Requests
        BY <2>1, <3>3 DEF Requests
      <3> QED
        BY <3>1, <3>2, <3>3, <3>4 DEF WellFormed, OnRoute
    <2>4. serve' = [serve EXCEPT ![r] = s]
      BY <1>14 DEF WriteCode
    <2> HIDE DEF s
    <2>5. serve' \in [Slots -> Requests] /\ \A q \in Slots : WellFormed(serve'[q])
      BY <2>3, <2>4, OneServes
    <2>6. \A x \in rec' : x \in [id : Nat, code : Nat] /\ rec' = {x}
      BY <1>14, <2>1, <2>2 DEF WriteCode, ACTypeOK, Requests
    <2> QED
      BY <1>14, <2>2, <2>5, <2>6 DEF WriteCode, ACTypeOK
  <1>15. ASSUME NEW r \in Slots, ShowCode(r) PROVE ACTypeOK'
    <2>1. serve[r].snap \subseteq Nat
      BY <1>15, WhoIsWhere DEF ShowCode, WellFormed
    <2>2. shown' \subseteq Nat
      BY <1>15, <2>1 DEF ShowCode, ACTypeOK
    <2>3. serve' \in [Slots -> Requests] /\ \A q \in Slots : WellFormed(serve'[q])
      BY <1>15, FinishIs DEF ShowCode
    <2> QED
      BY <1>15, <2>2, <2>3 DEF ShowCode, ACTypeOK, kept
  <1>16. ASSUME NEW r \in Slots, DropMessenger(r) PROVE ACTypeOK'
    <2>1. ~IdleSlot(r) /\ WellFormed([serve[r] EXCEPT !.at = "purge"])
      BY <1>16, WhoIsWhere DEF DropMessenger, WellFormed, OnRoute, Requests
    <2>2. serve' \in [Slots -> Requests] /\ \A q \in Slots : WellFormed(serve'[q])
      BY <1>16, <2>1, ProceedIs DEF DropMessenger
    <2> QED
      BY <1>16, <2>2 DEF DropMessenger, ACTypeOK, kept, acHistory
  <1>17. ASSUME NEW r \in Slots, Purge(r) PROVE ACTypeOK'
    <2>1. NoRequest \in Requests /\ WellFormed(NoRequest)
      BY DEF NoRequest, Serving, Requests, WellFormed, OnRoute
    <2>2. ASSUME NEW q \in Slots
          PROVE  serve'[q] \in Requests /\ WellFormed(serve'[q])
      <3> DEFINE s == [serve[q] EXCEPT !.orphan = serve[q].at \in {"keywrite", "codewrite"}]
      <3>1. CASE q = r
        BY <1>17, <2>1, <3>1 DEF Purge
      <3>2. CASE q # r
        <4>1. serve'[q] = s
          BY <1>17, <3>2 DEF Purge
        <4>2. serve[q] \in Requests /\ WellFormed(serve[q]) /\ (serve[q].kind = "none" <=> IdleSlot(q))
          BY WhoIsWhere
        <4> DEFINE b == serve[q].at \in {"keywrite", "codewrite"}
        <4>3. b \in BOOLEAN /\ s = [serve[q] EXCEPT !.orphan = b]
          OBVIOUS
        <4> HIDE DEF b
        <4>6. /\ s \in Requests
              /\ s.kind = serve[q].kind /\ s.at = serve[q].at /\ s.snap = serve[q].snap
          BY <4>2, <4>3 DEF Requests
        <4>4. CASE IdleSlot(q)
          <5>1. b = FALSE
            BY <4>4 DEF IdleSlot, NoRequest, Serving, b
          <5>2. s = [NoRequest EXCEPT !.orphan = FALSE]
            BY <4>3, <4>4, <5>1 DEF IdleSlot
          <5>3. [NoRequest EXCEPT !.orphan = FALSE] = NoRequest
            <6>1. NoRequest.orphan = FALSE
              BY DEF NoRequest, Serving
            <6> QED
              BY <2>1, <6>1 DEF Requests
          <5> QED
            BY <2>1, <4>1, <5>2, <5>3
        <4>5. CASE ~IdleSlot(q)
          BY <4>1, <4>2, <4>5, <4>6 DEF WellFormed, OnRoute
        <4> QED
          BY <4>4, <4>5
      <3> QED
        BY <3>1, <3>2
    <2>3. serve' \in [Slots -> Requests]
      BY <1>17, <2>2 DEF Purge
    <2> QED
      BY <1>17, <2>2, <2>3 DEF Purge, ACTypeOK
  <1>18. CASE Crash
    <2>1. NoRequest \in Requests /\ WellFormed(NoRequest)
      BY DEF NoRequest, Serving, Requests, WellFormed, OnRoute
    <2>2. serve' \in [Slots -> Requests] /\ \A q \in Slots : WellFormed(serve'[q])
      BY <1>18, <2>1 DEF Crash
    <2>3. crashes' \in 0 .. MaxCrashes
      BY <1>18 DEF Crash, ACTypeOK
    <2>4. torn' \in BOOLEAN /\ clash' \in BOOLEAN
      BY <1>18, Zenon DEF Crash, ACTypeOK
    <2> QED
      BY <1>18, <2>2, <2>3, <2>4 DEF Crash, ACTypeOK, kept
  <1>19. CASE UNCHANGED acVars
    BY <1>19 DEF acVars, acHistory, kept, ACTypeOK
  <1> QED
    BY <1>1, <1>2, <1>3, <1>4, <1>5, <1>6, <1>7, <1>8, <1>9, <1>10, <1>11, <1>12, <1>13, <1>14,
       <1>15, <1>16, <1>17, <1>18, <1>19 DEF ACNext

\* Every state has the types of ACTypeOK.
THEOREM AccountTypes == ACSpec => []ACTypeOK
<1>1. ACInit => ACTypeOK
  <2>1. NoRequest \in Requests /\ WellFormed(NoRequest)
    BY DEF NoRequest, Serving, Requests, WellFormed, OnRoute
  <2>2. ACInit => serve \in [Slots -> Requests] /\ \A r \in Slots : WellFormed(serve[r])
    BY <2>1 DEF ACInit
  <2>3. ACInit => /\ dir \in BOOLEAN /\ torn \in BOOLEAN /\ overlapped \in BOOLEAN /\ clash \in BOOLEAN
    BY Zenon DEF ACInit
  <2>4. ACInit => /\ asked \in 0 .. MaxAsked /\ ids \in 0 .. MaxIds
                  /\ codes \in 0 .. MaxCodes /\ crashes \in 0 .. MaxCrashes
    BY AccountsAssumption DEF ACInit
  <2>5. ACInit => accounts = {} /\ key = {} /\ rec = {} /\ messenger = {} /\ lock = {}
                  /\ remembered = {} /\ shown = {} /\ first = {}
    BY DEF ACInit
  <2> QED
    BY <2>2, <2>3, <2>4, <2>5 DEF ACTypeOK
<1> QED
  BY <1>1, AccountTypesStep, PTL DEF ACSpec

\* When nothing clashes, a request that is no reset is alone.
LEMMA AloneUnlessReset ==
  ASSUME ACTypeOK, CalmInv, ~clash, NEW r \in Slots, ~IdleSlot(r)
  PROVE  /\ serve[r].kind # "reset" => \A q \in Slots : q # r => IdleSlot(q)
         /\ ~overlapped => \A q \in Slots : q # r => IdleSlot(q)
         /\ \A q \in Slots : IdleSlot(q) \/ q = r \/ serve[q].kind = "reset"
         /\ \A q \in Slots : ~serve[q].orphan
         /\ rec # {} \/ (\E q \in Slots : serve[q].at = "codewrite") => dir
         /\ serve[r].at = "purge" => messenger = {}
  BY DEF CalmInv, Calm

\* A step of one request keeps the requests apart.
LEMMA CalmMoves ==
  ASSUME ACTypeOK, ACTypeOK', CalmInv, NEW r \in Slots, ~IdleSlot(r),
         \A q \in Slots : q # r => serve'[q] = serve[q],
         serve'[r].kind = serve[r].kind \/ serve'[r] = NoRequest,
         ~serve'[r].orphan \/ (serve'[r].orphan <=> serve[r].orphan),
         serve'[r].at = "purge" => messenger' = {},
         UNCHANGED <<clash, overlapped>>,
         ~clash /\ (rec' # {} \/ (\E q \in Slots : serve'[q].at = "codewrite")) => dir'
  PROVE  CalmInv'
  <1> SUFFICES ASSUME ~clash PROVE Calm'
    BY DEF CalmInv
  <1>1. /\ \A q \in Slots : IdleSlot(q) \/ q = r \/ (serve[q].kind = "reset" /\ serve[r].kind = "reset" /\ overlapped)
        /\ \A p, q \in Slots : p # q /\ ~IdleSlot(p) /\ ~IdleSlot(q) =>
             overlapped /\ serve[p].kind = "reset" /\ serve[q].kind = "reset"
        /\ \A q \in Slots : ~serve[q].orphan
    BY DEF CalmInv, Calm
  <1>2. \A q \in Slots : q # r => (serve'[q] = NoRequest <=> IdleSlot(q))
    BY DEF IdleSlot
  <1>3. \A p, q \in Slots : p # q /\ serve'[p] # NoRequest /\ serve'[q] # NoRequest =>
          overlapped /\ serve'[p].kind = "reset" /\ serve'[q].kind = "reset"
    BY <1>1, <1>2
  <1>4. NoRequest.orphan = FALSE /\ \A q \in Slots : ~serve'[q].orphan
    BY <1>1 DEF NoRequest, Serving
  <1>5. \A q \in Slots : serve[q].at = "purge" => serve[q].kind = "delete" /\ ~IdleSlot(q)
    BY WhoIsWhere, Zenon DEF IdleSlot, NoRequest, Serving
  <1>6. \A q \in Slots : serve'[q].at = "purge" => messenger' = {}
    BY <1>1, <1>5
  <1> QED
    BY <1>3, <1>4, <1>6 DEF Calm, IdleSlot

\* A request of this kind that begins in r clashes with none, or the server is calm
\* no longer.
StartsCalm(r, kind, pw) ==
  /\ CalmInv'
  /\ ~clash' => /\ ~clash
                /\ \A q \in Slots \ {r} :
                     ~IdleSlot(q) => overlapped' /\ serve[q].kind = "reset" /\ kind = "reset"
                /\ kind = "register" => \A k \in key : k.pw = pw

LEMMA CalmBegins ==
  ASSUME ACTypeOK, CalmInv, NEW r \in Slots, NEW keep,
         NEW kind \in {"register", "login", "code", "reset", "delete", "other"},
         NEW at \in {"save", "enter", "key", "code"},
         NEW pw \in Passwords \cup {0}, NEW id \in Nat, NEW snap \in SUBSET (Passwords \cup Nat),
         WellFormed(Serving(kind, at, pw, id, snap)), Begin(r, Serving(kind, at, pw, id, snap), keep),
         rec' = rec
  PROVE  StartsCalm(r, kind, pw)
  <1> DEFINE s == Serving(kind, at, pw, id, snap)
  <1>1. /\ IdleSlot(r)
        /\ \A q \in Slots : q # r => serve'[q] = serve[q]
        /\ serve'[r].at = at /\ serve'[r].kind = kind /\ ~serve'[r].orphan
        /\ overlapped' = (overlapped \/ Others(r) # {})
        /\ clash' = (clash \/ Clashes(r, s))
        /\ UNCHANGED <<dir, messenger>>
    <2>1. Started(r, kind, at, pw, id, snap, keep)
      BY BeginIs
    <2> QED
      BY <2>1 DEF Started
  <1>2. s.kind = kind /\ s.pw = pw
    BY DEF Serving
  <1> HIDE DEF s
  <1> SUFFICES ASSUME ~clash'
               PROVE  /\ Calm' /\ ~clash
                      /\ \A q \in Slots \ {r} :
                           ~IdleSlot(q) => overlapped' /\ serve[q].kind = "reset" /\ kind = "reset"
                      /\ kind = "register" => \A k \in key : k.pw = pw
    BY DEF CalmInv, StartsCalm
  <1>3. ~clash /\ ~Clashes(r, s)
    BY <1>1
  <1>4. Calm
    BY <1>3 DEF CalmInv
  <1>5. kind = "register" => \A k \in key : k.pw = pw
    BY <1>2, <1>3 DEF Clashes
  <1>6. \A q \in Slots \ {r} : ~IdleSlot(q) => overlapped' /\ serve[q].kind = "reset" /\ kind = "reset"
    <2> SUFFICES ASSUME NEW q \in Slots \ {r}, ~IdleSlot(q)
                 PROVE  overlapped' /\ serve[q].kind = "reset" /\ kind = "reset"
      OBVIOUS
    <2>1. q \in Others(r)
      BY DEF Others
    <2>2. {serve[q].kind, kind} = {"reset"}
      BY <1>2, <1>3, <2>1 DEF Clashes
    <2> QED
      BY <1>1, <2>1, <2>2
  <1>7. \A q \in Slots : q # r => (serve'[q] = NoRequest <=> IdleSlot(q))
    BY <1>1 DEF IdleSlot
  <1>8. ASSUME NEW p \in Slots, NEW q \in Slots, p # q, serve'[p] # NoRequest, serve'[q] # NoRequest
        PROVE  overlapped' /\ serve'[p].kind = "reset" /\ serve'[q].kind = "reset"
    <2>1. CASE p = r
      BY <1>1, <1>6, <1>7, <1>8, <2>1
    <2>2. CASE q = r
      BY <1>1, <1>6, <1>7, <1>8, <2>2
    <2>3. CASE p # r /\ q # r
      BY <1>1, <1>4, <1>7, <1>8, <2>3 DEF Calm
    <2> QED
      BY <2>1, <2>2, <2>3
  <1>9. \A q \in Slots : ~serve'[q].orphan /\ (serve'[q].at = "purge" => messenger' = {})
    BY <1>1, <1>4 DEF Calm
  <1>10. rec' # {} \/ (\E q \in Slots : serve'[q].at = "codewrite") => dir'
    BY <1>1, <1>4 DEF Calm
  <1> QED
    BY <1>3, <1>5, <1>6, <1>8, <1>9, <1>10 DEF Calm, IdleSlot

\* The request of r goes to at with id and snap in hand, or ends.
GoesTo(r, at, id, snap) ==
  /\ ~IdleSlot(r)
  /\ \A q \in Slots : q # r => serve'[q] = serve[q]
  /\ serve'[r].at = at /\ serve'[r].id = id /\ serve'[r].snap = snap
  /\ serve'[r].kind = serve[r].kind /\ serve'[r].pw = serve[r].pw
  /\ ~serve'[r].orphan \/ (serve'[r].orphan <=> serve[r].orphan)

Done(r) ==
  /\ ~IdleSlot(r)
  /\ \A q \in Slots : q # r => serve'[q] = serve[q]
  /\ serve'[r] = NoRequest

LEMMA ProceedGoes ==
  ASSUME ACTypeOK, NEW r \in Slots, NEW at, Proceed(r, at), ~IdleSlot(r), at # "answer",
         serve[r].at # "answer", OnRoute([serve[r] EXCEPT !.at = at])
  PROVE  GoesTo(r, at, serve[r].id, serve[r].snap)
  <1>1. serve[r] \in Requests /\ WellFormed(serve[r])
    BY WhoIsWhere
  <1>2. WellFormed([serve[r] EXCEPT !.at = at])
    BY <1>1 DEF WellFormed, Requests
  <1> QED
    BY <1>2, ProceedIs DEF GoesTo

\* Where the steps of a request lead to.
LEMMA WhereTo ==
  ASSUME ACTypeOK, NEW r \in Slots
  PROVE  /\ TruncateAccounts(r) => GoesTo(r, "write", serve[r].id, serve[r].snap)
         /\ WriteAccounts(r) =>
              \/ serve[r].kind = "register" /\ GoesTo(r, "enter", serve[r].id, serve[r].snap)
              \/ serve[r].kind = "reset" /\ GoesTo(r, "code", serve[r].id, serve[r].snap)
              \/ serve[r].kind = "delete" /\ GoesTo(r, "pop", serve[r].id, serve[r].snap)
              \/ serve[r].kind = "other" /\ Done(r)
         /\ JoinRelay(r) => Done(r)
         /\ TruncateKey(r) =>
              IF dir THEN GoesTo(r, "keywrite", serve[r].id, serve[r].snap) ELSE Done(r)
         /\ WriteKey(r) =>
              GoesTo(r, IF serve[r].kind = "reset" THEN "save" ELSE "relay", serve[r].id, serve[r].snap)
         /\ TruncateCode(r) => GoesTo(r, "codewrite", serve[r].id, serve[r].snap)
         /\ WriteCode(r) => GoesTo(r, "answer", serve[r].id, {codes + 1})
         /\ ShowCode(r) => Done(r)
         /\ DropMessenger(r) => GoesTo(r, "purge", serve[r].id, serve[r].snap)
  <1>1. /\ serve[r] \in Requests /\ WellFormed(serve[r])
        /\ serve[r].at = "idle" <=> IdleSlot(r)
        /\ serve[r].at \in {"save", "write"} => serve[r].kind \in {"register", "reset", "delete", "other"}
        /\ serve[r].at \in {"key", "keywrite"} => serve[r].kind \in {"register", "login", "reset"}
        /\ serve[r].at \in {"code", "codewrite", "answer"} => serve[r].kind \in {"code", "reset"}
        /\ serve[r].at \in {"pop", "purge"} => serve[r].kind = "delete"
    BY WhoIsWhere
  <1>2. ASSUME Finish(r), ~IdleSlot(r) PROVE Done(r)
    BY <1>2, FinishIs DEF Done
  <1>3. ASSUME TruncateAccounts(r) PROVE GoesTo(r, "write", serve[r].id, serve[r].snap)
    <2>1. Proceed(r, "write") /\ serve[r].at = "save" /\ OnRoute([serve[r] EXCEPT !.at = "write"])
      BY <1>1, <1>3 DEF TruncateAccounts, OnRoute, Requests
    <2> QED
      BY <1>1, <2>1, ProceedGoes
  <1>4. ASSUME WriteAccounts(r)
        PROVE  \/ serve[r].kind = "register" /\ GoesTo(r, "enter", serve[r].id, serve[r].snap)
               \/ serve[r].kind = "reset" /\ GoesTo(r, "code", serve[r].id, serve[r].snap)
               \/ serve[r].kind = "delete" /\ GoesTo(r, "pop", serve[r].id, serve[r].snap)
               \/ serve[r].kind = "other" /\ Done(r)
    <2>1. serve[r].at = "write" /\ ~IdleSlot(r)
      BY <1>1, <1>4 DEF WriteAccounts
    <2>2. CASE serve[r].kind = "register"
      <3>1. Proceed(r, "enter") /\ OnRoute([serve[r] EXCEPT !.at = "enter"])
        BY <1>1, <1>4, <2>2 DEF WriteAccounts, OnRoute, Requests
      <3> QED
        BY <2>1, <2>2, <3>1, ProceedGoes
    <2>3. CASE serve[r].kind = "reset"
      <3>1. Proceed(r, "code") /\ OnRoute([serve[r] EXCEPT !.at = "code"])
        BY <1>1, <1>4, <2>3 DEF WriteAccounts, OnRoute, Requests
      <3> QED
        BY <2>1, <2>3, <3>1, ProceedGoes
    <2>4. CASE serve[r].kind = "delete"
      <3>1. Proceed(r, "pop") /\ OnRoute([serve[r] EXCEPT !.at = "pop"])
        BY <1>1, <1>4, <2>4 DEF WriteAccounts, OnRoute, Requests
      <3> QED
        BY <2>1, <2>4, <3>1, ProceedGoes
    <2>5. CASE serve[r].kind = "other"
      BY <1>2, <1>4, <2>1, <2>5 DEF WriteAccounts
    <2> QED
      BY <1>1, <2>1, <2>2, <2>3, <2>4, <2>5
  <1>5. JoinRelay(r) => Done(r)
    BY <1>1, <1>2 DEF JoinRelay
  <1>6. ASSUME TruncateKey(r)
        PROVE  IF dir THEN GoesTo(r, "keywrite", serve[r].id, serve[r].snap) ELSE Done(r)
    <2>1. serve[r].at = "key" /\ ~IdleSlot(r) /\ OnRoute([serve[r] EXCEPT !.at = "keywrite"])
      BY <1>1, <1>6 DEF TruncateKey, OnRoute, Requests
    <2>2. IF dir THEN Proceed(r, "keywrite") ELSE Finish(r)
      BY <1>6 DEF TruncateKey
    <2> QED
      BY <1>2, <2>1, <2>2, ProceedGoes
  <1>7. ASSUME WriteKey(r)
        PROVE  GoesTo(r, IF serve[r].kind = "reset" THEN "save" ELSE "relay", serve[r].id, serve[r].snap)
    <2> DEFINE s == [serve[r] EXCEPT !.at = IF serve[r].kind = "reset" THEN "save" ELSE "relay",
                                     !.orphan = FALSE]
    <2>1. serve' = [serve EXCEPT ![r] = s] /\ serve \in [Slots -> Requests] /\ serve[r].at = "keywrite"
      BY <1>7 DEF WriteKey, ACTypeOK
    <2>2. /\ s.kind = serve[r].kind /\ s.pw = serve[r].pw /\ s.id = serve[r].id
          /\ s.snap = serve[r].snap /\ s.orphan = FALSE
          /\ s.at = IF serve[r].kind = "reset" THEN "save" ELSE "relay"
      BY <1>1 DEF Requests
    <2> HIDE DEF s
    <2> QED
      BY <1>1, <2>1, <2>2 DEF GoesTo
  <1>8. ASSUME TruncateCode(r) PROVE GoesTo(r, "codewrite", serve[r].id, serve[r].snap)
    <2>1. Proceed(r, "codewrite") /\ serve[r].at = "code" /\ OnRoute([serve[r] EXCEPT !.at = "codewrite"])
      BY <1>1, <1>8 DEF TruncateCode, OnRoute, Requests
    <2> QED
      BY <1>1, <2>1, ProceedGoes
  <1>9. ASSUME WriteCode(r) PROVE GoesTo(r, "answer", serve[r].id, {codes + 1})
    <2> DEFINE s == [serve[r] EXCEPT !.at = "answer", !.snap = {codes + 1}, !.orphan = FALSE]
    <2>1. serve' = [serve EXCEPT ![r] = s] /\ serve \in [Slots -> Requests] /\ serve[r].at = "codewrite"
      BY <1>9 DEF WriteCode, ACTypeOK
    <2>2. /\ s.kind = serve[r].kind /\ s.pw = serve[r].pw /\ s.id = serve[r].id
          /\ s.snap = {codes + 1} /\ s.orphan = FALSE /\ s.at = "answer"
      BY <1>1 DEF Requests
    <2> HIDE DEF s
    <2> QED
      BY <1>1, <2>1, <2>2 DEF GoesTo
  <1>10. ShowCode(r) => Done(r)
    BY <1>1, <1>2 DEF ShowCode
  <1>11. ASSUME DropMessenger(r) PROVE GoesTo(r, "purge", serve[r].id, serve[r].snap)
    <2>1. Proceed(r, "purge") /\ serve[r].at = "pop" /\ OnRoute([serve[r] EXCEPT !.at = "purge"])
      BY <1>1, <1>11 DEF DropMessenger, OnRoute, Requests
    <2> QED
      BY <1>1, <2>1, ProceedGoes
  <1> QED
    BY <1>3, <1>4, <1>5, <1>6, <1>7, <1>8, <1>9, <1>10, <1>11

\* The four outcomes of entering.
LEMMA EnterIs ==
  ASSUME ACTypeOK, NEW r \in Slots, Enter(r)
  PROVE  /\ serve[r].kind \in {"register", "login"}
         /\ UNCHANGED <<accounts, key, rec, messenger, asked, codes, crashes, remembered,
                        shown, first, torn, overlapped, clash>>
         /\ dir' = dir \/ dir' = TRUE
         /\ \/ Done(r)
            \/ \E k \in key : k.pw = serve[r].pw /\ GoesTo(r, "relay", k.id, serve[r].snap)
            \/ key = {} /\ GoesTo(r, "key", ids + 1, serve[r].snap)
  <1>1. /\ serve[r] \in Requests /\ WellFormed(serve[r]) /\ serve[r].at = "enter" /\ ~IdleSlot(r)
        /\ serve[r].kind \in {"register", "login"}
    BY WhoIsWhere DEF Enter
  <1>2. ASSUME NEW id, NEW at, serve' = [serve EXCEPT ![r] = [serve[r] EXCEPT !.at = at, !.id = id]]
        PROVE  GoesTo(r, at, id, serve[r].snap)
    <2> DEFINE s == [serve[r] EXCEPT !.at = at, !.id = id]
    <2>1. /\ s.kind = serve[r].kind /\ s.pw = serve[r].pw /\ s.id = id /\ s.at = at
          /\ s.snap = serve[r].snap /\ s.orphan = serve[r].orphan
      BY <1>1 DEF Requests
    <2>2. serve \in [Slots -> Requests] /\ serve' = [serve EXCEPT ![r] = s]
      BY <1>2 DEF ACTypeOK
    <2> HIDE DEF s
    <2> QED
      BY <1>1, <2>1, <2>2 DEF GoesTo
  <1>3. \/ Finish(r)
        \/ \E id \in OpensWith(serve[r].pw) :
             serve' = [serve EXCEPT ![r] = [serve[r] EXCEPT !.at = "relay", !.id = id]]
        \/ key = {} /\ serve' = [serve EXCEPT ![r] = [serve[r] EXCEPT !.at = "key", !.id = ids + 1]]
    BY DEF Enter, Replaceable
  <1>4. Finish(r) => Done(r)
    BY <1>1, FinishIs DEF Done
  <1>5. \A id \in OpensWith(serve[r].pw) : \E k \in key : k.pw = serve[r].pw /\ k.id = id
    BY DEF OpensWith
  <1>6. /\ UNCHANGED <<accounts, key, rec, messenger, asked, codes, crashes, remembered,
                       shown, first, torn, overlapped, clash>>
        /\ dir' = dir \/ dir' = TRUE
    BY DEF Enter
  <1>7. CASE Finish(r)
    BY <1>1, <1>4, <1>6, <1>7
  <1>8. CASE \E id \in OpensWith(serve[r].pw) :
               serve' = [serve EXCEPT ![r] = [serve[r] EXCEPT !.at = "relay", !.id = id]]
    <2>1. PICK id \in OpensWith(serve[r].pw) :
            serve' = [serve EXCEPT ![r] = [serve[r] EXCEPT !.at = "relay", !.id = id]]
      BY <1>8
    <2>2. GoesTo(r, "relay", id, serve[r].snap)
      BY <1>2, <2>1
    <2> QED
      BY <1>1, <1>5, <1>6, <2>2
  <1>9. CASE key = {} /\ serve' = [serve EXCEPT ![r] = [serve[r] EXCEPT !.at = "key", !.id = ids + 1]]
    <2>1. GoesTo(r, "key", ids + 1, serve[r].snap)
      BY <1>2, <1>9
    <2> QED
      BY <1>1, <1>6, <1>9, <2>1
  <1> QED
    BY <1>3, <1>7, <1>8, <1>9

\* A request begins, with all that it brings.
Begun(r, kind, at, pw, id, snap, keep) ==
  /\ IdleSlot(r)
  /\ \A q \in Slots : q # r => serve'[q] = serve[q]
  /\ serve'[r].at = at /\ serve'[r].kind = kind /\ serve'[r].pw = pw
  /\ serve'[r].id = id /\ serve'[r].snap = snap
  /\ overlapped' = (overlapped \/ Others(r) # {})
  /\ remembered' = keep
  /\ UNCHANGED <<accounts, key, rec, dir, messenger, crashes, shown, first, torn>>
  /\ CalmInv'
  /\ ~clash' => /\ ~clash
                /\ \A q \in Slots \ {r} :
                     ~IdleSlot(q) => overlapped' /\ serve[q].kind = "reset" /\ kind = "reset"
                /\ kind = "register" => \A k \in key : k.pw = pw

LEMMA BeginBegun ==
  ASSUME ACTypeOK, CalmInv, NEW r \in Slots, NEW keep,
         NEW kind \in {"register", "login", "code", "reset", "delete", "other"},
         NEW at \in {"save", "enter", "key", "code"},
         NEW pw \in Passwords \cup {0}, NEW id \in Nat, NEW snap \in SUBSET (Passwords \cup Nat),
         WellFormed(Serving(kind, at, pw, id, snap)), Begin(r, Serving(kind, at, pw, id, snap), keep),
         rec' = rec
  PROVE  Begun(r, kind, at, pw, id, snap, keep)
  <1>1. /\ CalmInv'
        /\ ~clash' => /\ ~clash
                      /\ \A q \in Slots \ {r} :
                           ~IdleSlot(q) => overlapped' /\ serve[q].kind = "reset" /\ kind = "reset"
                      /\ kind = "register" => \A k \in key : k.pw = pw
    <2>1. StartsCalm(r, kind, pw)
      BY CalmBegins
    <2> QED
      BY <2>1 DEF StartsCalm
  <1>2. /\ IdleSlot(r)
        /\ \A q \in Slots : q # r => serve'[q] = serve[q]
        /\ serve'[r].at = at /\ serve'[r].kind = kind /\ serve'[r].pw = pw
        /\ serve'[r].id = id /\ serve'[r].snap = snap
    <2> DEFINE s == Serving(kind, at, pw, id, snap)
    <2>1. s.at = at /\ s.kind = kind /\ s.pw = pw /\ s.id = id /\ s.snap = snap
      BY DEF Serving
    <2>2. IdleSlot(r) /\ serve' = [serve EXCEPT ![r] = s] /\ serve \in [Slots -> Requests]
      BY DEF Begin, ACTypeOK
    <2> HIDE DEF s
    <2> QED
      BY <2>1, <2>2
  <1>4. /\ overlapped' = (overlapped \/ Others(r) # {})
        /\ remembered' = keep
    BY DEF Begin
  <1>3. UNCHANGED <<accounts, key, dir, messenger, crashes, shown, first, torn>>
    BY DEF Begin
  <1> QED
    BY <1>1, <1>2, <1>3, <1>4, Zenon DEF Begun

\* Whoever asks for a reset has forgotten the passwords there were.
KeptAt(r, pw) == IF \E q \in Others(r) : serve[q].kind = "reset" THEN remembered \cup {pw} ELSE {pw}

\* The six requests.
LEMMA RequestIs ==
  ASSUME ACTypeOK, CalmInv, NEW r \in Slots
  PROVE  /\ \A pw \in Passwords :
              /\ RequestRegister(r, pw) =>
                   Begun(r, "register", "save", pw, 0, {pw}, remembered \cup {pw}) /\ accounts = {}
              /\ RequestLogin(r, pw) =>
                   Begun(r, "login", "enter", pw, 0, {}, remembered \cup {pw}) /\ accounts = {pw}
              /\ RequestReset(r, pw) =>
                   /\ accounts # {}
                   /\ \E x \in rec :
                        x.code \in shown /\ Begun(r, "reset", "key", pw, x.id, {pw}, KeptAt(r, pw))
         /\ RequestCode(r) => \E id \in messenger : Begun(r, "code", "code", 0, id, {}, remembered)
         /\ RequestDelete(r) => Begun(r, "delete", "save", 0, 0, {}, remembered)
         /\ RequestOther(r) => Begun(r, "other", "save", 0, 0, accounts, remembered)
  <1>0. 0 \in Nat /\ 0 \in Passwords \cup {0} /\ {} \in SUBSET (Passwords \cup Nat)
    OBVIOUS
  <1>1. ASSUME NEW pw \in Passwords, RequestRegister(r, pw)
        PROVE  Begun(r, "register", "save", pw, 0, {pw}, remembered \cup {pw}) /\ accounts = {}
    <2>1. WellFormed(Serving("register", "save", pw, 0, {pw}))
      BY DEF WellFormed, OnRoute, Serving
    <2>2. /\ Begin(r, Serving("register", "save", pw, 0, {pw}), remembered \cup {pw})
          /\ rec' = rec /\ accounts = {}
      BY <1>1 DEF RequestRegister
    <2> QED
      BY <1>0, <2>1, <2>2, BeginBegun
  <1>2. ASSUME NEW pw \in Passwords, RequestLogin(r, pw)
        PROVE  Begun(r, "login", "enter", pw, 0, {}, remembered \cup {pw}) /\ accounts = {pw}
    <2>1. WellFormed(Serving("login", "enter", pw, 0, {}))
      BY DEF WellFormed, OnRoute, Serving
    <2>2. /\ Begin(r, Serving("login", "enter", pw, 0, {}), remembered \cup {pw})
          /\ rec' = rec /\ accounts = {pw} /\ pw \in Passwords \cup {0}
      BY <1>2 DEF RequestLogin
    <2> QED
      BY <1>0, <2>1, <2>2, BeginBegun
  <1>3. ASSUME NEW pw \in Passwords, RequestReset(r, pw)
        PROVE  /\ accounts # {}
               /\ \E x \in rec :
                    x.code \in shown /\ Begun(r, "reset", "key", pw, x.id, {pw}, KeptAt(r, pw))
    <2>1. PICK x \in rec :
            x.code \in shown /\ Begin(r, Serving("reset", "key", pw, x.id, {pw}), KeptAt(r, pw))
      BY <1>3 DEF RequestReset, KeptAt
    <2>2. WellFormed(Serving("reset", "key", pw, x.id, {pw}))
      BY DEF WellFormed, OnRoute, Serving
    <2>3. /\ accounts # {} /\ rec' = rec /\ x.id \in Nat /\ pw \in Passwords \cup {0}
          /\ {pw} \in SUBSET (Passwords \cup Nat)
      BY <1>3 DEF RequestReset, WhenUsed, ACTypeOK
    <2>4. Begun(r, "reset", "key", pw, x.id, {pw}, KeptAt(r, pw))
      BY <2>1, <2>2, <2>3, BeginBegun
    <2> QED
      BY <2>1, <2>3, <2>4
  <1>4. ASSUME RequestCode(r)
        PROVE  \E id \in messenger : Begun(r, "code", "code", 0, id, {}, remembered)
    <2>1. PICK id \in messenger : Begin(r, Serving("code", "code", 0, id, {}), remembered)
      BY <1>4 DEF RequestCode
    <2>2. WellFormed(Serving("code", "code", 0, id, {}))
      BY DEF WellFormed, OnRoute, Serving
    <2>3. rec' = rec /\ id \in Nat
      BY <1>4 DEF RequestCode, ACTypeOK
    <2>4. Begun(r, "code", "code", 0, id, {}, remembered)
      BY <1>0, <2>1, <2>2, <2>3, BeginBegun
    <2> QED
      BY <2>4
  <1>5. ASSUME RequestDelete(r) PROVE Begun(r, "delete", "save", 0, 0, {}, remembered)
    <2>1. WellFormed(Serving("delete", "save", 0, 0, {}))
      BY DEF WellFormed, OnRoute, Serving
    <2>2. rec' = rec /\ Begin(r, Serving("delete", "save", 0, 0, {}), remembered)
      BY <1>5 DEF RequestDelete
    <2> QED
      BY <1>0, <2>1, <2>2, BeginBegun
  <1>6. ASSUME RequestOther(r) PROVE Begun(r, "other", "save", 0, 0, accounts, remembered)
    <2>1. WellFormed(Serving("other", "save", 0, 0, accounts))
      BY DEF WellFormed, OnRoute, Serving, ACTypeOK
    <2>2. rec' = rec /\ Begin(r, Serving("other", "save", 0, 0, accounts), remembered)
          /\ accounts \in SUBSET (Passwords \cup Nat)
      BY <1>6 DEF RequestOther, ACTypeOK
    <2> QED
      BY <1>0, <2>1, <2>2, BeginBegun
  <1> QED
    BY <1>1, <1>2, <1>3, <1>4, <1>5, <1>6

\* A deletion is alone when it purges, and nothing is under way after it.
LEMMA PurgeEnds ==
  ASSUME ACTypeOK, ACTypeOK', CalmInv, ~clash, NEW r \in Slots, Purge(r)
  PROVE  \A q \in Slots : serve'[q] = NoRequest
  <1>0. NoRequest.at = "idle" /\ NoRequest.kind = "none"
    BY DEF NoRequest, Serving
  <1>1. serve[r].kind = "delete" /\ ~IdleSlot(r)
    BY WhoIsWhere DEF Purge
  <1>2. \A q \in Slots : q # r => IdleSlot(q)
    BY <1>1, AloneUnlessReset
  <1>3. ASSUME NEW q \in Slots PROVE serve'[q].kind = "none" /\ serve'[q].at = "idle"
    <2>1. CASE q = r
      BY <1>0, <2>1 DEF Purge
    <2>2. CASE q # r
      <3>1. serve[q] = NoRequest /\ serve[q] \in Requests
        BY <1>2, <2>2, WhoIsWhere DEF IdleSlot
      <3>2. serve'[q] = [serve[q] EXCEPT !.orphan = serve[q].at \in {"keywrite", "codewrite"}]
        BY <2>2 DEF Purge
      <3>3. serve'[q].kind = serve[q].kind /\ serve'[q].at = serve[q].at
        BY <3>1, <3>2 DEF Requests
      <3> QED
        BY <1>0, <3>1, <3>3
    <2> QED
      BY <2>1, <2>2
  <1> QED
    BY <1>3 DEF ACTypeOK, WellFormed, OnRoute

\* Requests stay apart.
LEMMA CalmStep ==
  ASSUME ACTypeOK, ACTypeOK', CalmInv, [ACNext]_acVars
  PROVE  CalmInv'
  <1>0. NoRequest.at = "idle" /\ NoRequest.kind = "none" /\ ~NoRequest.orphan
    BY DEF NoRequest, Serving
  <1>1. ASSUME NEW r \in Slots, NEW pw \in Passwords,
               RequestRegister(r, pw) \/ RequestLogin(r, pw) \/ RequestReset(r, pw)
        PROVE  CalmInv'
    BY <1>1, RequestIs DEF Begun
  <1>2. ASSUME NEW r \in Slots, RequestCode(r) \/ RequestDelete(r) \/ RequestOther(r)
        PROVE  CalmInv'
    BY <1>2, RequestIs DEF Begun
  <1>3. ASSUME NEW r \in Slots, NEW at \in {"write", "enter", "code", "pop", "relay", "key", "keywrite",
                                            "save", "answer"},
               NEW id, NEW snap, GoesTo(r, at, id, snap),
               UNCHANGED <<clash, overlapped>>,
               dir => dir',
               ~clash /\ rec' # {} => rec # {} \/ dir',
               ~clash /\ at = "keywrite" => dir'
        PROVE  CalmInv'
    <2>1. \A q \in Slots : serve'[q].at = "codewrite" => serve[q].at = "codewrite"
      BY <1>3 DEF GoesTo
    <2>2. ~clash /\ (rec' # {} \/ (\E q \in Slots : serve'[q].at = "codewrite")) => dir'
      BY <1>3, <2>1 DEF CalmInv, Calm
    <2> QED
      BY <1>3, <2>2, CalmMoves DEF GoesTo
  <1>4. ASSUME NEW r \in Slots, Done(r), UNCHANGED <<clash, overlapped, rec, dir>>
        PROVE  CalmInv'
    <2>1. \A q \in Slots : serve'[q].at = "codewrite" => serve[q].at = "codewrite"
      BY <1>0, <1>4 DEF Done
    <2>2. ~clash /\ (rec' # {} \/ (\E q \in Slots : serve'[q].at = "codewrite")) => dir'
      BY <1>4, <2>1 DEF CalmInv, Calm
    <2> QED
      BY <1>0, <1>4, <2>2, CalmMoves DEF Done
  <1>5. ASSUME NEW r \in Slots, TruncateAccounts(r) PROVE CalmInv'
    BY <1>3, <1>5, WhereTo DEF TruncateAccounts, acHistory
  <1>6. ASSUME NEW r \in Slots, WriteAccounts(r) PROVE CalmInv'
    BY <1>3, <1>4, <1>6, WhereTo DEF WriteAccounts, acHistory
  <1>7. ASSUME NEW r \in Slots, Enter(r) PROVE CalmInv'
    <2>1. UNCHANGED <<clash, overlapped, rec>> /\ (dir => dir')
      BY <1>7, EnterIs
    <2>2. CASE Done(r)
      <3>1. \A q \in Slots : serve'[q].at = "codewrite" => serve[q].at = "codewrite"
        BY <1>0, <2>2 DEF Done
      <3>2. ~clash /\ (rec' # {} \/ (\E q \in Slots : serve'[q].at = "codewrite")) => dir'
        BY <2>1, <3>1 DEF CalmInv, Calm
      <3> QED
        BY <1>0, <2>1, <2>2, <3>2, CalmMoves DEF Done
    <2>3. ASSUME NEW id, NEW at \in {"relay", "key"}, GoesTo(r, at, id, serve[r].snap) PROVE CalmInv'
      BY <1>3, <2>1, <2>3
    <2> QED
      BY <1>7, <2>2, <2>3, EnterIs
  <1>8. ASSUME NEW r \in Slots, JoinRelay(r) \/ ShowCode(r) PROVE CalmInv'
    BY <1>4, <1>8, WhereTo DEF JoinRelay, ShowCode, kept, acHistory
  <1>9. ASSUME NEW r \in Slots, TruncateKey(r) PROVE CalmInv'
    BY <1>3, <1>4, <1>9, WhereTo DEF TruncateKey, acHistory
  <1>10. ASSUME NEW r \in Slots, WriteKey(r) PROVE CalmInv'
    <2>1. UNCHANGED <<clash, overlapped, rec, dir>>
      BY <1>10 DEF WriteKey
    <2> QED
      BY <1>3, <1>10, <2>1, WhereTo
  <1>11. ASSUME NEW r \in Slots, TruncateCode(r) PROVE CalmInv'
    <2>1. UNCHANGED <<clash, overlapped>> /\ dir'
      BY <1>11 DEF TruncateCode, acHistory
    <2>2. GoesTo(r, "codewrite", serve[r].id, serve[r].snap)
      BY <1>11, WhereTo
    <2> QED
      BY <2>1, <2>2, CalmMoves DEF GoesTo
  <1>12. ASSUME NEW r \in Slots, WriteCode(r) PROVE CalmInv'
    <2>1. UNCHANGED <<clash, overlapped, dir>> /\ serve[r].at = "codewrite"
      BY <1>12 DEF WriteCode
    <2>2. ~clash => dir'
      BY <2>1 DEF CalmInv, Calm
    <2> QED
      BY <1>3, <1>12, <2>1, <2>2, WhereTo
  <1>13. ASSUME NEW r \in Slots, DropMessenger(r) PROVE CalmInv'
    <2>1. UNCHANGED <<clash, overlapped, rec, dir>> /\ messenger' = {}
      BY <1>13 DEF DropMessenger, kept, acHistory
    <2>2. GoesTo(r, "purge", serve[r].id, serve[r].snap)
      BY <1>13, WhereTo
    <2>3. \A q \in Slots : serve'[q].at = "codewrite" => serve[q].at = "codewrite"
      BY <2>2 DEF GoesTo
    <2>4. ~clash /\ (rec' # {} \/ (\E q \in Slots : serve'[q].at = "codewrite")) => dir'
      BY <2>1, <2>3 DEF CalmInv, Calm
    <2> QED
      BY <2>1, <2>2, <2>4, CalmMoves DEF GoesTo
  <1>14. ASSUME NEW r \in Slots, Purge(r) PROVE CalmInv'
    <2> SUFFICES ASSUME ~clash PROVE Calm'
      BY <1>14 DEF Purge, CalmInv
    <2>4. \A q \in Slots : serve'[q] = NoRequest
      BY <1>14, PurgeEnds
    <2>5. rec' = {}
      BY <1>14 DEF Purge
    <2> QED
      BY <1>0, <2>4, <2>5 DEF Calm, IdleSlot
  <1>15. CASE Crash
    <2> SUFFICES ASSUME ~clash' PROVE Calm'
      BY DEF CalmInv
    <2>1. \A q \in Slots : serve'[q] = NoRequest
      BY <1>15 DEF Crash
    <2>2. ~clash /\ UNCHANGED <<rec, dir>>
      BY <1>15 DEF Crash, kept
    <2>3. rec # {} => dir
      BY <2>2 DEF CalmInv, Calm
    <2> QED
      BY <1>0, <2>1, <2>2, <2>3 DEF Calm, IdleSlot
  <1>16. CASE UNCHANGED acVars
    BY <1>16 DEF acVars, acHistory, kept, CalmInv, Calm, IdleSlot
  <1> QED
    BY <1>1, <1>2, <1>5, <1>6, <1>7, <1>8, <1>9, <1>10, <1>11, <1>12, <1>13, <1>14, <1>15, <1>16
    DEF ACNext

------------------------------------------------------------------------------
(* The identity *)

\* A step of one request that leaves the first identity as it was.
LEMMA FirstMoves ==
  ASSUME FirstInv, ~clash, ~torn, NEW r \in Slots,
         \A q \in Slots : q # r => serve'[q] = serve[q],
         first' = first,
         \A id \in messenger' : id \in first,
         \A x \in key' : x.id \in first,
         \A x \in rec' : x.id \in first,
         serve'[r].kind \in {"reset", "code"} \/ serve'[r].at = "relay" => serve'[r].id \in first,
         serve'[r].kind \in {"register", "login"} /\ serve'[r].at \in {"key", "keywrite"} => first = {},
         key' = {} => (key = {} /\ serve[r].at # "keywrite") \/ serve'[r].at = "keywrite"
  PROVE  FirstInv'
  <1>1. /\ key = {} => first = {} \/ \E q \in Slots : serve[q].at = "keywrite"
        /\ \A q \in Slots :
             /\ serve[q].kind \in {"reset", "code"} \/ serve[q].at = "relay" => serve[q].id \in first
             /\ serve[q].kind \in {"register", "login"} /\ serve[q].at \in {"key", "keywrite"} => first = {}
    BY DEF FirstInv
  <1>2. messenger' \cup {x.id : x \in key' \cup rec'} \subseteq first'
    OBVIOUS
  <1>3. key' = {} => first' = {} \/ \E q \in Slots : serve'[q].at = "keywrite"
    <2>1. CASE serve'[r].at = "keywrite"
      BY <2>1
    <2>2. CASE key = {} /\ serve[r].at # "keywrite"
      BY <1>1, <2>2
    <2> QED
      BY <2>1, <2>2
  <1>4. \A q \in Slots :
          /\ serve'[q].kind \in {"reset", "code"} \/ serve'[q].at = "relay" => serve'[q].id \in first'
          /\ serve'[q].kind \in {"register", "login"} /\ serve'[q].at \in {"key", "keywrite"} => first' = {}
    <2> TAKE q \in Slots
    <2>1. CASE q = r
      BY <2>1
    <2>2. CASE q # r
      BY <1>1, <2>2
    <2> QED
      BY <2>1, <2>2
  <1> QED
    BY <1>2, <1>3, <1>4 DEF FirstInv

\* What the first identity covers, taken apart.
LEMMA FirstCovers ==
  ASSUME FirstInv, ~clash, ~torn
  PROVE  /\ \A id \in messenger : id \in first
         /\ \A x \in key : x.id \in first
         /\ \A x \in rec : x.id \in first
         /\ key = {} => first = {} \/ \E q \in Slots : serve[q].at = "keywrite"
         /\ \A q \in Slots :
              /\ serve[q].kind \in {"reset", "code"} \/ serve[q].at = "relay" => serve[q].id \in first
              /\ serve[q].kind \in {"register", "login"} /\ serve[q].at \in {"key", "keywrite"} => first = {}
  <1>1. messenger \cup {x.id : x \in key \cup rec} \subseteq first
    BY DEF FirstInv
  <1>2. \A x \in key \cup rec : x.id \in first
    BY <1>1
  <1> QED
    BY <1>1, <1>2 DEF FirstInv

LEMMA FirstStep ==
  ASSUME ACTypeOK, ACTypeOK', CalmInv, FirstInv, [ACNext]_acVars
  PROVE  FirstInv'
  <1>0. NoRequest.at = "idle" /\ NoRequest.kind = "none"
    BY DEF NoRequest, Serving
  <1> SUFFICES ASSUME ~clash', ~torn' PROVE FirstInv'
    BY DEF FirstInv
  <1>1. ASSUME NEW r \in Slots, NEW kind, NEW at, NEW pw, NEW id, NEW snap, NEW keep,
               Begun(r, kind, at, pw, id, snap, keep),
               at \in {"save", "enter", "key", "code"},
               at = "key" => kind = "reset",
               kind = "reset" => \E x \in rec : x.id = id,
               kind = "code" => id \in messenger
        PROVE  FirstInv'
    <2>1. /\ ~clash /\ ~torn /\ first' = first
          /\ UNCHANGED <<key, rec, messenger>>
          /\ \A q \in Slots : q # r => serve'[q] = serve[q]
          /\ serve'[r].at = at /\ serve'[r].kind = kind /\ serve'[r].id = id
          /\ serve[r].at = "idle"
      BY <1>0, <1>1 DEF Begun, IdleSlot
    <2> QED
      BY <1>1, <2>1, FirstCovers, FirstMoves
  <1>2. ASSUME NEW r \in Slots, NEW pw \in Passwords,
               RequestRegister(r, pw) \/ RequestLogin(r, pw) \/ RequestReset(r, pw)
        PROVE  FirstInv'
    <2>1. CASE RequestRegister(r, pw)
      <3>1. Begun(r, "register", "save", pw, 0, {pw}, remembered \cup {pw})
        BY <2>1, RequestIs
      <3> QED
        BY <1>1, <3>1
    <2>2. CASE RequestLogin(r, pw)
      <3>1. Begun(r, "login", "enter", pw, 0, {}, remembered \cup {pw})
        BY <2>2, RequestIs
      <3> QED
        BY <1>1, <3>1
    <2>3. CASE RequestReset(r, pw)
      <3>1. PICK x \in rec : Begun(r, "reset", "key", pw, x.id, {pw}, KeptAt(r, pw))
        BY <2>3, RequestIs
      <3> QED
        BY <1>1, <3>1
    <2> QED
      BY <1>2, <2>1, <2>2, <2>3
  <1>3. ASSUME NEW r \in Slots, RequestCode(r) \/ RequestDelete(r) \/ RequestOther(r)
        PROVE  FirstInv'
    <2>1. CASE RequestCode(r)
      <3>1. PICK id \in messenger : Begun(r, "code", "code", 0, id, {}, remembered)
        BY <2>1, RequestIs
      <3> QED
        BY <1>1, <3>1
    <2>2. CASE RequestDelete(r)
      <3>1. Begun(r, "delete", "save", 0, 0, {}, remembered)
        BY <2>2, RequestIs
      <3> QED
        BY <1>1, <3>1
    <2>3. CASE RequestOther(r)
      <3>1. Begun(r, "other", "save", 0, 0, accounts, remembered)
        BY <2>3, RequestIs
      <3> QED
        BY <1>1, <3>1
    <2> QED
      BY <1>3, <2>1, <2>2, <2>3
  <1>4. ASSUME NEW r \in Slots, NEW at, NEW snap, GoesTo(r, at, serve[r].id, snap),
               at \in {"write", "enter", "code", "pop", "purge", "codewrite", "answer"},
               UNCHANGED <<key, first, torn, clash>>, serve[r].at # "keywrite",
               messenger' \subseteq messenger,
               \A x \in rec' : x \in rec \/ (x.id = serve[r].id /\ serve[r].kind \in {"reset", "code"})
        PROVE  FirstInv'
    <2>1. /\ ~clash /\ ~torn /\ first' = first
          /\ \A q \in Slots : q # r => serve'[q] = serve[q]
          /\ serve'[r].at = at /\ serve'[r].kind = serve[r].kind /\ serve'[r].id = serve[r].id
      BY <1>4 DEF GoesTo
    <2> QED
      BY <1>4, <2>1, FirstCovers, FirstMoves
  <1>5. ASSUME NEW r \in Slots, Done(r), serve[r].at # "keywrite",
               UNCHANGED <<key, rec, first, torn, clash>>,
               \A id \in messenger' : id \in messenger \/ (id = serve[r].id /\ serve[r].at = "relay")
        PROVE  FirstInv'
    <2>1. /\ ~clash /\ ~torn /\ first' = first
          /\ \A q \in Slots : q # r => serve'[q] = serve[q]
          /\ serve'[r].at = "idle" /\ serve'[r].kind = "none"
      BY <1>0, <1>5 DEF Done
    <2> QED
      BY <1>5, <2>1, FirstCovers, FirstMoves
  <1>6. ASSUME NEW r \in Slots, TruncateAccounts(r) PROVE FirstInv'
    <2>1. GoesTo(r, "write", serve[r].id, serve[r].snap) /\ serve[r].at = "save"
      BY <1>6, WhereTo DEF TruncateAccounts
    <2>2. UNCHANGED <<key, rec, messenger, first, torn, clash>>
      BY <1>6 DEF TruncateAccounts, acHistory
    <2> QED
      BY <1>4, <2>1, <2>2
  <1>7. ASSUME NEW r \in Slots, WriteAccounts(r) PROVE FirstInv'
    <2>1. /\ UNCHANGED <<key, rec, messenger, first, torn, clash>> /\ serve[r].at = "write"
          /\ messenger' \subseteq messenger
      BY <1>7 DEF WriteAccounts, acHistory
    <2>2. \/ \E at \in {"enter", "code", "pop"} : GoesTo(r, at, serve[r].id, serve[r].snap)
          \/ Done(r)
      BY <1>7, WhereTo
    <2> QED
      BY <1>4, <1>5, <2>1, <2>2
  <1>8. ASSUME NEW r \in Slots, Enter(r) PROVE FirstInv'
    <2>1. /\ serve[r].kind \in {"register", "login"} /\ serve[r].at = "enter"
          /\ UNCHANGED <<key, rec, messenger, first, torn, clash>>
          /\ ~clash /\ ~torn
      BY <1>8, EnterIs DEF Enter
    <2>2. CASE Done(r)
      BY <1>5, <2>1, <2>2
    <2>3. ASSUME NEW k \in key, GoesTo(r, "relay", k.id, serve[r].snap) PROVE FirstInv'
      <3>1. /\ \A q \in Slots : q # r => serve'[q] = serve[q]
            /\ serve'[r].at = "relay" /\ serve'[r].kind = serve[r].kind /\ serve'[r].id = k.id
        BY <2>3 DEF GoesTo
      <3> QED
        BY <2>1, <3>1, FirstCovers, FirstMoves
    <2>4. CASE key = {} /\ GoesTo(r, "key", ids + 1, serve[r].snap)
      <3>1. /\ \A q \in Slots : q # r => serve'[q] = serve[q]
            /\ serve'[r].at = "key" /\ serve'[r].kind = serve[r].kind /\ ~IdleSlot(r)
        BY <2>4 DEF GoesTo
      <3>2. \A q \in Slots : q # r => IdleSlot(q)
        BY <2>1, <3>1, AloneUnlessReset
      <3>3. \A q \in Slots : serve[q].at # "keywrite"
        BY <1>0, <2>1, <3>2 DEF IdleSlot
      <3>4. first = {}
        BY <2>1, <2>4, <3>3, FirstCovers
      <3> QED
        BY <2>1, <2>4, <3>1, <3>4, FirstCovers, FirstMoves
    <2> QED
      BY <1>8, <2>2, <2>3, <2>4, EnterIs
  <1>9. ASSUME NEW r \in Slots, JoinRelay(r) PROVE FirstInv'
    <2>1. Done(r) /\ serve[r].at = "relay"
      BY <1>9, WhereTo DEF JoinRelay
    <2>2. /\ UNCHANGED <<key, rec, first, torn, clash>>
          /\ \A id \in messenger' : id = serve[r].id
      BY <1>9 DEF JoinRelay, kept, acHistory
    <2> QED
      BY <1>5, <2>1, <2>2
  <1>10. ASSUME NEW r \in Slots, TruncateKey(r) PROVE FirstInv'
    <2>1. serve[r].at = "key" /\ UNCHANGED <<rec, messenger, first, torn, clash>>
      BY <1>10 DEF TruncateKey, acHistory
    <2>2. CASE dir
      <3>1. /\ \A q \in Slots : q # r => serve'[q] = serve[q]
            /\ serve'[r].at = "keywrite" /\ serve'[r].kind = serve[r].kind /\ serve'[r].id = serve[r].id
        BY <1>10, <2>2, WhereTo DEF GoesTo
      <3>2. key' = {}
        BY <1>10, <2>2 DEF TruncateKey
      <3> QED
        BY <2>1, <3>1, <3>2, FirstCovers, FirstMoves
    <2>3. CASE ~dir
      <3>1. Done(r) /\ key' = key
        BY <1>10, <2>3, WhereTo DEF TruncateKey
      <3> QED
        BY <1>5, <2>1, <3>1
    <2> QED
      BY <2>2, <2>3
  <1>11. ASSUME NEW r \in Slots, WriteKey(r) PROVE FirstInv'
    <2>1. /\ serve[r].at = "keywrite" /\ UNCHANGED <<rec, messenger, torn, clash>>
          /\ first' = (IF first = {} THEN {serve[r].id} ELSE first)
          /\ ~clash /\ ~torn
      BY <1>11 DEF WriteKey
    <2>2. key' = {[id |-> serve[r].id, pw |-> serve[r].pw]}
      BY <1>11, <2>1 DEF WriteKey, CalmInv, Calm
    <2>3. /\ \A q \in Slots : q # r => serve'[q] = serve[q]
          /\ serve'[r].at = (IF serve[r].kind = "reset" THEN "save" ELSE "relay")
          /\ serve'[r].kind = serve[r].kind /\ serve'[r].id = serve[r].id /\ ~IdleSlot(r)
      BY <1>11, WhereTo DEF GoesTo
    <2>4. serve[r].kind \in {"register", "login", "reset"}
      BY <2>1, WhoIsWhere
    <2>5. CASE first # {}
      <3>1. first' = first /\ serve[r].kind = "reset" /\ serve[r].id \in first
        BY <2>1, <2>4, <2>5, FirstCovers
      <3>2. \A x \in key' : x.id \in first
        BY <2>2, <3>1
      <3> QED
        BY <2>1, <2>2, <2>3, <3>1, <3>2, FirstCovers, FirstMoves
    <2>6. CASE first = {}
      <3>1. serve[r].kind \in {"register", "login"} /\ messenger = {} /\ rec = {}
        BY <2>1, <2>4, <2>6, FirstCovers
      <3>2. \A q \in Slots : q # r => serve'[q].at = "idle" /\ serve'[q].kind = "none"
        BY <1>0, <2>1, <2>3, <3>1, AloneUnlessReset DEF IdleSlot
      <3>3. messenger' \cup {x.id : x \in key' \cup rec'} \subseteq first' /\ key' # {}
        BY <2>1, <2>2, <2>6, <3>1
      <3>4. \A q \in Slots :
              /\ serve'[q].kind \in {"reset", "code"} \/ serve'[q].at = "relay" => serve'[q].id \in first'
              /\ serve'[q].kind \in {"register", "login"} /\ serve'[q].at \in {"key", "keywrite"} => first' = {}
        BY <2>1, <2>3, <2>6, <3>1, <3>2
      <3> QED
        BY <3>3, <3>4 DEF FirstInv
    <2> QED
      BY <2>5, <2>6
  <1>12. ASSUME NEW r \in Slots, TruncateCode(r) PROVE FirstInv'
    <2>1. GoesTo(r, "codewrite", serve[r].id, serve[r].snap) /\ serve[r].at = "code"
      BY <1>12, WhereTo DEF TruncateCode
    <2>2. UNCHANGED <<key, messenger, first, torn, clash>> /\ rec' = {}
      BY <1>12 DEF TruncateCode, acHistory
    <2> QED
      BY <1>4, <2>1, <2>2
  <1>13. ASSUME NEW r \in Slots, WriteCode(r) PROVE FirstInv'
    <2>1. GoesTo(r, "answer", serve[r].id, {codes + 1}) /\ serve[r].at = "codewrite"
      BY <1>13, WhereTo DEF WriteCode
    <2>2. UNCHANGED <<key, messenger, first, torn, clash>> /\ serve[r].kind \in {"reset", "code"}
      BY <1>13, <2>1, WhoIsWhere DEF WriteCode
    <2>3. \A x \in rec' : x \in rec \/ x.id = serve[r].id
      BY <1>13 DEF WriteCode
    <2> QED
      BY <1>4, <2>1, <2>2, <2>3
  <1>14. ASSUME NEW r \in Slots, ShowCode(r) PROVE FirstInv'
    <2>1. Done(r) /\ serve[r].at = "answer" /\ UNCHANGED <<key, rec, messenger, first, torn, clash>>
      BY <1>14, WhereTo DEF ShowCode, kept
    <2> QED
      BY <1>5, <2>1
  <1>15. ASSUME NEW r \in Slots, DropMessenger(r) PROVE FirstInv'
    <2>1. GoesTo(r, "purge", serve[r].id, serve[r].snap) /\ serve[r].at = "pop"
      BY <1>15, WhereTo DEF DropMessenger
    <2>2. UNCHANGED <<key, rec, first, torn, clash>> /\ messenger' = {}
      BY <1>15 DEF DropMessenger, kept, acHistory
    <2> QED
      BY <1>4, <2>1, <2>2
  <1>16. ASSUME NEW r \in Slots, Purge(r) PROVE FirstInv'
    <2>1. /\ serve[r].at = "purge" /\ key' = {} /\ rec' = {} /\ first' = {}
          /\ messenger' = messenger /\ ~clash
      BY <1>16 DEF Purge
    <2>2. messenger = {}
      BY <2>1 DEF CalmInv, Calm
    <2>3. \A q \in Slots : serve'[q] = NoRequest
      BY <1>16, <2>1, PurgeEnds
    <2> QED
      BY <1>0, <2>1, <2>2, <2>3 DEF FirstInv
  <1>17. CASE Crash
    <2>1. /\ ~clash /\ ~torn /\ messenger' = {} /\ UNCHANGED <<key, rec, first>>
          /\ \A q \in Slots : serve[q].at # "keywrite" /\ serve'[q] = NoRequest
      BY <1>17 DEF Crash, kept
    <2>2. key = {} => first = {}
      BY <2>1, FirstCovers
    <2>3. messenger' \cup {x.id : x \in key' \cup rec'} \subseteq first'
      BY <2>1, FirstCovers
    <2> QED
      BY <1>0, <2>1, <2>2, <2>3 DEF FirstInv
  <1>18. CASE UNCHANGED acVars
    BY <1>18 DEF acVars, acHistory, kept, FirstInv
  <1> QED
    BY <1>2, <1>3, <1>6, <1>7, <1>8, <1>9, <1>10, <1>11, <1>12, <1>13, <1>14, <1>15, <1>16, <1>17, <1>18
    DEF ACNext

------------------------------------------------------------------------------
(* The ways in *)

\* What WayInv says of a request that is alone, and no reset.
LEMMA WayAlone ==
  ASSUME WayInv, ~clash, crashes <= 1, NEW r \in Slots, serve[r].kind # "reset",
         \A q \in Slots : q # r => serve[q] = NoRequest
  PROVE  /\ serve[r] = NoRequest => WaysIn(accounts)
         /\ LeavesWay(r)
         /\ messenger # {} /\ accounts = {} => serve[r].at \in {"write", "pop"}
         /\ ~overlapped /\ crashes = 0 =>
              Sound(accounts) /\ (serve[r].kind = "other" => Sound(serve[r].snap))
  <1>0. NoRequest.at = "idle" /\ NoRequest.kind = "none"
    BY DEF NoRequest, Serving
  <1>1. serve[r] = NoRequest => WaysIn(accounts)
    BY DEF WayInv, OwnerCanGetIn, IdleSlot
  <1>2. LeavesWay(r)
    BY DEF WayInv
  <1>3. messenger # {} /\ accounts = {} => serve[r].at \in {"write", "pop"}
    BY <1>0 DEF WayInv
  <1>4. ASSUME ~overlapped, crashes = 0
        PROVE  Sound(accounts) /\ (serve[r].kind = "other" => Sound(serve[r].snap))
    <2>1. AloneLeavesWay
      BY <1>4 DEF WayInv
    <2>2. \A q \in Slots : serve[q].kind # "reset"
      BY <1>0
    <2> QED
      BY <2>1, <2>2 DEF AloneLeavesWay
  <1> QED
    BY <1>1, <1>2, <1>3, <1>4

\* And what suffices for it after a step.
LEMMA AloneWay ==
  ASSUME NEW r \in Slots, serve'[r].kind # "reset",
         \A q \in Slots : q # r => serve'[q] = NoRequest,
         serve'[r] = NoRequest => WaysIn(accounts)',
         serve'[r] # NoRequest => LeavesWay(r)',
         messenger' # {} /\ accounts' = {} => serve'[r].at \in {"write", "pop"},
         ~overlapped' /\ crashes' = 0 =>
           Sound(accounts)' /\ (serve'[r].kind = "other" => Sound(serve[r].snap)')
  PROVE  WayInv'
  <1>0. NoRequest.at = "idle" /\ NoRequest.kind = "none"
    BY DEF NoRequest, Serving
  <1>1. OwnerCanGetIn'
    BY DEF OwnerCanGetIn, IdleSlot
  <1>2. ASSUME NEW q \in Slots PROVE LeavesWay(q)'
    <2>1. CASE serve'[q] = NoRequest
      BY <1>0, <2>1 DEF LeavesWay
    <2>2. CASE serve'[q] # NoRequest
      BY <2>2
    <2> QED
      BY <2>1, <2>2
  <1>3. \A q \in Slots : serve'[q].kind # "reset"
    BY <1>0
  <1>4. ~overlapped' /\ crashes' = 0 => AloneLeavesWay'
    <2> SUFFICES ASSUME ~overlapped', crashes' = 0 PROVE AloneLeavesWay'
      OBVIOUS
    <2>1. Sound(accounts)'
      OBVIOUS
    <2>2. ASSUME NEW q \in Slots, serve'[q].kind = "other" PROVE Sound(serve[q].snap)'
      BY <1>0, <2>2
    <2> QED
      BY <1>3, <2>1, <2>2 DEF AloneLeavesWay
  <1> QED
    BY <1>1, <1>2, <1>3, <1>4 DEF WayInv

LEMMA AloneGoes ==
  ASSUME NEW r \in Slots, serve[r].kind # "reset", UNCHANGED <<clash, crashes, overlapped>>,
         \A q \in Slots : q # r => serve[q] = NoRequest,
         NEW at, NEW id, NEW snap, GoesTo(r, at, id, snap), at # "idle",
         LeavesWay(r)',
         messenger' # {} /\ accounts' = {} => at \in {"write", "pop"},
         ~overlapped /\ crashes = 0 =>
           Sound(accounts)' /\ (serve[r].kind = "other" => Sound(serve[r].snap)')
  PROVE  WayInv'
  <1>0. NoRequest.at = "idle"
    BY DEF NoRequest, Serving
  <1>1. /\ serve'[r].kind = serve[r].kind /\ serve'[r].at = at
        /\ \A q \in Slots : q # r => serve'[q] = NoRequest
    BY DEF GoesTo
  <1> QED
    BY <1>0, <1>1, AloneWay

LEMMA AloneDone ==
  ASSUME NEW r \in Slots, UNCHANGED <<clash, crashes, overlapped>>,
         \A q \in Slots : serve'[q] = NoRequest,
         WaysIn(accounts)',
         messenger' = {} \/ accounts' # {},
         ~overlapped /\ crashes = 0 => Sound(accounts)'
  PROVE  WayInv'
  <1>0. NoRequest.at = "idle" /\ NoRequest.kind = "none"
    BY DEF NoRequest, Serving
  <1> QED
    BY <1>0, AloneWay

\* A request that is no reset begins alone.
LEMMA WayBegins ==
  ASSUME ACTypeOK, CalmInv, WayInv, ~clash', crashes' <= 1, NEW r \in Slots,
         NEW kind, NEW at, NEW pw, NEW id, NEW snap, NEW keep, kind # "reset", at # "idle",
         Begun(r, kind, at, pw, id, snap, keep), remembered \subseteq keep,
         WaysIn(accounts)' /\ (messenger # {} => accounts # {}) => LeavesWay(r)',
         Sound(accounts) => Sound(accounts)' /\ (kind = "other" => Sound(serve[r].snap)')
  PROVE  WayInv'
  <1>0. NoRequest.at = "idle" /\ NoRequest.kind = "none"
    BY DEF NoRequest, Serving
  <1>1. /\ ~clash /\ crashes <= 1 /\ crashes' = crashes
        /\ serve[r] = NoRequest /\ serve[r].kind # "reset"
        /\ UNCHANGED <<accounts, key, rec, shown, messenger>>
        /\ ~overlapped' => ~overlapped
        /\ remembered' = keep
    BY <1>0 DEF Begun, IdleSlot
  <1>2. \A q \in Slots : q # r => serve[q] = NoRequest /\ serve'[q] = NoRequest
    BY DEF Begun, IdleSlot
  <1>3. /\ WaysIn(accounts)
        /\ messenger # {} => accounts # {}
        /\ ~overlapped /\ crashes = 0 => Sound(accounts)
    BY <1>0, <1>1, <1>2, WayAlone
  <1>4. serve'[r].kind = kind /\ serve'[r].at = at
    BY DEF Begun
  <1>5. WaysIn(accounts)'
    BY <1>1, <1>3 DEF WaysIn
  <1>6. LeavesWay(r)'
    BY <1>3, <1>5
  <1>7. ~overlapped' /\ crashes' = 0 =>
          Sound(accounts)' /\ (serve'[r].kind = "other" => Sound(serve[r].snap)')
    BY <1>1, <1>3, <1>4
  <1> QED
    BY <1>1, <1>2, <1>3, <1>4, <1>5, <1>6, <1>7, AloneWay

LEMMA WayRequests ==
  ASSUME ACTypeOK, CalmInv, WayInv, ~clash', crashes' <= 1, NEW r \in Slots,
         \/ \E pw \in Passwords : RequestRegister(r, pw) \/ RequestLogin(r, pw)
         \/ RequestCode(r) \/ RequestDelete(r) \/ RequestOther(r)
  PROVE  WayInv'
  <1>0. NoRequest.at = "idle" /\ NoRequest.kind = "none"
    BY DEF NoRequest, Serving
  <1>1. ASSUME NEW pw \in Passwords, RequestRegister(r, pw) PROVE WayInv'
    <2>1. Begun(r, "register", "save", pw, 0, {pw}, remembered \cup {pw}) /\ accounts = {}
      BY <1>1, RequestIs
    <2>2. /\ serve'[r].kind = "register" /\ serve'[r].at = "save" /\ serve'[r].pw = pw
          /\ serve'[r].snap = {pw} /\ remembered' = remembered \cup {pw}
          /\ UNCHANGED <<accounts, key, messenger>>
          /\ \A k \in key : k.pw = pw
      BY <2>1 DEF Begun
    <2>3. (messenger # {} => accounts # {}) => LeavesWay(r)'
      BY <2>1, <2>2 DEF LeavesWay
    <2>4. Sound(accounts)'
      BY <2>1, <2>2 DEF Sound
    <2> QED
      BY <2>1, <2>3, <2>4, WayBegins
  <1>2. ASSUME NEW pw \in Passwords, RequestLogin(r, pw) PROVE WayInv'
    <2>1. Begun(r, "login", "enter", pw, 0, {}, remembered \cup {pw}) /\ accounts = {pw}
      BY <1>2, RequestIs
    <2>2. /\ serve'[r].kind = "login" /\ serve'[r].at = "enter" /\ serve'[r].pw = pw
          /\ remembered' = remembered \cup {pw}
          /\ UNCHANGED <<accounts, key, messenger>>
      BY <2>1 DEF Begun
    <2>3. WaysIn(accounts)' => LeavesWay(r)'
      BY <2>1, <2>2 DEF LeavesWay
    <2>4. Sound(accounts) => Sound(accounts)'
      BY <2>2 DEF Sound
    <2> QED
      BY <2>1, <2>3, <2>4, WayBegins
  <1>3. ASSUME RequestCode(r) PROVE WayInv'
    <2>1. PICK id \in messenger : Begun(r, "code", "code", 0, id, {}, remembered)
      BY <1>3, RequestIs
    <2>2. /\ serve'[r].kind = "code" /\ serve'[r].at = "code" /\ remembered' = remembered
          /\ UNCHANGED <<accounts, key, messenger>>
      BY <2>1 DEF Begun
    <2>3. WaysIn(accounts)' /\ (messenger # {} => accounts # {}) => LeavesWay(r)'
      BY <2>1, <2>2 DEF LeavesWay
    <2>4. Sound(accounts) => Sound(accounts)'
      BY <2>2 DEF Sound
    <2> QED
      BY <2>1, <2>3, <2>4, WayBegins
  <1>4. ASSUME RequestDelete(r) PROVE WayInv'
    <2>1. Begun(r, "delete", "save", 0, 0, {}, remembered)
      BY <1>4, RequestIs
    <2>2. /\ serve'[r].kind = "delete" /\ serve'[r].at = "save" /\ serve'[r].snap = {}
          /\ remembered' = remembered /\ UNCHANGED <<accounts, key, messenger>>
      BY <2>1 DEF Begun
    <2>3. LeavesWay(r)'
      BY <2>2 DEF LeavesWay
    <2>4. Sound(accounts) => Sound(accounts)'
      BY <2>2 DEF Sound
    <2> QED
      BY <2>1, <2>3, <2>4, WayBegins
  <1>5. ASSUME RequestOther(r) PROVE WayInv'
    <2>1. Begun(r, "other", "save", 0, 0, accounts, remembered)
      BY <1>5, RequestIs
    <2>2. /\ serve'[r].kind = "other" /\ serve'[r].at = "save" /\ serve'[r].snap = accounts
          /\ remembered' = remembered /\ UNCHANGED <<accounts, key, messenger>>
      BY <2>1 DEF Begun
    <2>3. WaysIn(accounts)' /\ (messenger # {} => accounts # {}) => LeavesWay(r)'
      BY <2>2 DEF LeavesWay, WaysIn
    <2>4. Sound(accounts) => Sound(accounts)' /\ Sound(serve[r].snap)'
      BY <2>2 DEF Sound
    <2> QED
      BY <2>1, <2>3, <2>4, WayBegins
  <1> QED
    BY <1>1, <1>2, <1>3, <1>4, <1>5

\* A request that is alone, and no reset, goes on.
LEMMA WayGoesOn ==
  ASSUME ACTypeOK, ACTypeOK', CalmInv, WayInv, ~clash, crashes <= 1, NEW r \in Slots,
         ~IdleSlot(r), serve[r].kind # "reset",
         \/ TruncateAccounts(r) \/ WriteAccounts(r) \/ Enter(r) \/ JoinRelay(r)
         \/ TruncateKey(r) \/ WriteKey(r) \/ TruncateCode(r) \/ WriteCode(r) \/ ShowCode(r)
         \/ DropMessenger(r) \/ Purge(r)
  PROVE  WayInv'
  <1>0. NoRequest.at = "idle" /\ NoRequest.kind = "none"
    BY DEF NoRequest, Serving
  <1>1. \A q \in Slots : q # r => serve[q] = NoRequest
    BY AloneUnlessReset DEF IdleSlot
  <1>2. /\ LeavesWay(r)
        /\ messenger # {} /\ accounts = {} => serve[r].at \in {"write", "pop"}
        /\ ~overlapped /\ crashes = 0 =>
             Sound(accounts) /\ (serve[r].kind = "other" => Sound(serve[r].snap))
    BY <1>1, WayAlone
  <1>3. ASSUME Done(r) PROVE \A q \in Slots : serve'[q] = NoRequest
    BY <1>1, <1>3 DEF Done
  <1>4. ASSUME TruncateAccounts(r) PROVE WayInv'
    <2>1. GoesTo(r, "write", serve[r].id, serve[r].snap)
      BY <1>4, WhereTo
    <2>2. /\ UNCHANGED <<key, rec, messenger, shown, remembered, clash, crashes, overlapped>>
          /\ accounts' = {} /\ serve[r].at = "save"
      BY <1>4 DEF TruncateAccounts, acHistory
    <2>3. /\ serve'[r].at = "write" /\ serve'[r].kind = serve[r].kind /\ serve'[r].pw = serve[r].pw
          /\ serve'[r].snap = serve[r].snap
          /\ serve[r].kind \in {"register", "delete", "other"}
      BY <2>1, <2>2, WhoIsWhere DEF GoesTo
    <2>4. LeavesWay(r)'
      BY <1>2, <2>2, <2>3 DEF LeavesWay, WaysIn
    <2>5. Sound(accounts) => Sound(accounts)'
      BY <2>2 DEF Sound
    <2>6. Sound(serve[r].snap) => Sound(serve[r].snap)'
      BY <2>2, <2>3 DEF Sound
    <2> QED
      BY <1>1, <1>2, <2>1, <2>2, <2>4, <2>5, <2>6, AloneGoes
  <1>5. ASSUME WriteAccounts(r) PROVE WayInv'
    <2>1. /\ UNCHANGED <<key, rec, messenger, shown, remembered, clash, crashes, overlapped>>
          /\ accounts' = serve[r].snap /\ serve[r].at = "write"
      BY <1>5 DEF WriteAccounts, acHistory
    <2>2. CASE serve[r].kind = "register"
      <3>1. GoesTo(r, "enter", serve[r].id, serve[r].snap)
        BY <1>5, <2>2, WhereTo
      <3>2. /\ serve'[r].at = "enter" /\ serve'[r].kind = "register" /\ serve'[r].pw = serve[r].pw
            /\ serve'[r].snap = serve[r].snap
        BY <2>2, <3>1 DEF GoesTo
      <3>3. /\ accounts' = {serve[r].pw} /\ serve[r].snap = {serve[r].pw}
            /\ serve[r].pw \in remembered /\ \A k \in key : k.pw = serve[r].pw
        BY <1>2, <2>1, <2>2 DEF LeavesWay
      <3>4. LeavesWay(r)'
        BY <2>1, <3>2, <3>3 DEF LeavesWay
      <3>5. Sound(accounts)'
        BY <2>1, <3>3 DEF Sound
      <3> QED
        BY <1>1, <2>1, <2>2, <3>1, <3>3, <3>4, <3>5, AloneGoes
    <2>3. CASE serve[r].kind = "delete"
      <3>1. GoesTo(r, "pop", serve[r].id, serve[r].snap)
        BY <1>5, <2>3, WhereTo
      <3>2. /\ serve'[r].at = "pop" /\ serve'[r].kind = "delete" /\ serve'[r].snap = serve[r].snap
        BY <2>3, <3>1 DEF GoesTo
      <3>3. /\ accounts' = {} /\ serve[r].snap = {}
        BY <1>2, <2>1, <2>3 DEF LeavesWay
      <3>4. LeavesWay(r)'
        BY <2>1, <3>2, <3>3 DEF LeavesWay
      <3>5. Sound(accounts) => Sound(accounts)'
        BY <2>1, <3>3 DEF Sound
      <3> QED
        BY <1>1, <1>2, <2>1, <2>3, <3>1, <3>3, <3>4, <3>5, AloneGoes
    <2>4. CASE serve[r].kind = "other"
      <3>1. Done(r)
        BY <1>5, <2>4, WhereTo
      <3>2. WaysIn(serve[r].snap) /\ (messenger # {} => serve[r].snap # {})
        BY <1>2, <2>4 DEF LeavesWay
      <3>3. WaysIn(accounts)'
        BY <2>1, <3>2 DEF WaysIn
      <3>4. Sound(serve[r].snap) => Sound(accounts)'
        BY <2>1 DEF Sound
      <3> QED
        BY <1>2, <1>3, <2>1, <2>4, <3>1, <3>2, <3>3, <3>4, AloneDone
    <2> QED
      BY <1>5, <2>1, <2>2, <2>3, <2>4, WhereTo
  <1>6. ASSUME UNCHANGED <<accounts, shown, remembered, clash, crashes, overlapped>>,
               serve[r].at \in {"enter", "key", "keywrite", "relay"},
               serve[r].kind \in {"register", "login"},
               rec' = rec,
               key' = key \/ (\A k \in key' : k.pw = serve[r].pw),
               \/ Done(r)
               \/ \E at \in {"enter", "key", "keywrite", "relay"}, id \in Nat :
                     GoesTo(r, at, id, serve[r].snap)
        PROVE  WayInv'
    <2>1. accounts = {serve[r].pw} /\ serve[r].pw \in remembered
      BY <1>2, <1>6 DEF LeavesWay
    <2>2. WaysIn(accounts)
      BY <1>2, <1>6, <2>1 DEF LeavesWay, WaysIn
    <2>3. WaysIn(accounts)'
      <3>1. CASE key' = key
        BY <1>6, <2>2, <3>1 DEF WaysIn
      <3>2. CASE \A k \in key' : k.pw = serve[r].pw
        BY <1>6, <2>1, <3>2 DEF WaysIn
      <3> QED
        BY <1>6, <3>1, <3>2
    <2>4. Sound(accounts) => Sound(accounts)'
      <3>1. CASE key' = key
        BY <1>6, <3>1 DEF Sound
      <3>2. CASE \A k \in key' : k.pw = serve[r].pw
        BY <1>6, <2>1, <3>2 DEF Sound
      <3> QED
        BY <1>6, <3>1, <3>2
    <2>5. CASE Done(r)
      BY <1>2, <1>3, <1>6, <2>1, <2>3, <2>4, <2>5, AloneDone
    <2>6. ASSUME NEW at \in {"enter", "key", "keywrite", "relay"}, NEW id \in Nat,
                 GoesTo(r, at, id, serve[r].snap)
          PROVE  WayInv'
      <3>1. /\ serve'[r].at = at /\ serve'[r].kind = serve[r].kind /\ serve'[r].pw = serve[r].pw
            /\ serve'[r].snap = serve[r].snap
        BY <2>6 DEF GoesTo
      <3>2. LeavesWay(r)'
        <4>1. CASE serve[r].kind = "login"
          BY <1>6, <2>1, <2>3, <3>1, <4>1 DEF LeavesWay
        <4>2. CASE serve[r].kind = "register"
          <5>1. serve[r].snap = {serve[r].pw} /\ \A k \in key' : k.pw = serve[r].pw
            BY <1>2, <1>6, <4>2 DEF LeavesWay
          <5> QED
            BY <1>6, <2>1, <3>1, <4>2, <5>1 DEF LeavesWay
        <4> QED
          BY <1>6, <4>1, <4>2
      <3> QED
        BY <1>1, <1>2, <1>6, <2>1, <2>4, <2>6, <3>2, AloneGoes
    <2> QED
      BY <1>6, <2>5, <2>6
  <1>7. serve[r].id \in Nat
    BY WhoIsWhere DEF Requests
  <1>8. ASSUME Enter(r) PROVE WayInv'
    <2>1. /\ UNCHANGED <<accounts, key, rec, shown, remembered, clash, crashes, overlapped>>
          /\ serve[r].at = "enter" /\ serve[r].kind \in {"register", "login"}
      BY <1>8, EnterIs DEF Enter
    <2>2. \/ Done(r)
          \/ \E at \in {"enter", "key", "keywrite", "relay"}, id \in Nat :
                     GoesTo(r, at, id, serve[r].snap)
      <3>1. ids + 1 \in Nat /\ \A k \in key : k.id \in Nat
        BY AccountsAssumption DEF ACTypeOK
      <3> QED
        BY <1>8, <3>1, EnterIs
    <2> QED
      BY <1>6, <2>1, <2>2
  <1>9. ASSUME JoinRelay(r) PROVE WayInv'
    <2>1. /\ UNCHANGED <<accounts, key, rec, shown, remembered, clash, crashes, overlapped>>
          /\ serve[r].at = "relay"
      BY <1>9 DEF JoinRelay, kept, acHistory
    <2>2. Done(r) /\ serve[r].kind \in {"register", "login"}
      BY <1>9, <2>1, WhereTo, WhoIsWhere
    <2> QED
      BY <1>6, <2>1, <2>2
  <1>10. ASSUME TruncateKey(r) PROVE WayInv'
    <2>1. /\ UNCHANGED <<accounts, rec, shown, remembered, clash, crashes, overlapped>>
          /\ key' = key \/ key' = {}
          /\ serve[r].at = "key"
      BY <1>10 DEF TruncateKey, acHistory
    <2>2. /\ Done(r) \/ GoesTo(r, "keywrite", serve[r].id, serve[r].snap)
          /\ serve[r].kind \in {"register", "login"}
      BY <1>10, <2>1, WhereTo, WhoIsWhere
    <2> QED
      BY <1>6, <1>7, <2>1, <2>2
  <1>11. ASSUME WriteKey(r) PROVE WayInv'
    <2>1. /\ UNCHANGED <<accounts, rec, shown, remembered, clash, crashes, overlapped>>
          /\ key' = key \/ key' = {[id |-> serve[r].id, pw |-> serve[r].pw]}
          /\ serve[r].at = "keywrite"
      BY <1>11 DEF WriteKey
    <2>2. key' = key \/ \A k \in key' : k.pw = serve[r].pw
      BY <2>1
    <2>3. /\ GoesTo(r, "relay", serve[r].id, serve[r].snap)
          /\ serve[r].kind \in {"register", "login"}
      BY <1>11, <2>1, WhereTo, WhoIsWhere
    <2> QED
      BY <1>6, <1>7, <2>1, <2>2, <2>3
  <1>12. ASSUME TruncateCode(r) PROVE WayInv'
    <2>1. /\ UNCHANGED <<accounts, key, messenger, shown, remembered, clash, crashes, overlapped>>
          /\ serve[r].at = "code"
      BY <1>12 DEF TruncateCode, acHistory
    <2>2. GoesTo(r, "codewrite", serve[r].id, serve[r].snap) /\ serve[r].kind = "code"
      BY <1>12, <2>1, WhereTo, WhoIsWhere
    <2>3. accounts # {}
      BY <1>2, <2>2 DEF LeavesWay
    <2>4. serve'[r].at = "codewrite" /\ serve'[r].kind = "code"
      BY <2>2 DEF GoesTo
    <2>5. LeavesWay(r)'
      BY <2>1, <2>3, <2>4 DEF LeavesWay
    <2>6. Sound(accounts) => Sound(accounts)'
      BY <2>1 DEF Sound
    <2> QED
      BY <1>1, <1>2, <2>1, <2>2, <2>3, <2>5, <2>6, AloneGoes
  <1>13. ASSUME WriteCode(r) PROVE WayInv'
    <2>1. /\ UNCHANGED <<accounts, key, messenger, shown, remembered, clash, crashes, overlapped>>
          /\ serve[r].at = "codewrite"
      BY <1>13 DEF WriteCode
    <2>2. GoesTo(r, "answer", serve[r].id, {codes + 1}) /\ serve[r].kind = "code"
      BY <1>13, <2>1, WhereTo, WhoIsWhere
    <2>3. accounts # {}
      BY <1>2, <2>2 DEF LeavesWay
    <2>4. serve'[r].at = "answer" /\ serve'[r].kind = "code" /\ serve'[r].snap = {codes + 1}
      BY <2>2 DEF GoesTo
    <2>5. rec' = {[id |-> serve[r].id, code |-> codes + 1]}
      BY <1>13 DEF WriteCode, CalmInv, Calm
    <2>6. LeavesWay(r)'
      BY <2>1, <2>3, <2>4, <2>5 DEF LeavesWay
    <2>7. Sound(accounts) => Sound(accounts)'
      BY <2>1 DEF Sound
    <2> QED
      BY <1>1, <1>2, <2>1, <2>2, <2>3, <2>6, <2>7, AloneGoes
  <1>14. ASSUME ShowCode(r) PROVE WayInv'
    <2>1. /\ UNCHANGED <<accounts, key, rec, messenger, remembered, clash, crashes, overlapped>>
          /\ shown' = shown \cup serve[r].snap /\ serve[r].at = "answer"
      BY <1>14 DEF ShowCode, kept
    <2>2. Done(r) /\ serve[r].kind = "code"
      BY <1>14, <2>1, WhereTo, WhoIsWhere
    <2>3. accounts # {} /\ \E x \in rec : x.code \in serve[r].snap
      BY <1>2, <2>1, <2>2 DEF LeavesWay
    <2>4. WaysIn(accounts)'
      BY <2>1, <2>3 DEF WaysIn
    <2>5. Sound(accounts) => Sound(accounts)'
      BY <2>1 DEF Sound
    <2> QED
      BY <1>2, <1>3, <2>1, <2>2, <2>3, <2>4, <2>5, AloneDone
  <1>15. ASSUME DropMessenger(r) PROVE WayInv'
    <2>1. /\ UNCHANGED <<accounts, key, rec, remembered, shown, clash, crashes, overlapped>>
          /\ messenger' = {} /\ serve[r].at = "pop"
      BY <1>15 DEF DropMessenger, kept, acHistory
    <2>2. GoesTo(r, "purge", serve[r].id, serve[r].snap) /\ serve[r].kind = "delete"
      BY <1>15, <2>1, WhereTo, WhoIsWhere
    <2>3. accounts = {} /\ serve[r].snap = {}
      BY <1>2, <2>1, <2>2 DEF LeavesWay
    <2>4. serve'[r].at = "purge" /\ serve'[r].kind = "delete" /\ serve'[r].snap = {}
      BY <2>2, <2>3 DEF GoesTo
    <2>5. LeavesWay(r)'
      BY <2>1, <2>3, <2>4 DEF LeavesWay
    <2>6. Sound(accounts) => Sound(accounts)'
      BY <2>1 DEF Sound
    <2> QED
      BY <1>1, <1>2, <2>1, <2>2, <2>5, <2>6, AloneGoes
  <1>16. ASSUME Purge(r) PROVE WayInv'
    <2>1. /\ UNCHANGED <<accounts, messenger, remembered, shown, clash, crashes, overlapped>>
          /\ key' = {} /\ serve[r].at = "purge"
      BY <1>16 DEF Purge
    <2>2. serve[r].kind = "delete" /\ messenger = {}
      BY <2>1, WhoIsWhere DEF CalmInv, Calm
    <2>3. accounts = {}
      BY <1>2, <2>1, <2>2 DEF LeavesWay
    <2>4. WaysIn(accounts)' /\ Sound(accounts)'
      BY <2>1, <2>3 DEF WaysIn, Sound
    <2>5. \A q \in Slots : serve'[q] = NoRequest
      BY <1>16, PurgeEnds
    <2> QED
      BY <2>1, <2>2, <2>4, <2>5, AloneDone
  <1> QED
    BY <1>4, <1>5, <1>8, <1>9, <1>10, <1>11, <1>12, <1>13, <1>14, <1>15, <1>16

\* Where every request is a reset.
AllResets ==
  \A q \in Slots :
    \/ serve[q] = NoRequest
    \/ /\ serve[q].kind = "reset"
       /\ serve[q].at \in {"key", "keywrite", "save", "write"} => serve[q].snap = {serve[q].pw}

\* What suffices after a step where every request is a reset; r is alone if no
\* requests have overlapped.
LEMMA ResetWay ==
  ASSUME NEW r \in Slots, AllResets', ResetsLeaveWay',
         ~overlapped' /\ crashes' = 0 =>
           /\ \A q \in Slots : q # r => serve'[q] = NoRequest
           /\ serve'[r] # NoRequest => serve'[r].pw \in remembered'
           /\ serve'[r].at \in {"save", "write"} => \A k \in key' : k.pw = serve'[r].pw
           /\ serve'[r].at \in {"key", "keywrite", "save"} \/ Sound(accounts)'
  PROVE  WayInv'
  <1>0. NoRequest.at = "idle" /\ NoRequest.kind = "none"
    BY DEF NoRequest, Serving
  <1>1. ASSUME NEW q \in Slots PROVE LeavesWay(q)'
    <2>1. CASE serve'[q] = NoRequest
      BY <1>0, <2>1 DEF LeavesWay
    <2>2. CASE serve'[q] # NoRequest
      BY <2>2 DEF LeavesWay, AllResets
    <2> QED
      BY <2>1, <2>2
  <1>2. accounts' = {} => \E q \in Slots : serve'[q].at \in {"write", "pop"}
    BY DEF ResetsLeaveWay
  <1>3. ASSUME \A q \in Slots : IdleSlot(q)' PROVE WaysIn(accounts)'
    <2>1. \A q \in Slots : serve'[q].at = "idle"
      BY <1>0, <1>3 DEF IdleSlot
    <2> QED
      BY <2>1 DEF ResetsLeaveWay, WaysIn
  <1>4. ASSUME ~overlapped', crashes' = 0 PROVE AloneLeavesWay'
    <2>1. \A q \in Slots : q # r => serve'[q].at = "idle" /\ serve'[q].kind = "none"
      BY <1>0, <1>4
    <2>2. serve'[r].kind \in {"none", "reset"} /\ (serve'[r].kind = "reset" => serve'[r] # NoRequest)
      BY <1>0 DEF AllResets
    <2>3. \A q \in Slots :
            /\ serve'[q].kind = "reset" => serve'[q].pw \in remembered'
            /\ serve'[q].kind = "reset" /\ serve'[q].at \in {"save", "write"} =>
                 serve'[q].pw \in remembered' /\ \A k \in key' : k.pw = serve'[q].pw
            /\ serve'[q].kind # "other"
      BY <1>4, <2>1, <2>2
    <2>4. CASE serve'[r].at \in {"key", "keywrite", "save"}
      <3>1. serve'[r].kind = "reset"
        BY <1>0, <2>4 DEF AllResets
      <3>2. accounts' # {} /\ \E x \in rec' : x.code \in shown'
        BY <2>1, <2>4 DEF ResetsLeaveWay
      <3> QED
        BY <2>3, <2>4, <3>1, <3>2 DEF AloneLeavesWay
    <2>5. CASE Sound(accounts)'
      BY <2>3, <2>5 DEF AloneLeavesWay
    <2> QED
      BY <1>4, <2>4, <2>5
  <1> QED
    BY <1>1, <1>2, <1>3, <1>4 DEF WayInv, OwnerCanGetIn

\* What WayInv says while a reset is under way.
LEMMA WayResets ==
  ASSUME ACTypeOK, CalmInv, WayInv, ~clash, crashes <= 1, NEW r \in Slots, serve[r].kind = "reset"
  PROVE  /\ AllResets
         /\ ResetsLeaveWay
         /\ ~overlapped /\ crashes = 0 =>
              /\ \A q \in Slots : q # r => serve[q] = NoRequest
              /\ serve[r].pw \in remembered
              /\ serve[r].at \in {"save", "write"} => \A k \in key : k.pw = serve[r].pw
              /\ serve[r].at \in {"key", "keywrite", "save"} \/ Sound(accounts)
  <1>0. NoRequest.at = "idle" /\ NoRequest.kind = "none"
    BY DEF NoRequest, Serving
  <1>1. ~IdleSlot(r) /\ serve[r] # NoRequest
    BY <1>0 DEF IdleSlot
  <1>2. \A q \in Slots : serve[q] = NoRequest \/ serve[q].kind = "reset"
    BY <1>1 DEF CalmInv, Calm, IdleSlot
  <1>3. AllResets
    BY <1>2 DEF AllResets, WayInv, LeavesWay
  <1>4. ResetsLeaveWay
    BY DEF WayInv
  <1>5. ASSUME ~overlapped, crashes = 0
        PROVE  /\ \A q \in Slots : q # r => serve[q] = NoRequest
               /\ serve[r].pw \in remembered
               /\ serve[r].at \in {"save", "write"} => \A k \in key : k.pw = serve[r].pw
               /\ serve[r].at \in {"key", "keywrite", "save"} \/ Sound(accounts)
    <2>1. AloneLeavesWay
      BY <1>5 DEF WayInv
    <2>2. \A q \in Slots : q # r => serve[q] = NoRequest
      BY <1>1, <1>5 DEF CalmInv, Calm, IdleSlot
    <2>3. /\ serve[r].pw \in remembered
          /\ serve[r].at \in {"save", "write"} => \A k \in key : k.pw = serve[r].pw
      BY <2>1 DEF AloneLeavesWay
    <2>4. Sound(accounts) \/ \E q \in Slots : serve[q].at \in {"key", "keywrite", "save"}
      BY <2>1 DEF AloneLeavesWay
    <2>5. serve[r].at \in {"key", "keywrite", "save"} \/ Sound(accounts)
      BY <1>0, <2>2, <2>4
    <2> QED
      BY <2>2, <2>3, <2>5
  <1> QED
    BY <1>3, <1>4, <1>5

\* A reset begins, alone or beside others.
LEMMA WayReset ==
  ASSUME ACTypeOK, CalmInv, WayInv, ~clash', crashes' <= 1, NEW r \in Slots,
         NEW pw \in Passwords, RequestReset(r, pw)
  PROVE  WayInv'
  <1>0. NoRequest.at = "idle" /\ NoRequest.kind = "none"
    BY DEF NoRequest, Serving
  <1>1. PICK x \in rec : x.code \in shown /\ Begun(r, "reset", "key", pw, x.id, {pw}, KeptAt(r, pw))
    BY RequestIs
  <1>2. /\ accounts # {} /\ rec = {x}
        /\ UNCHANGED <<accounts, rec, shown, crashes>> /\ ~clash
        /\ serve[r] = NoRequest
        /\ \A q \in Slots : q # r => serve'[q] = serve[q]
        /\ serve'[r].kind = "reset" /\ serve'[r].at = "key" /\ serve'[r].pw = pw /\ serve'[r].snap = {pw}
        /\ \A q \in Slots \ {r} : serve[q] # NoRequest => overlapped' /\ serve[q].kind = "reset"
        /\ pw \in remembered'
    BY <1>1, RequestIs DEF Begun, KeptAt, IdleSlot, ACTypeOK
  <1>3. CASE \A q \in Slots : serve[q] = NoRequest
    <2>1. AllResets'
      BY <1>2, <1>3 DEF AllResets
    <2>2. ResetsLeaveWay'
      BY <1>1, <1>2 DEF ResetsLeaveWay
    <2> QED
      BY <1>2, <1>3, <2>1, <2>2, ResetWay
  <1>4. ASSUME NEW p \in Slots, serve[p] # NoRequest PROVE WayInv'
    <2>1. serve[p].kind = "reset" /\ overlapped'
      BY <1>2, <1>4
    <2>2. AllResets /\ ResetsLeaveWay
      BY <1>2, <2>1, WayResets
    <2>3. AllResets'
      BY <1>2, <2>2 DEF AllResets
    <2>4. ResetsLeaveWay'
      BY <1>1, <1>2 DEF ResetsLeaveWay
    <2> QED
      BY <2>1, <2>3, <2>4, ResetWay
  <1> QED
    BY <1>3, <1>4

\* A reset goes on, alone or beside others.
LEMMA WayResetGoesOn ==
  ASSUME ACTypeOK, CalmInv, WayInv, ~clash, crashes <= 1, NEW r \in Slots, serve[r].kind = "reset",
         \/ TruncateAccounts(r) \/ WriteAccounts(r) \/ TruncateKey(r) \/ WriteKey(r)
         \/ TruncateCode(r) \/ WriteCode(r) \/ ShowCode(r)
  PROVE  WayInv'
  <1>0. NoRequest.at = "idle" /\ NoRequest.kind = "none"
    BY DEF NoRequest, Serving
  <1>1. /\ AllResets
        /\ ResetsLeaveWay
        /\ ~overlapped /\ crashes = 0 =>
             /\ \A q \in Slots : q # r => serve[q] = NoRequest
             /\ serve[r].pw \in remembered
             /\ serve[r].at \in {"save", "write"} => \A k \in key : k.pw = serve[r].pw
             /\ serve[r].at \in {"key", "keywrite", "save"} \/ Sound(accounts)
    BY WayResets
  <1>2. ASSUME NEW at, NEW snap, GoesTo(r, at, serve[r].id, snap), at # "idle",
               at \in {"key", "keywrite", "save", "write"} => snap = {serve[r].pw},
               UNCHANGED <<remembered, crashes, overlapped>>, ResetsLeaveWay',
               ~overlapped /\ crashes = 0 =>
                 /\ at \in {"save", "write"} => \A k \in key' : k.pw = serve[r].pw
                 /\ at \in {"key", "keywrite", "save"} \/ Sound(accounts)'
        PROVE  WayInv'
    <2>1. /\ \A q \in Slots : q # r => serve'[q] = serve[q]
          /\ serve'[r].at = at /\ serve'[r].snap = snap /\ serve'[r].pw = serve[r].pw
          /\ serve'[r].kind = "reset"
      BY <1>2 DEF GoesTo
    <2>2. AllResets'
      BY <1>1, <1>2, <2>1 DEF AllResets
    <2> QED
      BY <1>1, <1>2, <2>1, <2>2, ResetWay
  <1>3. ASSUME Done(r), UNCHANGED <<remembered, crashes, overlapped>>, ResetsLeaveWay',
               ~overlapped /\ crashes = 0 => Sound(accounts)'
        PROVE  WayInv'
    <2>1. /\ \A q \in Slots : q # r => serve'[q] = serve[q]
          /\ serve'[r] = NoRequest
      BY <1>3 DEF Done
    <2>2. AllResets'
      BY <1>1, <2>1 DEF AllResets
    <2> QED
      BY <1>0, <1>1, <1>3, <2>1, <2>2, ResetWay
  <1>4. serve[r].at \in {"key", "keywrite", "save", "write"} => serve[r].snap = {serve[r].pw}
    BY <1>0, <1>1 DEF AllResets
  <1>5. ASSUME TruncateAccounts(r) PROVE WayInv'
    <2>1. /\ UNCHANGED <<key, rec, shown, remembered, crashes, overlapped>>
          /\ accounts' = {} /\ serve[r].at = "save" /\ GoesTo(r, "write", serve[r].id, serve[r].snap)
      BY <1>5, WhereTo DEF TruncateAccounts, acHistory
    <2>2. ResetsLeaveWay'
      BY <1>1, <2>1 DEF ResetsLeaveWay, GoesTo
    <2>3. ~overlapped /\ crashes = 0 => Sound(accounts)'
      BY <1>1, <2>1 DEF Sound
    <2> QED
      BY <1>1, <1>2, <1>4, <2>1, <2>2, <2>3
  <1>6. ASSUME WriteAccounts(r) PROVE WayInv'
    <2>1. /\ UNCHANGED <<key, rec, shown, remembered, crashes, overlapped>>
          /\ accounts' = serve[r].snap /\ serve[r].at = "write"
          /\ GoesTo(r, "code", serve[r].id, serve[r].snap)
      BY <1>6, WhereTo DEF WriteAccounts, acHistory
    <2>2. accounts' = {serve[r].pw}
      BY <1>4, <2>1
    <2>3. ResetsLeaveWay'
      BY <1>1, <2>1, <2>2 DEF ResetsLeaveWay, GoesTo
    <2>4. ~overlapped /\ crashes = 0 => Sound(accounts)'
      BY <1>1, <2>1, <2>2 DEF Sound
    <2> QED
      BY <1>2, <2>1, <2>3, <2>4
  <1>7. ASSUME TruncateKey(r) PROVE WayInv'
    <2>1. /\ UNCHANGED <<accounts, rec, shown, remembered, crashes, overlapped>>
          /\ serve[r].at = "key"
      BY <1>7 DEF TruncateKey, acHistory
    <2>2. CASE dir
      <3>1. GoesTo(r, "keywrite", serve[r].id, serve[r].snap)
        BY <1>7, <2>2, WhereTo
      <3>2. ResetsLeaveWay'
        BY <1>1, <2>1, <3>1 DEF ResetsLeaveWay, GoesTo
      <3> QED
        BY <1>2, <1>4, <2>1, <3>1, <3>2
    <2>3. CASE ~dir
      <3>1. Done(r)
        BY <1>7, <2>3, WhereTo
      <3>2. ResetsLeaveWay'
        BY <1>1, <2>1, <3>1 DEF ResetsLeaveWay, Done
      <3>3. ASSUME ~overlapped, crashes = 0 PROVE FALSE
        <4>1. \A q \in Slots : serve[q].at # "codewrite"
          BY <1>0, <1>1, <2>1, <3>3
        <4>2. rec # {}
          BY <1>1, <4>1 DEF ResetsLeaveWay
        <4> QED
          BY <2>3, <4>2 DEF CalmInv, Calm
      <3> QED
        BY <1>3, <2>1, <3>1, <3>2, <3>3
    <2> QED
      BY <2>2, <2>3
  <1>8. ASSUME WriteKey(r) PROVE WayInv'
    <2>1. /\ UNCHANGED <<accounts, rec, shown, remembered, crashes, overlapped>>
          /\ serve[r].at = "keywrite" /\ GoesTo(r, "save", serve[r].id, serve[r].snap)
      BY <1>8, WhereTo DEF WriteKey
    <2>2. key' = {[id |-> serve[r].id, pw |-> serve[r].pw]}
      BY <1>8 DEF WriteKey, CalmInv, Calm
    <2>3. ResetsLeaveWay'
      BY <1>1, <2>1 DEF ResetsLeaveWay, GoesTo
    <2>4. \A k \in key' : k.pw = serve[r].pw
      BY <2>2
    <2> QED
      BY <1>2, <1>4, <2>1, <2>3, <2>4
  <1>9. ASSUME TruncateCode(r) PROVE WayInv'
    <2>1. /\ UNCHANGED <<accounts, key, shown, remembered, crashes, overlapped>> /\ rec' = {}
          /\ serve[r].at = "code" /\ GoesTo(r, "codewrite", serve[r].id, serve[r].snap)
      BY <1>9, WhereTo DEF TruncateCode, acHistory
    <2>2. ResetsLeaveWay'
      BY <1>1, <2>1 DEF ResetsLeaveWay, GoesTo
    <2>3. ~overlapped /\ crashes = 0 => Sound(accounts)'
      BY <1>1, <2>1 DEF Sound
    <2> QED
      BY <1>2, <2>1, <2>2, <2>3
  <1>10. ASSUME WriteCode(r) PROVE WayInv'
    <2>1. /\ UNCHANGED <<accounts, key, shown, remembered, crashes, overlapped>>
          /\ serve[r].at = "codewrite" /\ GoesTo(r, "answer", serve[r].id, {codes + 1})
      BY <1>10, WhereTo DEF WriteCode
    <2>2. rec' = {[id |-> serve[r].id, code |-> codes + 1]}
      BY <1>10 DEF WriteCode, CalmInv, Calm
    <2>3. ResetsLeaveWay'
      <3>1. serve'[r].at = "answer" /\ serve'[r].snap = {codes + 1}
            /\ \A q \in Slots : q # r => serve'[q] = serve[q]
        BY <2>1 DEF GoesTo
      <3>2. accounts' = {} => \E q \in Slots : serve'[q].at = "write"
        BY <1>1, <2>1, <3>1 DEF ResetsLeaveWay
      <3>3. rec' # {} /\ \A x \in rec' : x.code \in serve'[r].snap
        BY <2>2, <3>1
      <3> QED
        BY <3>1, <3>2, <3>3 DEF ResetsLeaveWay
    <2>4. ~overlapped /\ crashes = 0 => Sound(accounts)'
      BY <1>1, <2>1 DEF Sound
    <2> QED
      BY <1>2, <2>1, <2>3, <2>4
  <1>11. ASSUME ShowCode(r) PROVE WayInv'
    <2>1. /\ UNCHANGED <<accounts, key, rec, remembered, crashes, overlapped>>
          /\ shown' = shown \cup serve[r].snap
          /\ serve[r].at = "answer" /\ Done(r)
      BY <1>11, WhereTo DEF ShowCode, kept
    <2>2. ResetsLeaveWay'
      <3>1. \A q \in Slots : q # r => serve'[q] = serve[q]
        BY <2>1 DEF Done
      <3> QED
        BY <1>1, <2>1, <3>1 DEF ResetsLeaveWay
    <2>3. ~overlapped /\ crashes = 0 => Sound(accounts)'
      BY <1>1, <2>1 DEF Sound
    <2> QED
      BY <1>3, <2>1, <2>2, <2>3
  <1> QED
    BY <1>5, <1>6, <1>7, <1>8, <1>9, <1>10, <1>11

LEMMA WayCrash ==
  ASSUME WayInv, Crash, ~clash', crashes \in Nat, crashes' <= 1
  PROVE  WayInv'
  <1>0. NoRequest.at = "idle" /\ NoRequest.kind = "none"
    BY DEF NoRequest, Serving
  <1>1. /\ ~clash /\ ~overlapped /\ crashes = 0 /\ crashes' = 1
        /\ messenger' = {} /\ UNCHANGED <<accounts, key, rec, remembered, shown>>
        /\ \A q \in Slots : serve'[q] = NoRequest
    <2>1. ~(clash \/ overlapped)
      BY Zenon DEF Crash
    <2>2. /\ crashes = 0 /\ crashes' = 1
          /\ messenger' = {} /\ UNCHANGED <<accounts, key, rec, remembered, shown>>
          /\ serve' = [q \in Slots |-> NoRequest]
      BY DEF Crash, kept
    <2> QED
      BY <2>1, <2>2
  <1>2. WaysIn(accounts)
    <2>1. AloneLeavesWay
      BY <1>1 DEF WayInv
    <2>2. CASE Sound(accounts)
      <3>1. CASE accounts = {}
        BY <2>2, <3>1 DEF Sound, WaysIn
      <3>2. CASE accounts # {}
        BY <2>2, <3>2 DEF Sound, WaysIn
      <3> QED
        BY <3>1, <3>2
    <2>3. CASE accounts # {} /\ \E x \in rec : x.code \in shown
      BY <2>3 DEF WaysIn
    <2> QED
      BY <2>1, <2>2, <2>3 DEF AloneLeavesWay
  <1>3. WaysIn(accounts)'
    BY <1>1, <1>2 DEF WaysIn
  <1>4. \A q \in Slots : LeavesWay(q)'
    BY <1>0, <1>1 DEF LeavesWay
  <1> QED
    BY <1>0, <1>1, <1>3, <1>4 DEF WayInv, OwnerCanGetIn

LEMMA WayStep ==
  ASSUME ACTypeOK, ACTypeOK', CalmInv, WayInv, [ACNext]_acVars
  PROVE  WayInv'
  <1>0. NoRequest.at = "idle" /\ NoRequest.kind = "none"
    BY DEF NoRequest, Serving
  <1> SUFFICES ASSUME ~clash', crashes' <= 1 PROVE WayInv'
    BY DEF WayInv
  <1>1. ASSUME NEW r \in Slots,
               \/ \E pw \in Passwords : RequestRegister(r, pw) \/ RequestLogin(r, pw)
               \/ RequestCode(r) \/ RequestDelete(r) \/ RequestOther(r)
        PROVE  WayInv'
    BY <1>1, WayRequests
  <1>2. ASSUME NEW r \in Slots, NEW pw \in Passwords, RequestReset(r, pw) PROVE WayInv'
    BY <1>2, WayReset
  <1>3. ASSUME NEW r \in Slots,
               \/ TruncateAccounts(r) \/ WriteAccounts(r) \/ Enter(r) \/ JoinRelay(r)
               \/ TruncateKey(r) \/ WriteKey(r) \/ TruncateCode(r) \/ WriteCode(r) \/ ShowCode(r)
               \/ DropMessenger(r) \/ Purge(r)
        PROVE  WayInv'
    <2>1. ~clash /\ crashes <= 1
      <3>1. TruncateAccounts(r) \/ WriteAccounts(r) \/ JoinRelay(r) => UNCHANGED <<clash, crashes>>
        BY DEF TruncateAccounts, WriteAccounts, JoinRelay, acHistory
      <3>2. TruncateKey(r) \/ TruncateCode(r) \/ DropMessenger(r) => UNCHANGED <<clash, crashes>>
        BY DEF TruncateKey, TruncateCode, DropMessenger, acHistory
      <3>3. Enter(r) \/ WriteKey(r) \/ WriteCode(r) => UNCHANGED <<clash, crashes>>
        BY EnterIs DEF WriteKey, WriteCode
      <3>4. ShowCode(r) \/ Purge(r) => UNCHANGED <<clash, crashes>>
        BY DEF ShowCode, Purge
      <3> QED
        BY <1>3, <3>1, <3>2, <3>3, <3>4
    <2>2. ~IdleSlot(r)
      BY <1>3, WhoIsWhere
      DEF TruncateAccounts, WriteAccounts, Enter, JoinRelay, TruncateKey, WriteKey,
          TruncateCode, WriteCode, ShowCode, DropMessenger, Purge
    <2>3. CASE serve[r].kind # "reset"
      BY <1>3, <2>1, <2>2, <2>3, WayGoesOn
    <2>4. CASE serve[r].kind = "reset"
      <3>1. ~(Enter(r) \/ JoinRelay(r) \/ DropMessenger(r) \/ Purge(r))
        BY <2>4, WhoIsWhere DEF Enter, JoinRelay, DropMessenger, Purge
      <3> QED
        BY <1>3, <2>1, <2>4, <3>1, WayResetGoesOn
    <2> QED
      BY <2>3, <2>4
  <1>4. CASE Crash
    <2>1. crashes \in Nat
      BY AccountsAssumption DEF ACTypeOK
    <2> QED
      BY <1>4, <2>1, WayCrash
  <1>5. CASE UNCHANGED acVars
    BY <1>5 DEF acVars, acHistory, kept, WayInv, OwnerCanGetIn, IdleSlot, WaysIn, LeavesWay,
                ResetsLeaveWay, AloneLeavesWay, Sound
  <1> QED
    BY <1>1, <1>2, <1>3, <1>4, <1>5 DEF ACNext

\* A name keeps the identity it had first, until its deletion: Identity.save,
\* generate_recovery_code and UserMessenger.__init__ never put another in its
\* place, unless a crash has left identity.key empty or requests have overlapped.
THEOREM SameIdentity == ACSpec => []IdentityKept
  <1>1. ACInit => CalmInv /\ FirstInv
    BY DEF ACInit, CalmInv, Calm, FirstInv, IdleSlot, NoRequest, Serving
  <1>2. ACTypeOK /\ ACTypeOK' /\ CalmInv /\ FirstInv /\ [ACNext]_acVars => CalmInv' /\ FirstInv'
    BY CalmStep, FirstStep
  <1>3. FirstInv => IdentityKept
    BY DEF FirstInv, IdentityKept
  <1> QED
    BY <1>1, <1>2, <1>3, AccountTypes, PTL DEF ACSpec

\* The owner of a name can always get in again: after every request, whatever
\* api_recovery_reset or the saving of the accounts was broken off by one crash.
THEOREM OwnerGetsIn == ACSpec => []OwnerCanGetIn
  <1>1. ACInit => CalmInv
    BY DEF ACInit, CalmInv, Calm, IdleSlot, NoRequest, Serving
  <1>2. ACInit => WayInv
    <2> SUFFICES ASSUME ACInit PROVE WayInv
      OBVIOUS
    <2>1. /\ accounts = {} /\ key = {} /\ messenger = {}
          /\ \A q \in Slots : serve[q].kind = "none" /\ serve[q].at = "idle"
      BY DEF ACInit, NoRequest, Serving
    <2>2. WaysIn(accounts) /\ Sound(accounts)
      BY <2>1 DEF WaysIn, Sound
    <2>3. \A q \in Slots : LeavesWay(q)
      BY <2>1 DEF LeavesWay
    <2>4. AloneLeavesWay
      BY <2>1, <2>2 DEF AloneLeavesWay
    <2> QED
      BY <2>1, <2>2, <2>3, <2>4 DEF WayInv, OwnerCanGetIn
  <1>3. /\ ACTypeOK /\ CalmInv /\ [ACNext]_acVars /\ ACTypeOK' => CalmInv'
        /\ ACTypeOK /\ ACTypeOK' /\ CalmInv /\ WayInv /\ [ACNext]_acVars => WayInv'
    BY CalmStep, WayStep
  <1>4. WayInv => OwnerCanGetIn
    BY DEF WayInv, OwnerCanGetIn
  <1> QED
    BY <1>1, <1>2, <1>3, <1>4, AccountTypes, PTL DEF ACSpec
==============================================================================
