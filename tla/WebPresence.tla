------------------------------ MODULE WebPresence ------------------------------
(***************************************************************************)
(* How what is polled from the relay reaches the browser (web_client.py):  *)
(* logins and their revocation, the poll loop of a user, the count of      *)
(* connected sockets that decides between emit and buffer, and the flush   *)
(* of the buffer on connect.                                               *)
(*                                                                         *)
(* All of the state is kept by user name, so this is one user, with a      *)
(* registered account and no passkey, in several browsers. Flask and       *)
(* Socket.IO serve each request and each event in a thread of its own: a   *)
(* handler is one step from one lock, query or emit to the next. A socket  *)
(* keeps the cookie of its handshake (manage_session=False).               *)
(*                                                                         *)
(* A browser has one socket at a time; the disconnect of a socket is       *)
(* handled after its connect is. Both are Socket.IO's.                     *)
(***************************************************************************)
EXTENDS Integers, Sequences, FiniteSets

CONSTANTS Tabs,          \* browsers
          MaxBuffer,     \* the 500 of buffer_or_emit
          MaxEvents,     \* bound: messages and files for the user
          MaxVersion,    \* bound of the session version: logouts and blocks
          MaxConnects,   \* bound: sockets that open
          MaxMishaps,    \* bound: blocks by the admin and restarts of the web server
          MaxLoops       \* bound: poll loops started between two restarts

ASSUME PresenceAssumption ==
  /\ IsFiniteSet(Tabs)
  /\ MaxBuffer \in Nat /\ MaxEvents \in Nat /\ MaxVersion \in Nat
  /\ MaxConnects \in Nat /\ MaxMishaps \in Nat
  /\ MaxLoops \in Nat \ {0}

VARIABLES version,   \* _user_sv[user], on disk as well
          blocked,   \* user in get_blocked(), on disk
          known,     \* user in users: there is a UserMessenger
          running,   \* its running
          loops,     \* its poll loops: what each is at and has polled
          online,    \* online_sockets[user]
          buffer,    \* msg_buffer[user]
          admin,     \* where the request of the admin is
          thread     \* tab -> where the request or event of the browser is

VARIABLES cookie,    \* tab -> usv of its session, or NoCookie
          socket,    \* tab -> its socket
          relay,     \* what the relay has for the user or will have, oldest first
          screen     \* tab -> what its page has received, in this order

\* History and bounds
VARIABLES connects,  \* number of sockets that opened
          mishaps,   \* number of blocks and restarts
          revoked,   \* a login was revoked while a page had a socket
          unheard,   \* sockets whose login was good and that found no messenger
                     \* when they opened
          overlap    \* a block began while a request or an event was served

server  == <<version, blocked, known, running, loops, online, buffer, admin, thread>>
browser == <<cookie, socket, relay, screen>>
wpHistory == <<connects, mishaps, revoked, unheard, overlap>>
wpVars    == <<server, browser, wpHistory>>

------------------------------------------------------------------------------
NoCookie == -1
Closed == [at |-> "closed", usv |-> NoCookie, joined |-> FALSE]

\* A thread serves a login, the connect or the disconnect of a socket, or any
\* other request of the page.
Free == [at |-> "free", for |-> "page", buf |-> <<>>]
Busy(at, for) == [at |-> at, for |-> for, buf |-> <<>>]

NoLoop == [at |-> "none", hand |-> <<>>]
NoLoops == [l \in 1 .. MaxLoops |-> NoLoop]

Events == 1 .. MaxEvents

WPInit ==
  /\ version = 0 /\ blocked = FALSE
  /\ known = FALSE /\ running = FALSE
  /\ loops = NoLoops
  /\ online = 0 /\ buffer = <<>>
  /\ admin = "idle"
  /\ thread = [t \in Tabs |-> Free]
  /\ cookie = [t \in Tabs |-> NoCookie]
  /\ socket = [t \in Tabs |-> Closed]
  /\ relay = [n \in Events |-> n]
  /\ screen = [t \in Tabs |-> <<>>]
  /\ connects = 0 /\ mishaps = 0
  /\ revoked = FALSE /\ unheard = 0 /\ overlap = FALSE

\* What a thread does once it has the messenger.
After(for) ==
  CASE for = "login"  -> Busy("answer", for)
    [] for = "open"   -> Busy("join", for)
    [] for = "close"  -> Busy("leave", for)
    [] for = "page"   -> Free

Goes(t, state) == thread' = [thread EXCEPT ![t] = state]

\* socketio.emit(..., room=username): to the open sockets that joined the room.
InRoom(t) == socket[t].joined /\ socket[t].at = "open"
Shown(event) == [t \in Tabs |-> IF InRoom(t) THEN Append(screen[t], event) ELSE screen[t]]

------------------------------------------------------------------------------
(* get_messenger, _restore_messenger, start_poll_loop *)

\* get_messenger returns None: no cookie or a revoked one; or, after a restart,
\* the name is blocked, the relay does not answer or the identity is encrypted.
NoMessenger(usv) == usv # version \/ ~known

\* It returns the messenger that is there.
HasMessenger(t, for, usv) ==
  /\ usv = version /\ known
  /\ Goes(t, After(for))
  /\ UNCHANGED known

\* It builds the messenger anew.
Restore(t, for, usv) ==
  /\ usv = version /\ ~known /\ ~blocked
  /\ known' = TRUE
  /\ Goes(t, Busy("check", for))

\* if m.running: return
StartCheck(t) ==
  /\ thread[t].at = "check"
  /\ Goes(t, IF running THEN After(thread[t].for) ELSE Busy("start", thread[t].for))
  /\ UNCHANGED <<version, blocked, known, running, loops, online, buffer, admin,
                 browser, wpHistory>>

\* m.running = True, and the thread of the loop is started.
\* Mutant: running is not set.
StartLoop_Unset(t) ==
  /\ thread[t].at = "start"
  /\ \E l \in 1 .. MaxLoops :
       /\ loops[l] = NoLoop /\ \A k \in 1 .. l - 1 : loops[k] # NoLoop
       /\ loops' = [loops EXCEPT ![l] = [at |-> "top", hand |-> <<>>]]
  /\ Goes(t, After(thread[t].for))
  /\ UNCHANGED <<version, blocked, known, running, online, buffer, admin, browser, wpHistory>>

StartLoop(t) ==
  /\ thread[t].at = "start"
  /\ running' = TRUE
  /\ \E l \in 1 .. MaxLoops :
       /\ loops[l] = NoLoop /\ \A k \in 1 .. l - 1 : loops[k] # NoLoop
       /\ loops' = [loops EXCEPT ![l] = [at |-> "top", hand |-> <<>>]]
  /\ Goes(t, After(thread[t].for))
  /\ UNCHANGED <<version, blocked, known, online, buffer, admin, browser, wpHistory>>

\* Any request of the page but a login or a logout.
Request(t) ==
  /\ thread[t] = Free
  /\ Restore(t, "page", cookie[t])
  /\ UNCHANGED <<version, blocked, running, loops, online, buffer, admin, browser, wpHistory>>

------------------------------------------------------------------------------
(* api_login, api_logout, admin_block, admin_unblock *)

\* bump_user_sv: every cookie of the user is refused from now on.
Revoke ==
  /\ version' = version + 1
  /\ revoked' = (revoked \/ \E t \in Tabs : socket[t] # Closed)

\* The checks, and the messenger under users_lock; fetch_groups follows.
Login(t) ==
  /\ thread[t] = Free
  /\ ~blocked
  /\ known' = TRUE
  /\ Goes(t, Busy("check", "login"))
  /\ UNCHANGED <<version, blocked, running, loops, online, buffer, admin, browser, wpHistory>>

\* session['usv'] = current_user_sv(username)
LoginAnswer(t) ==
  /\ thread[t].at = "answer"
  /\ cookie' = [cookie EXCEPT ![t] = version]
  /\ Goes(t, Free)
  /\ UNCHANGED <<version, blocked, known, running, loops, online, buffer, admin,
                 socket, relay, screen, wpHistory>>

\* Any session that names the user revokes all of them, a revoked one too. The
\* messenger of an account stays and goes on polling.
Logout(t) ==
  /\ version < MaxVersion /\ admin = "idle"
  /\ cookie[t] # NoCookie
  /\ cookie' = [cookie EXCEPT ![t] = NoCookie]
  /\ Revoke
  /\ UNCHANGED <<blocked, known, running, loops, online, buffer, admin, thread,
                 socket, relay, screen, connects, mishaps, unheard, overlap>>

BlockSave ==
  /\ admin = "idle" /\ mishaps < MaxMishaps /\ version < MaxVersion
  /\ blocked' = TRUE
  /\ admin' = "saved"
  /\ mishaps' = mishaps + 1
  /\ overlap' = (overlap \/ \E t \in Tabs : thread[t] # Free)
  /\ UNCHANGED <<version, known, running, loops, online, buffer, thread, browser,
                 connects, revoked, unheard>>

BlockStop ==
  /\ admin = "saved"
  /\ running' = FALSE
  /\ admin' = "stopped"
  /\ UNCHANGED <<version, blocked, known, loops, online, buffer, thread, browser, wpHistory>>

BlockRevoke ==
  /\ admin = "stopped"
  /\ Revoke
  /\ admin' = "idle"
  /\ UNCHANGED <<blocked, known, running, loops, online, buffer, thread, browser,
                 connects, mishaps, unheard, overlap>>

Unblock ==
  /\ admin = "idle" /\ blocked
  /\ blocked' = FALSE
  /\ UNCHANGED <<version, known, running, loops, online, buffer, admin, thread,
                 browser, wpHistory>>

------------------------------------------------------------------------------
(* on_connect *)

Opened(usv) == [at |-> "open", usv |-> usv, joined |-> FALSE]

\* A socket opens with the cookie of its browser.
Connect(t) ==
  /\ connects < MaxConnects
  /\ thread[t] = Free /\ socket[t] = Closed
  /\ connects' = connects + 1
  /\ socket' = [socket EXCEPT ![t] = Opened(cookie[t])]
  /\ \/ HasMessenger(t, "open", cookie[t])
     \/ Restore(t, "open", cookie[t])
     \/ NoMessenger(cookie[t]) /\ UNCHANGED <<known, thread>>
  /\ unheard' = unheard + (IF cookie[t] = version /\ ~known' THEN 1 ELSE 0)
  /\ UNCHANGED <<version, blocked, running, loops, online, buffer, admin,
                 cookie, relay, screen, mishaps, revoked, overlap>>

\* join_room, and online_sockets is counted up under the lock.
Join(t) ==
  /\ thread[t].at = "join"
  /\ socket' = [socket EXCEPT ![t].joined = TRUE]
  /\ online' = online + 1
  /\ Goes(t, Busy("flush", "open"))
  /\ UNCHANGED <<version, blocked, known, running, loops, buffer, admin,
                 cookie, relay, screen, wpHistory>>

\* flush_buffer, under the lock: msg_buffer.pop.
\* Mutant: the buffer is read, not taken.
TakeBuffer_Read(t) ==
  /\ thread[t].at = "flush"
  /\ Goes(t, IF buffer = <<>> THEN Free ELSE [at |-> "emit", for |-> "open", buf |-> buffer])
  /\ UNCHANGED <<version, blocked, known, running, loops, online, buffer, admin,
                 browser, wpHistory>>

TakeBuffer(t) ==
  /\ thread[t].at = "flush"
  /\ Goes(t, IF buffer = <<>> THEN Free ELSE [at |-> "emit", for |-> "open", buf |-> buffer])
  /\ buffer' = <<>>
  /\ UNCHANGED <<version, blocked, known, running, loops, online, admin, browser, wpHistory>>

\* flush_buffer, after the lock: one emit after the other, to the room.
EmitTaken(t) ==
  /\ thread[t].at = "emit"
  /\ screen' = Shown(Head(thread[t].buf))
  /\ Goes(t, IF Len(thread[t].buf) = 1 THEN Free
             ELSE [thread[t] EXCEPT !.buf = Tail(@)])
  /\ UNCHANGED <<version, blocked, known, running, loops, online, buffer, admin,
                 cookie, socket, relay, wpHistory>>

------------------------------------------------------------------------------
(* on_disconnect *)

\* The browser closes the page, or the connection breaks.
Break(t) ==
  /\ socket[t].at = "open"
  /\ socket' = [socket EXCEPT ![t].at = "dead"]
  /\ UNCHANGED <<server, cookie, relay, screen, wpHistory>>

\* get_messenger of on_disconnect, with the cookie of the handshake. Without a
\* messenger nothing is counted.
\* Mutant: the socket is counted down all the same.
Disconnect_Always(t) ==
  /\ socket[t].at = "dead" /\ thread[t] = Free
  /\ Goes(t, After("close"))
  /\ UNCHANGED <<version, blocked, known, running, loops, online, buffer, admin,
                 browser, wpHistory>>

Disconnect(t) ==
  /\ socket[t].at = "dead" /\ thread[t] = Free
  /\ \/ /\ HasMessenger(t, "close", socket[t].usv) \/ Restore(t, "close", socket[t].usv)
        /\ UNCHANGED socket
     \/ /\ NoMessenger(socket[t].usv)
        /\ socket' = [socket EXCEPT ![t] = Closed]
        /\ UNCHANGED <<known, thread>>
  /\ UNCHANGED <<version, blocked, running, loops, online, buffer, admin,
                 cookie, relay, screen, wpHistory>>

\* online_sockets is counted down under the lock, to no less than 0.
Leave(t) ==
  /\ thread[t].at = "leave"
  /\ online' = IF online = 0 THEN 0 ELSE online - 1
  /\ socket' = [socket EXCEPT ![t] = Closed]
  /\ Goes(t, Free)
  /\ UNCHANGED <<version, blocked, known, running, loops, buffer, admin,
                 cookie, relay, screen, wpHistory>>

------------------------------------------------------------------------------
(* The poll loop, and buffer_or_emit *)

\* while m.running: the loop of a messenger that was stopped ends when it awakes.
LoopEnd(l) ==
  /\ loops[l].at = "top" /\ ~running
  /\ loops' = [loops EXCEPT ![l] = NoLoop]
  /\ UNCHANGED <<version, blocked, known, running, online, buffer, admin, thread,
                 browser, wpHistory>>

\* One query of poll_dm, poll_group or poll_files that brings an event. Whether
\* the relay has more or does not answer, the events are emitted next.
LoopPoll(l) ==
  /\ (loops[l].at = "top" /\ running) \/ loops[l].at = "poll"
  /\ relay # <<>>
  /\ loops' = [loops EXCEPT ![l] = [at |-> "poll", hand |-> Append(@.hand, Head(relay))]]
  /\ relay' = Tail(relay)
  /\ UNCHANGED <<version, blocked, known, running, online, buffer, admin, thread,
                 cookie, socket, screen, wpHistory>>

\* buffer_or_emit of the next event polled: all of it under the lock.
LoopEmit(l) ==
  /\ loops[l].at \in {"poll", "emit"}
  /\ LET event == Head(loops[l].hand)
     IN  IF online > 0
         THEN screen' = Shown(event) /\ UNCHANGED buffer
         ELSE /\ buffer' = IF Len(buffer) < MaxBuffer THEN Append(buffer, event) ELSE buffer
              /\ UNCHANGED screen
  /\ loops' = [loops EXCEPT ![l] =
       [at |-> IF Len(@.hand) = 1 THEN "top" ELSE "emit", hand |-> Tail(@.hand)]]
  /\ UNCHANGED <<version, blocked, known, running, online, admin, thread,
                 cookie, socket, relay, wpHistory>>

\* The web server ends and starts again. Files and cookies stay.
ServerRestart ==
  /\ mishaps < MaxMishaps
  /\ mishaps' = mishaps + 1
  /\ known' = FALSE /\ running' = FALSE
  /\ loops' = NoLoops
  /\ online' = 0 /\ buffer' = <<>>
  /\ admin' = "idle"
  /\ thread' = [t \in Tabs |-> Free]
  /\ socket' = [t \in Tabs |-> Closed]
  /\ revoked' = FALSE /\ unheard' = 0
  /\ UNCHANGED <<version, blocked, cookie, relay, screen, connects, overlap>>

------------------------------------------------------------------------------
TabStep(t) ==
  \/ Request(t) \/ Login(t) \/ LoginAnswer(t) \/ Logout(t)
  \/ StartCheck(t) \/ StartLoop(t)
  \/ Connect(t) \/ Join(t) \/ TakeBuffer(t) \/ EmitTaken(t)
  \/ Break(t) \/ Disconnect(t) \/ Leave(t)

LoopStep(l) == LoopEnd(l) \/ LoopPoll(l) \/ LoopEmit(l)

WPNext ==
  \/ \E t \in Tabs : TabStep(t)
  \/ \E l \in 1 .. MaxLoops : LoopStep(l)
  \/ BlockSave \/ BlockStop \/ BlockRevoke \/ Unblock
  \/ ServerRestart

WPSpec == WPInit /\ [][WPNext]_wpVars

------------------------------------------------------------------------------
(* Correctness *)

Joined == {t \in Tabs : socket[t].joined}

\* online_sockets is never less than the number of sockets of the user that have
\* joined and not left, whatever the order of connects, disconnects, logins, logouts
\* and blocks, and it is that number as long as no login was revoked while a page was
\* open. After that it may stay too high, up to the next restart: a revoked socket that
\* closes is not counted down. Left out is a socket that found no messenger when it
\* opened, although its login was good: if it finds one when it closes, it is counted
\* down without having been counted.
CountsSockets ==
  unheard = 0 =>
    /\ online >= Cardinality(Joined)
    /\ ~revoked => online = Cardinality(Joined)

\* Nothing waits in the buffer while somebody is connected who has looked there.
NothingStuck ==
  unheard = 0 /\ (\E t \in Joined : thread[t].at # "flush") => buffer = <<>>

\* No page has received an event twice.
NoneTwice == \A t \in Tabs : \A i, j \in DOMAIN screen[t] : screen[t][i] = screen[t][j] => i = j

\* The count goes up before the buffer is taken, and both take the lock, so that
\* no event slips into the buffer in between and stays there until the next connect;
\* and an event is not shown twice, however many browsers connect and however many
\* loops poll: what is emitted is not kept, and the buffer is taken by one.
BufferHandedOver == NothingStuck /\ NoneTwice

\* Who is logged in is polled for, once the requests that start the loop are
\* through: also after a block that was lifted and after a restart. A block that
\* begins while a login is under way is the exception: it stops the loop that
\* the login found running, and the login succeeds all the same.
LoggedInIsPolled ==
  /\ known /\ (\E t \in Tabs : cookie[t] = version)
  /\ admin # "stopped" /\ ~overlap
  /\ \A t \in Tabs : thread[t].at \notin {"check", "start"}
  => running /\ \E l \in 1 .. MaxLoops : loops[l] # NoLoop

LoopStates == [at : {"none", "top", "poll", "emit"}, hand : Seq(Events)]
Threads == [at : {"free", "check", "start", "answer", "join", "flush", "emit", "leave"},
            for : {"login", "open", "close", "page"}, buf : Seq(Events)]
Sockets == [at : {"closed", "open", "dead"}, usv : NoCookie .. version, joined : BOOLEAN]

WPTypeOK ==
  /\ version \in Nat /\ blocked \in BOOLEAN /\ known \in BOOLEAN /\ running \in BOOLEAN
  /\ loops \in [1 .. MaxLoops -> LoopStates]
  /\ online \in Nat /\ unheard \in Nat
  /\ revoked \in BOOLEAN /\ overlap \in BOOLEAN
  /\ admin \in {"idle", "saved", "stopped"}
  /\ thread \in [Tabs -> Threads]
  /\ \A t \in Tabs : thread[t].at = "emit" <=> thread[t].buf # <<>>
  /\ cookie \in [Tabs -> NoCookie .. version]
  /\ socket \in [Tabs -> Sockets]
  /\ buffer \in Seq(Events) /\ relay \in Seq(Events)
  /\ screen \in [Tabs -> Seq(Events)]
  /\ \A l \in 1 .. MaxLoops : loops[l].at \in {"poll", "emit"} <=> loops[l].hand # <<>>
==============================================================================
