------------------------------ MODULE DMSessions -------------------------------
(***************************************************************************)
(* The secure sessions of two users that write to each other (send_dm and  *)
(* _decrypt_from of web_client.py over ratchet.py): handshakes (X3DH) from *)
(* published prekeys, the ratchet, and what is kept on disk.               *)
(*                                                                         *)
(* A message in the mailbox is consumed before it is read. The relay hands *)
(* each message out at most once, or again after a restart (RelayMailbox); *)
(* two sending threads may overtake each other, and a message may be lost: *)
(* a message sent is delivered at any time, in any order, or never.        *)
(*                                                                         *)
(* A session is used by one thread at a time (RatchetSession: "один        *)
(* экземпляр используется из одного потока за раз"), so that encrypting    *)
(* and storing, or decrypting and storing, is one step. The first message  *)
(* to a peer is two: in between its thread computes the handshake.         *)
(***************************************************************************)
EXTENDS DoubleRatchet, FiniteSets, Functions

CONSTANTS Peers,       \* the two users
          PoolTarget,  \* ONE_TIME_PREKEY_POOL_TARGET
          Threshold,   \* ONE_TIME_PREKEY_REPLENISH_THRESHOLD
          MaxSent,     \* bound of the number of messages
          MaxAgain,    \* bound of the number of messages delivered again
          MaxLogins    \* bound of the number of logins, of every kind

ASSUME PeersAssumption == \E p, q \in Peers : p # q /\ Peers = {p, q}

ASSUME PoolAssumption ==
  /\ PoolTarget \in Nat
  /\ Threshold \in Nat
  /\ MaxSent \in Nat /\ MaxAgain \in Nat /\ MaxLogins \in Nat

NoSession == [root |-> NoChain]

VARIABLES spk,      \* user -> signed prekey, its own and the published one
          pool,     \* user -> one-time prekeys in memory: prekeys['one_time']
          saved,    \* user -> one-time prekeys on disk: prekeys.key
          public,   \* user -> one-time prekeys published: PREKEY_FILE
          session,  \* user -> session with the other, in memory: ratchets
          disk,     \* user -> session with the other, on disk: ratchet_<peer>.state
          busy,     \* user -> bundles that its sending threads have taken
          fresh     \* user -> number of key pairs it has generated

\* History.
VARIABLES sent,     \* the messages sent
          got,      \* id -> how often it was delivered
          read,     \* id -> how often it was read
          failed,   \* ids of messages that did not open
          lost,     \* ids of messages answered with "ratchet session lost"
          over,     \* a key may have been given up for want of room
          count     \* kind of login -> how often it has happened

prekeyVars == <<spk, pool, saved, public>>
sessionVars == <<session, disk, busy>>
dsHistory == <<sent, got, read, failed, lost, over, count>>
dsVars == <<prekeyVars, sessionVars, fresh, dsHistory>>

Other(p) == CHOOSE q \in Peers : q # p
Ids == Peers \X (1 .. MaxSent)
Logins == {"login", "rotate", "torn"}

\* The i-th key pair that p generates from now on.
Pair(p, i) == <<p, fresh[p] + i>>

\* TRUE once a user was told by the client that the session with p is lost.
Told(p) == \E m \in sent : m.from = p /\ m.id \in lost

DSInit ==
  /\ fresh = [p \in Peers |-> 1 + PoolTarget]
  /\ spk = [p \in Peers |-> <<p, 1>>]
  /\ saved = [p \in Peers |-> {<<p, 1 + i>> : i \in 1 .. PoolTarget}]
  /\ pool = saved /\ public = saved
  /\ session = [p \in Peers |-> NoSession]
  /\ disk = session
  /\ busy = [p \in Peers |-> {}]
  /\ sent = {}
  /\ got = [id \in Ids |-> 0] /\ read = got
  /\ failed = {} /\ lost = {}
  /\ over = FALSE
  /\ count = [e \in Logins |-> 0]

------------------------------------------------------------------------------
(* send_dm *)

\* Nothing was negotiated yet: take_prekey_bundle.
TakeBundle(p) ==
  LET q == Other(p)
  IN  /\ session[p] = NoSession
      /\ Cardinality(sent) + Cardinality(busy[p]) + Cardinality(busy[q]) < MaxSent
      /\ \/ /\ public[q] = {}
            /\ busy' = [busy EXCEPT ![p] = @ \cup {[spk |-> spk[q], otpk |-> NoKey]}]
            /\ UNCHANGED public
         \/ \E otpk \in public[q] :
              /\ busy' = [busy EXCEPT ![p] = @ \cup {[spk |-> spk[q], otpk |-> otpk]}]
              /\ public' = [public EXCEPT ![q] = @ \ {otpk}]
      /\ UNCHANGED <<spk, pool, saved, session, disk, fresh, dsHistory>>

\* A session becomes the one in memory and on disk (_persist_ratchet).
Persist(p, s) ==
  /\ session' = [session EXCEPT ![p] = s]
  /\ disk' = [disk EXCEPT ![p] = s]

\* What goes on the wire. A handshake names the one-time prekey and not the
\* signed one.
Message(p, hello, s) ==
  LET header == Sealed(s)
  IN  [id |-> <<p, Cardinality({m \in sent : m.from = p}) + 1>>, from |-> p, asked |-> Told(p),
       init |-> hello.init, eph |-> hello.eph, otpk |-> hello.otpk,
       dh |-> header.dh, pn |-> header.pn, n |-> header.n, key |-> header.key]

Plain == [init |-> FALSE, eph |-> NoKey, otpk |-> NoKey]

\* The handshake of one thread: whatever session there is by now is replaced.
SendInit(p, bundle) ==
  LET eph == Pair(p, 1)
      secret == [from |-> p, eph |-> eph, spk |-> bundle.spk, otpk |-> bundle.otpk]
      s == InitInitiator(secret, bundle.spk, Pair(p, 2))
  IN  /\ bundle \in busy[p]
      /\ busy' = [busy EXCEPT ![p] = @ \ {bundle}]
      /\ fresh' = [fresh EXCEPT ![p] = @ + 2]
      /\ Persist(p, AfterSeal(s))
      /\ sent' = sent \cup
           {Message(p, [init |-> TRUE, eph |-> eph, otpk |-> bundle.otpk], s)}
      /\ UNCHANGED <<prekeyVars, got, read, failed, lost, over, count>>

\* Mutant: the state goes to the disk later.
SendCont_Unsaved(p) ==
  /\ session[p] # NoSession
  /\ Cardinality(sent) + Cardinality(busy[p]) + Cardinality(busy[Other(p)]) < MaxSent
  /\ session' = [session EXCEPT ![p] = AfterSeal(@)]
  /\ sent' = sent \cup {Message(p, Plain, session[p])}
  /\ UNCHANGED <<prekeyVars, busy, disk, fresh, got, read, failed, lost, over, count>>

SendCont(p) ==
  /\ session[p] # NoSession
  /\ Cardinality(sent) + Cardinality(busy[p]) + Cardinality(busy[Other(p)]) < MaxSent
  /\ Persist(p, AfterSeal(session[p]))
  /\ sent' = sent \cup {Message(p, Plain, session[p])}
  /\ UNCHANGED <<prekeyVars, busy, fresh, got, read, failed, lost, over, count>>

------------------------------------------------------------------------------
(* _decrypt_from *)

\* The relay hands out message m, for the first time or again.
Deliver(m) ==
  /\ got[m.id] = 0 \/ FoldFunction(+, 0, got) - Cardinality({id \in Ids : got[id] > 0}) < MaxAgain
  /\ got' = [got EXCEPT ![m.id] = @ + 1]

Note(p, m, result) ==
  /\ fresh' = IF result.s.dhs = Pair(p, 1) THEN [fresh EXCEPT ![p] = @ + 1] ELSE fresh
  /\ read' = IF result.ok THEN [read EXCEPT ![m.id] = @ + 1] ELSE read
  /\ failed' = IF result.ok THEN failed ELSE failed \cup {m.id}
  /\ over' = (over \/ result.over)
  /\ UNCHANGED lost

\* "[ratchet session lost ...]".
ReceiveUnknown(p, m) ==
  /\ ~m.init /\ session[p] = NoSession
  /\ Deliver(m)
  /\ lost' = lost \cup {m.id}
  /\ UNCHANGED <<prekeyVars, sessionVars, fresh, sent, read, failed, over, count>>

\* The session in memory changes also when the message does not open; only when
\* it does, it is stored.
ReceiveCont(p, m) ==
  LET result == Opened(session[p], m, Pair(p, 1))
  IN  /\ ~m.init /\ session[p] # NoSession
      /\ Deliver(m)
      /\ IF result.ok
         THEN Persist(p, result.s)
         ELSE session' = [session EXCEPT ![p] = result.s] /\ UNCHANGED disk
      /\ Note(p, m, result)
      /\ UNCHANGED <<prekeyVars, busy, sent, count>>

\* Mutant: the one-time prekey is looked up and not taken out.
Consumed_Kept(p, m) == pool

\* The one-time prekeys in memory once that of m is taken out.
Consumed(p, m) == [pool EXCEPT ![p] = @ \ {m.otpk}]

\* A handshake that opens replaces the session there was.
ReceiveInit(p, m) ==
  LET otpk == IF m.otpk \in pool[p] THEN m.otpk ELSE NoKey
      secret == [from |-> m.from, eph |-> m.eph, spk |-> spk[p], otpk |-> otpk]
      result == Opened(InitResponder(secret, spk[p]), m, Pair(p, 1))
  IN  /\ m.init
      /\ Deliver(m)
      /\ pool' = Consumed(p, m)
      /\ IF result.ok THEN Persist(p, result.s) ELSE UNCHANGED <<session, disk>>
      /\ Note(p, m, result)
      /\ UNCHANGED <<spk, saved, public, busy, sent, count>>

------------------------------------------------------------------------------
(* A restart of the client, or a logout, and the next login (UserMessenger) *)

\* bootstrap_or_replenish_prekeys: the one-time prekeys after p has logged in,
\* and the keys that were generated.
Replenished(p) ==
  IF Cardinality(saved[p]) < Threshold
  THEN saved[p] \cup {Pair(p, 1 + i) : i \in 1 .. PoolTarget - Cardinality(saved[p])}
  ELSE saved[p]

Happens(e) ==
  /\ FoldFunction(+, 0, count) < MaxLogins
  /\ count' = [count EXCEPT ![e] = @ + 1]

\* p comes back with the session that the disk holds, and publishes its bundle.
Login(p, stored, signed) ==
  LET all == Replenished(p)
  IN  /\ spk' = [spk EXCEPT ![p] = signed]
      /\ saved' = [saved EXCEPT ![p] = all]
      /\ pool' = [pool EXCEPT ![p] = all]
      /\ public' = [public EXCEPT ![p] = @ \cup all]
      /\ session' = [session EXCEPT ![p] = stored]
      /\ disk' = [disk EXCEPT ![p] = stored]
      /\ busy' = [busy EXCEPT ![p] = {}]
      /\ fresh' = [fresh EXCEPT ![p] = @ + 1 + PoolTarget]
      /\ UNCHANGED <<sent, got, read, failed, lost, over>>

LoginAgain(p) ==
  /\ Happens("login")
  /\ Login(p, disk[p], spk[p])

\* The signed prekey is older than SIGNED_PREKEY_ROTATE_AFTER.
LoginRotates(p) ==
  /\ Happens("rotate")
  /\ Login(p, disk[p], Pair(p, 1))

\* The client ended within save_ratchet_state, between O_TRUNC and the write.
LoginTorn(p) ==
  /\ session[p] # NoSession
  /\ Happens("torn")
  /\ Login(p, NoSession, spk[p])

DSNext ==
  \/ \E p \in Peers :
       \/ TakeBundle(p)
       \/ \E bundle \in busy[p] : SendInit(p, bundle)
       \/ SendCont(p)
       \/ LoginAgain(p)
       \/ LoginRotates(p)
       \/ LoginTorn(p)
  \/ \E m \in sent :
       \/ ReceiveUnknown(Other(m.from), m)
       \/ ReceiveCont(Other(m.from), m)
       \/ ReceiveInit(Other(m.from), m)

DSSpec == DSInit /\ [][DSNext]_dsVars

------------------------------------------------------------------------------
(* Correctness *)

\* No two messages are sealed with the same key, whatever restarts come in
\* between: the state is on disk before the message is on the wire
\* (_persist_ratchet; the plan: "ключ каждого сообщения уникален"). One thread at a
\* time uses a session here, as the docstring of RatchetSession demands and the
\* client does not ensure: see MessageKeysUnique of RatchetThreads.
KeysUnique == \A m, w \in sent : m.key = w.key => m = w

HandshakeReplayed == \E m \in sent : m.init /\ read[m.id] > 1

\* The key of a message that was read is nowhere any more at its reader, neither
\* in memory nor on disk: forward secrecy (RatchetSession.decrypt). A handshake
\* that is read again takes the session back to its beginning.
KeysErased ==
  ~HandshakeReplayed =>
    \A m \in sent : read[m.id] > 0 =>
      \A s \in {session[Other(m.from)], disk[Other(m.from)]} \ {NoSession} : ~Gives(s, m.key)

\* A message is read at most once even if the relay delivers it again. The one
\* exception is a handshake without a one-time prekey, or one whose one-time
\* prekey came back from the disk with a login, and what follows from it; for the
\* plan a one-time prekey is never used again (docs/ratchet-plan.md:173-174).
ReadOnce ==
  (\E id \in Ids : read[id] > 1) =>
    \E m \in sent :
      /\ m.init
      /\ read[m.id] > 1
      /\ m.otpk = NoKey \/ \E e \in Logins : count[e] > 0

Handshakes == {m \in sent : m.init}

\* With one handshake, every message that finds a session opens, in whatever order
\* the messages come, however many are lost, and across restarts, as long as no
\* message comes twice, the store of skipped keys is large enough, and neither
\* the signed prekey nor the stored session was lost on the way.
OneSessionReadable ==
  /\ Cardinality(Handshakes) = 1
  /\ \A id \in Ids : got[id] <= 1
  /\ count["rotate"] = 0 /\ count["torn"] = 0
  /\ ~over
  => failed = {}

\* What the client tells the user: "ask them to send a new message to restart the
\* secure session". When nothing is on its way any more, a message sent after that
\* is not answered with it again.
NewMessageRestarts ==
  (\A m \in sent : got[m.id] > 0) => \A m \in sent : m.asked => m.id \notin lost
==============================================================================
