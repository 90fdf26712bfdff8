------------------------------- MODULE PollAuth -------------------------------
(***************************************************************************)
(* How the relay authorises the polls of one registered name               *)
(* (_authorize_poll and _accept_poll_nonce of server.py). The owner signs  *)
(* every poll with a random nonce and the time of its own clock; the relay *)
(* wants the time to be near its own and the nonce not to be one it has    *)
(* seen. What it has seen is in memory only: a restart forgets it, and the *)
(* registration of the name as well.                                       *)
(*                                                                         *)
(* A signed poll is a DNS query over UDP: the network may deliver it late, *)
(* and any number of times. The signature covers the scope (kind of poll,  *)
(* group), so that the polls here are exactly the ones the owner signed.   *)
(***************************************************************************)
EXTENDS Integers, FiniteSets, Functions

CONSTANTS Scopes,       \* the kinds of signed poll: dm, file, glist, gpoll:<group>, ...
          Nonces,       \* what gen_nonce draws
          Window,       \* POLL_TS_WINDOW
          NonceTTL,     \* POLL_NONCE_TTL
          PurgeAt,      \* 10000: how many records start a purge
          Skew,         \* bound of the difference between the two clocks
          MaxSigned,    \* bound of the number of polls signed
          MaxClock,     \* bound of the relay's clock
          MaxAuthRestarts  \* bound of the number of restarts

\* A record outlives every moment at which its poll is still in the window.
ASSUME TTLAssumption ==
  /\ Window \in Nat
  /\ NonceTTL \in Nat
  /\ NonceTTL > 2 * Window

ASSUME BoundsAssumption ==
  /\ PurgeAt \in Nat
  /\ Skew \in Nat
  /\ MaxSigned \in Nat
  /\ MaxClock \in Nat
  /\ MaxAuthRestarts \in Nat

VARIABLES clock,     \* time.time() of the relay
          pinned,    \* the name is registered and pinned
          seen,      \* scope:nonce -> expiry: self.seen_poll_nonces
          authRestarts  \* how often the relay has restarted

\* History.
VARIABLES signed,    \* the polls the owner has signed
          taken,     \* poll -> how often it was accepted since the last restart
          times,     \* poll -> times of its first and of its latest acceptance
          refused,   \* polls answered ERR:replay since the last restart
          stale      \* polls served, unchecked, when their window was over

authVars == <<pinned, seen>>
paVars == <<clock, authVars, authRestarts, signed, taken, times, refused, stale>>

ClockTimes == 0 .. MaxClock
Polls == [scope : Scopes, nonce : Nonces, ts : -Skew .. MaxClock + Skew]
NonceKey(p) == <<p.scope, p.nonce>>

PATypeOK ==
  /\ clock \in ClockTimes
  /\ pinned \in BOOLEAN
  /\ DOMAIN seen \subseteq Scopes \X Nonces
  /\ \A key \in DOMAIN seen : seen[key] \in NonceTTL .. MaxClock + NonceTTL
  /\ authRestarts \in 0 .. MaxAuthRestarts
  /\ signed \subseteq Polls
  /\ taken \in [Polls -> Nat]
  /\ DOMAIN times \subseteq Polls
  /\ \A p \in DOMAIN times : times[p] \in ClockTimes \X ClockTimes
  /\ refused \subseteq Polls /\ stale \subseteq Polls

PAInit ==
  /\ clock = 0
  /\ pinned = FALSE
  /\ seen = [key \in {} |-> 0]
  /\ authRestarts = 0
  /\ signed = {}
  /\ taken = [p \in Polls |-> 0]
  /\ times = [p \in {} |-> <<0, 0>>]
  /\ refused = {} /\ stale = {}

------------------------------------------------------------------------------
\* Mutant: only the past is checked, as if a client's clock never ran ahead.
InWindow_PastOnly(p) == clock - p.ts <= Window

InWindow(p) == clock - p.ts <= Window /\ p.ts - clock <= Window

\* The purge that precedes every look at the records.
\* Mutant: it throws every record away.
Purged_All == IF Cardinality(DOMAIN seen) > PurgeAt THEN [key \in {} |-> 0] ELSE seen

Purged ==
  IF Cardinality(DOMAIN seen) > PurgeAt
  THEN Restrict(seen, {key \in DOMAIN seen : seen[key] > clock})
  ELSE seen

\* Mutant: records are kept by nonce, whatever the scope.
Replayed_AnyScope(p) == \E key \in DOMAIN Purged : key[2] = p.nonce /\ Purged[key] > clock

Replayed(p) == NonceKey(p) \in DOMAIN Purged /\ Purged[NonceKey(p)] > clock

Recorded(p) ==
  [key \in DOMAIN Purged \cup {NonceKey(p)} |->
     IF key = NonceKey(p) THEN clock + NonceTTL ELSE Purged[key]]

\* The poll is authorised and its nonce recorded.
AcceptPoll(p) ==
  /\ pinned
  /\ InWindow(p)
  /\ ~Replayed(p)
  /\ seen' = Recorded(p)
  /\ taken' = [taken EXCEPT ![p] = @ + 1]
  /\ times' = [q \in DOMAIN times \cup {p} |->
                 IF q # p THEN times[q]
                 ELSE IF p \in DOMAIN times THEN <<times[p][1], clock>> ELSE <<clock, clock>>]
  /\ UNCHANGED <<clock, pinned, authRestarts, signed, refused, stale>>

\* The name is not pinned, as after every restart until its owner registers again:
\* the poll is served, nothing is checked and nothing recorded.
PassUnpinned(p) ==
  /\ ~pinned
  /\ stale' = IF clock - p.ts > Window THEN stale \cup {p} ELSE stale
  /\ UNCHANGED <<clock, authVars, authRestarts, signed, taken, times, refused>>

\* ERR:auth, too early or too late.
RefuseTime(p) ==
  /\ pinned
  /\ ~InWindow(p)
  /\ UNCHANGED paVars

\* ERR:replay.
RefuseReplay(p) ==
  /\ pinned
  /\ InWindow(p)
  /\ Replayed(p)
  /\ seen' = Purged
  /\ refused' = refused \cup {p}
  /\ UNCHANGED <<clock, pinned, authRestarts, signed, taken, times, stale>>

\* The owner registers with a signature over its bundle.
Register ==
  /\ ~pinned
  /\ pinned' = TRUE
  /\ UNCHANGED <<clock, seen, authRestarts, signed, taken, times, refused, stale>>

\* The owner signs a poll: gen_nonce, and the time of its own clock.
Sign(p) ==
  /\ clock - p.ts \in -Skew .. Skew
  /\ p \notin signed /\ Cardinality(signed) < MaxSigned
  /\ signed' = signed \cup {p}
  /\ UNCHANGED <<clock, authVars, authRestarts, taken, times, refused, stale>>

ClockTick ==
  /\ clock < MaxClock
  /\ clock' = clock + 1
  /\ UNCHANGED <<authVars, authRestarts, signed, taken, times, refused, stale>>

\* users and seen_poll_nonces are in memory only.
ForgetAll ==
  /\ authRestarts < MaxAuthRestarts
  /\ authRestarts' = authRestarts + 1
  /\ pinned' = FALSE
  /\ seen' = [key \in {} |-> 0]
  /\ taken' = [p \in Polls |-> 0]
  /\ refused' = {}
  /\ UNCHANGED <<clock, signed, times, stale>>

PANext ==
  \/ \E p \in Polls : Sign(p)
  \/ \E p \in signed : AcceptPoll(p) \/ PassUnpinned(p) \/ RefuseTime(p) \/ RefuseReplay(p)
  \/ Register
  \/ ClockTick
  \/ ForgetAll

PASpec == PAInit /\ [][PANext]_paVars

------------------------------------------------------------------------------
(* Correctness *)

\* However often and however late the network delivers a signed poll, the relay
\* authorises it at most once between two restarts: no purge, and no expiry of the
\* record, comes while the poll is still in the window (_accept_poll_nonce). What
\* is served unchecked while the name is not pinned is not counted.
SignedPollOnce == \A p \in Polls : taken[p] <= 1

\* A restart makes the relay forget the nonces, but not for good: the times at which
\* it authorises one poll, over any number of restarts and new registrations, lie
\* within two windows (ts in _authorize_poll). Serving it unchecked is no
\* authorisation: see OldPollsRefused.
ReplayWindow == \A p \in DOMAIN times : times[p][2] - times[p][1] <= 2 * Window

\* What the docstring of _authorize_poll promises: "ts вне узкого окна отклоняется
\* независимо от того, помнит ли релей этот nonce вообще", so that an old poll
\* cannot be replayed after a restart. A poll that was accepted in its time is not
\* served again when its window is over. Not so: a restart forgets the pin too.
OldPollsRefused == \A p \in stale : p \notin DOMAIN times

\* ERR:replay answers only a poll whose nonce the relay did accept in the same
\* scope: polls of different kinds and groups do not stand in each other's way.
NoFalseReplay ==
  \A p \in refused : \E q \in Polls : NonceKey(q) = NonceKey(p) /\ taken[q] > 0
==============================================================================
