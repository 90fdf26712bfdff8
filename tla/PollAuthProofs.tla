---------------------------- MODULE PollAuthProofs ----------------------------
(***************************************************************************)
(* Theorems about the polls of mailboxes: PollAuth, for every Window,      *)
(* NonceTTL > 2 * Window, purge threshold, clock skew and number of        *)
(* restarts, and Transports, for every number of threads, polls, messages, *)
(* repeated packets and restarts of the bridge.                            *)
(***************************************************************************)
EXTENDS PollAuth, Transports, ListProofs

------------------------------------------------------------------------------
(* The inductive invariants of PollAuth *)

\* With SignedPollOnce, an inductive invariant: an accepted poll is on record for
\* as long as it is in the window.
OnRecord ==
  \A p \in Polls : taken[p] > 0 =>
    \/ clock > p.ts + Window
    \/ NonceKey(p) \in DOMAIN seen /\ seen[NonceKey(p)] > p.ts + Window

\* With ReplayWindow, an inductive invariant: they are near the signed time.
NearSigned ==
  \A p \in DOMAIN times : \A i \in {1, 2} :
    times[p][i] - p.ts <= Window /\ p.ts - times[p][i] <= Window

\* With NoFalseReplay, an inductive invariant: every record has its poll.
EveryRecordGranted ==
  \A key \in DOMAIN seen : \E q \in Polls : NonceKey(q) = key /\ taken[q] > 0

------------------------------------------------------------------------------
(* The inductive invariants of Transports *)

\* An answer goes where its query waits: the port of a socket, the name of a file.
OwnInv ==
  /\ AnswerIsItsOwn
  /\ \A r \in replies : r.port = PortOf(r.of)
  /\ \A a \in Askers :
       call[a].at = "disk" => call[a].req \in Files /\ folder[call[a].req] = call[a].nr
  /\ \A req \in DOMAIN answers : answers[req].of = folder[req]

\* Poll nr was served and took no message, and no more can it take one.
Spared(nr) == nr \in recorded /\ \A x \in took : x[1] # nr

\* Whatever is on its way to say EMPTY is true.
SparedInv ==
  /\ \A x \in took : x[1] \in recorded
  /\ \A x, y \in took : x[1] = y[1] => x = y
  /\ \A r \in replies : r.txt = Empty => Spared(r.of)
  /\ \A f \in hand : f.txt = Empty => Spared(folder[f.req])
  /\ \A req \in DOMAIN answers : answers[req].txt = Empty => Spared(answers[req].of)
  /\ \A nr \in DOMAIN outcome : outcome[nr].txt = Empty => Spared(outcome[nr].of)

\* A file is in the rest of the listing, once, or in hand, or was forwarded.
SeenInv ==
  /\ ForwardedOnce
  /\ DOMAIN forwarded \subseteq seenFiles
  /\ \A f \in hand : f.req \in seenFiles /\ (f.txt = Failed => f.req \notin DOMAIN forwarded)
  /\ \A f, g \in hand : f = g
  /\ \A i, j \in DOMAIN todo : todo[i] \notin seenFiles /\ (todo[i] = todo[j] => i = j)

------------------------------------------------------------------------------
(* Polls are accepted once *)

\* The purge only removes records, and only expired ones.
LEMMA PurgeKeeps ==
  ASSUME PATypeOK
  PROVE  /\ DOMAIN Purged \subseteq DOMAIN seen
         /\ \A key \in DOMAIN Purged : Purged[key] = seen[key]
         /\ \A key \in DOMAIN seen : seen[key] > clock => key \in DOMAIN Purged
  <1>1. CASE Cardinality(DOMAIN seen) > PurgeAt
    BY <1>1, SMT DEF Purged, Restrict
  <1>2. CASE ~(Cardinality(DOMAIN seen) > PurgeAt)
    BY <1>2 DEF Purged
  <1> QED
    BY <1>1, <1>2

\* What the relay has on record after an acceptance of p.
LEMMA RecordedIs ==
  ASSUME PATypeOK, NEW p
  PROVE  /\ DOMAIN Recorded(p) = DOMAIN Purged \cup {NonceKey(p)}
         /\ Recorded(p)[NonceKey(p)] = clock + NonceTTL
         /\ \A key \in DOMAIN Purged : key # NonceKey(p) => Recorded(p)[key] = Purged[key]
  BY DEF Recorded

\* Every state has the types of PATypeOK.
THEOREM TypeCorrect == PASpec => []PATypeOK
<1>1. PAInit => PATypeOK
  <2> SUFFICES ASSUME PAInit PROVE PATypeOK
    OBVIOUS
  <2>1. clock \in ClockTimes /\ authRestarts \in 0 .. MaxAuthRestarts
    BY BoundsAssumption DEF PAInit, ClockTimes
  <2>2. DOMAIN seen = {} /\ DOMAIN times = {} /\ taken \in [Polls -> Nat]
    BY DEF PAInit
  <2> QED
    BY <2>1, <2>2, Zenon DEF PAInit, PATypeOK
<1>2. PATypeOK /\ [PANext]_paVars => PATypeOK'
  <2> SUFFICES ASSUME PATypeOK, [PANext]_paVars PROVE PATypeOK'
    OBVIOUS
  <2> USE BoundsAssumption, TTLAssumption
  <2>1. ASSUME NEW p \in Polls, Sign(p) PROVE PATypeOK'
    BY <2>1, SMT DEF PATypeOK, Sign, authVars
  <2>8. ASSUME NEW p \in signed, PassUnpinned(p) PROVE PATypeOK'
    <3>1. stale' \subseteq Polls
      BY <2>8 DEF PassUnpinned, PATypeOK
    <3> QED
      BY <2>8, <3>1 DEF PassUnpinned, authVars, PATypeOK
  <2>2. ASSUME NEW p \in signed, AcceptPoll(p) PROVE PATypeOK'
    <3>1. p \in Polls
      BY DEF PATypeOK
    <3>2. NonceKey(p) \in Scopes \X Nonces
      BY <3>1 DEF NonceKey, Polls
    <3>3. /\ DOMAIN seen' \subseteq Scopes \X Nonces
          /\ \A key \in DOMAIN seen' : seen'[key] \in NonceTTL .. MaxClock + NonceTTL
      <4>1. seen' = Recorded(p)
        BY <2>2 DEF AcceptPoll
      <4>2. clock + NonceTTL \in NonceTTL .. MaxClock + NonceTTL
        BY DEF PATypeOK, ClockTimes
      <4>3. DOMAIN seen' = DOMAIN Purged \cup {NonceKey(p)}
        BY <4>1, RecordedIs, Zenon
      <4>4. ASSUME NEW key \in DOMAIN Purged \cup {NonceKey(p)}
            PROVE  key \in Scopes \X Nonces /\ seen'[key] \in NonceTTL .. MaxClock + NonceTTL
        <5>1. CASE key = NonceKey(p)
          BY <3>2, <4>1, <4>2, <5>1, RecordedIs, Zenon
        <5>2. CASE key # NonceKey(p)
          <6>1. key \in DOMAIN seen /\ seen'[key] = seen[key]
            BY <4>1, <4>4, <5>2, PurgeKeeps, RecordedIs, Zenon
          <6> QED
            BY <6>1, Zenon DEF PATypeOK
        <5> QED
          BY <5>1, <5>2
      <4> QED
        BY <4>3, <4>4, Zenon
    <3>4. taken' \in [Polls -> Nat]
      BY <2>2, <3>1 DEF AcceptPoll, PATypeOK
    <3>5. DOMAIN times' \subseteq Polls /\ \A q \in DOMAIN times' : times'[q] \in ClockTimes \X ClockTimes
      <4>1. times' = [q \in DOMAIN times \cup {p} |->
                        IF q # p THEN times[q]
                        ELSE IF p \in DOMAIN times THEN <<times[p][1], clock>> ELSE <<clock, clock>>]
        BY <2>2 DEF AcceptPoll
      <4>2. clock \in ClockTimes /\ DOMAIN times \subseteq Polls
        BY DEF PATypeOK
      <4>3. ASSUME NEW q \in DOMAIN times' PROVE times'[q] \in ClockTimes \X ClockTimes
        BY <4>1, <4>2, <4>3 DEF PATypeOK
      <4> QED
        BY <3>1, <4>1, <4>2, <4>3
    <3> QED
      BY <2>2, <3>3, <3>4, <3>5 DEF AcceptPoll, PATypeOK
  <2>3. ASSUME NEW p \in signed, RefuseReplay(p) PROVE PATypeOK'
    <3>1. DOMAIN seen' \subseteq DOMAIN seen /\ \A key \in DOMAIN seen' : seen'[key] = seen[key]
      BY <2>3, PurgeKeeps, Zenon DEF RefuseReplay
    <3> QED
      BY <2>3, <3>1 DEF RefuseReplay, PATypeOK
  <2>4. CASE Register
    BY <2>4 DEF Register, PATypeOK
  <2>5. CASE ClockTick
    BY <2>5 DEF ClockTick, PATypeOK, ClockTimes, authVars
  <2>6. CASE ForgetAll
    <3>1. authRestarts' \in 0 .. MaxAuthRestarts
      BY <2>6 DEF ForgetAll, PATypeOK
    <3>2. DOMAIN seen' = {} /\ taken' \in [Polls -> Nat]
      BY <2>6 DEF ForgetAll
    <3> QED
      BY <2>6, <3>1, <3>2, Zenon DEF ForgetAll, PATypeOK
  <2>7. CASE UNCHANGED paVars
    BY <2>7 DEF paVars, authVars, PATypeOK
  <2> QED
    BY <2>1, <2>2, <2>3, <2>4, <2>5, <2>6, <2>7, <2>8 DEF PANext, RefuseTime
<1> QED
  BY <1>1, <1>2, PTL DEF PASpec

------------------------------------------------------------------------------
\* The arithmetic of the two windows: a poll that is in the window now has left
\* it before a record that is made now expires; 240 < 300 in the code.
LEMMA RecordOutlivesWindow ==
  ASSUME PATypeOK, NEW p \in Polls, InWindow(p)
  PROVE  clock + NonceTTL > p.ts + Window /\ ~(clock > p.ts + Window)
  BY TTLAssumption, BoundsAssumption, SMT DEF PATypeOK, ClockTimes, Polls, InWindow

\* A record outlives a purge, or its poll has left the window.
LEMMA PurgeKeepsRecords ==
  ASSUME PATypeOK, NEW q \in Polls,
         NonceKey(q) \in DOMAIN seen, seen[NonceKey(q)] > q.ts + Window
  PROVE  \/ clock > q.ts + Window
         \/ NonceKey(q) \in DOMAIN Purged /\ Purged[NonceKey(q)] = seen[NonceKey(q)]
  <1>1. CASE seen[NonceKey(q)] > clock
    BY <1>1, PurgeKeeps, Zenon
  <1>2. CASE ~(seen[NonceKey(q)] > clock)
    <2>1. clock \in Int /\ seen[NonceKey(q)] \in Int /\ q.ts \in Int /\ Window \in Int
      BY TTLAssumption, BoundsAssumption DEF PATypeOK, ClockTimes, Polls
    <2> QED
      BY <1>2, <2>1
  <1> QED
    BY <1>1, <1>2

\* A poll that was accepted before is either out of the window or refused.
LEMMA NotAcceptedAgain ==
  ASSUME PATypeOK, OnRecord, NEW p \in Polls, AcceptPoll(p)
  PROVE  taken[p] = 0
  <1> SUFFICES ASSUME taken[p] # 0 PROVE FALSE
    OBVIOUS
  <1>1. taken[p] > 0
    BY DEF PATypeOK
  <1>2. ~(clock > p.ts + Window)
    BY RecordOutlivesWindow DEF AcceptPoll
  <1>3. NonceKey(p) \in DOMAIN seen /\ seen[NonceKey(p)] > p.ts + Window
    BY <1>1, <1>2 DEF OnRecord
  <1>4. NonceKey(p) \in DOMAIN Purged /\ Purged[NonceKey(p)] = seen[NonceKey(p)]
    BY <1>2, <1>3, PurgeKeepsRecords
  <1>5. InWindow(p) /\ ~Replayed(p)
    BY DEF AcceptPoll
  <1>6. seen[NonceKey(p)] > clock
    <2>1. clock \in Int /\ seen[NonceKey(p)] \in Int /\ p.ts \in Int /\ Window \in Int
      BY <1>3, TTLAssumption, BoundsAssumption DEF PATypeOK, ClockTimes, Polls
    <2> QED
      BY <1>2, <1>3, <2>1
  <1> QED
    BY <1>4, <1>5, <1>6, Zenon DEF Replayed

\* One step keeps the records and, with them, the count.
LEMMA RecordStep ==
  ASSUME PATypeOK, PATypeOK', OnRecord, SignedPollOnce, [PANext]_paVars
  PROVE  OnRecord' /\ SignedPollOnce'
  <1>1. ASSUME NEW p \in signed, AcceptPoll(p) PROVE OnRecord' /\ SignedPollOnce'
    <2>0. p \in Polls
      BY DEF PATypeOK
    <2>1. taken[p] = 0 /\ taken'[p] = 1
      <3>1. taken[p] = 0
        BY <1>1, <2>0, NotAcceptedAgain, Zenon
      <3>2. taken'[p] = taken[p] + 1
        BY <1>1, <2>0 DEF AcceptPoll, PATypeOK
      <3> QED
        BY <3>1, <3>2
    <2>2. \A q \in Polls : q # p => taken'[q] = taken[q]
      BY <1>1 DEF AcceptPoll, PATypeOK
    <2>3. clock' = clock /\ seen' = Recorded(p)
      BY <1>1 DEF AcceptPoll
    <2>4. ASSUME NEW q \in Polls, taken'[q] > 0
          PROVE  \/ clock > q.ts + Window
                 \/ NonceKey(q) \in DOMAIN seen' /\ seen'[NonceKey(q)] > q.ts + Window
      <3>1. CASE q = p
        <4>1. clock + NonceTTL > p.ts + Window
          BY <1>1, <2>0, RecordOutlivesWindow, Zenon DEF AcceptPoll
        <4> QED
          BY <2>3, <3>1, <4>1, RecordedIs, Zenon
      <3>2. CASE q # p /\ ~(clock > q.ts + Window)
        <4>1. NonceKey(q) \in DOMAIN seen /\ seen[NonceKey(q)] > q.ts + Window
          BY <2>2, <2>4, <3>2, Zenon DEF OnRecord
        <4>2. NonceKey(q) \in DOMAIN Purged /\ Purged[NonceKey(q)] = seen[NonceKey(q)]
          BY <3>2, <4>1, PurgeKeepsRecords, Zenon
        <4>3. seen[NonceKey(q)] > clock
          <5>1. clock \in Int /\ seen[NonceKey(q)] \in Int /\ q.ts \in Int /\ Window \in Int
            BY <4>1, TTLAssumption, BoundsAssumption DEF PATypeOK, ClockTimes, Polls
          <5> QED
            BY <3>2, <4>1, <5>1
        <4>4. NonceKey(q) # NonceKey(p)
          BY <1>1, <4>2, <4>3, Zenon DEF AcceptPoll, Replayed
        <4> QED
          BY <2>3, <4>1, <4>2, <4>4, RecordedIs, Zenon
      <3> QED
        BY <3>1, <3>2, Zenon
    <2>5. OnRecord'
      BY <2>3, <2>4, Zenon DEF OnRecord, NonceKey
    <2>6. ASSUME NEW q \in Polls PROVE taken'[q] <= 1
      <3>1. CASE q = p
        BY <2>1, <3>1
      <3>2. CASE q # p
        BY <2>2, <3>2, Zenon DEF SignedPollOnce
      <3> QED
        BY <3>1, <3>2
    <2> QED
      BY <2>5, <2>6 DEF SignedPollOnce
  <1>2. ASSUME NEW p \in signed, RefuseReplay(p) PROVE OnRecord' /\ SignedPollOnce'
    <2>1. clock' = clock /\ seen' = Purged /\ taken' = taken
      BY <1>2 DEF RefuseReplay
    <2>2. ASSUME NEW q \in Polls, taken[q] > 0, ~(clock > q.ts + Window)
          PROVE  NonceKey(q) \in DOMAIN Purged /\ Purged[NonceKey(q)] > q.ts + Window
      <3>1. NonceKey(q) \in DOMAIN seen /\ seen[NonceKey(q)] > q.ts + Window
        BY <2>2, Zenon DEF OnRecord
      <3> QED
        BY <2>2, <3>1, PurgeKeepsRecords, Zenon
    <2> QED
      BY <2>1, <2>2, Zenon DEF OnRecord, SignedPollOnce, NonceKey
  <1>3. CASE ClockTick
    <2>1. clock' = clock + 1 /\ seen' = seen /\ taken' = taken
      BY <1>3 DEF ClockTick, authVars
    <2>2. \A q \in Polls : clock > q.ts + Window => clock + 1 > q.ts + Window
      BY TTLAssumption, BoundsAssumption, SMT DEF PATypeOK, ClockTimes, Polls
    <2> QED
      BY <2>1, <2>2, Zenon DEF OnRecord, SignedPollOnce, NonceKey
  <1>4. CASE ForgetAll
    <2>1. \A q \in Polls : taken'[q] = 0
      BY <1>4 DEF ForgetAll
    <2> QED
      BY <2>1 DEF OnRecord, SignedPollOnce
  <1>5. CASE UNCHANGED <<clock, seen, taken>>
    BY <1>5, Zenon DEF OnRecord, SignedPollOnce, NonceKey
  <1> QED
    BY <1>1, <1>2, <1>3, <1>4, <1>5
    DEF PANext, Sign, Register, PassUnpinned, RefuseTime, paVars, authVars

\* Between two restarts of the relay a signed poll is authorised at most once,
\* however often and late it is delivered.
THEOREM AcceptedOnce == PASpec => []SignedPollOnce
<1>1. PAInit => OnRecord /\ SignedPollOnce
  BY DEF PAInit, OnRecord, SignedPollOnce
<1>2. PATypeOK /\ PATypeOK' /\ (OnRecord /\ SignedPollOnce) /\ [PANext]_paVars
        => (OnRecord /\ SignedPollOnce)'
  BY RecordStep
<1> QED
  BY <1>1, <1>2, TypeCorrect, PTL DEF PASpec

------------------------------------------------------------------------------
\* An acceptance is near the signed time, so all of them are near each other.
LEMMA NearStep ==
  ASSUME PATypeOK, NearSigned, [PANext]_paVars
  PROVE  NearSigned'
  <1>1. ASSUME NEW p \in signed, AcceptPoll(p) PROVE NearSigned'
    <2>1. clock - p.ts <= Window /\ p.ts - clock <= Window
      BY <1>1 DEF AcceptPoll, InWindow
    <2>2. times' = [q \in DOMAIN times \cup {p} |->
                      IF q # p THEN times[q]
                      ELSE IF p \in DOMAIN times THEN <<times[p][1], clock>> ELSE <<clock, clock>>]
      BY <1>1 DEF AcceptPoll
    <2>3. ASSUME NEW q \in DOMAIN times', NEW i \in {1, 2}
          PROVE  times'[q][i] - q.ts <= Window /\ q.ts - times'[q][i] <= Window
      <3>1. CASE q # p
        BY <2>2, <3>1 DEF NearSigned
      <3>2. CASE q = p /\ p \in DOMAIN times
        <4>1. times'[q] = <<times[p][1], clock>>
          BY <2>2, <3>2
        <4> QED
          BY <2>1, <3>2, <4>1 DEF NearSigned
      <3>3. CASE q = p /\ p \notin DOMAIN times
        BY <2>1, <2>2, <3>3
      <3> QED
        BY <3>1, <3>2, <3>3
    <2> QED
      BY <2>3 DEF NearSigned
  <1>2. CASE UNCHANGED times
    BY <1>2 DEF NearSigned
  <1> QED
    BY <1>1, <1>2
    DEF PANext, Sign, Register, PassUnpinned, RefuseTime, RefuseReplay, ClockTick, ForgetAll, paVars

\* The times at which one signed poll is authorised, that is checked and accepted,
\* lie within two windows, over any number of restarts and registrations.
THEOREM ReplaysWithinWindow == PASpec => []ReplayWindow
<1>1. PAInit => NearSigned
  BY DEF PAInit, NearSigned
<1>2. PATypeOK /\ NearSigned /\ [PANext]_paVars => NearSigned'
  BY NearStep
<1>3. PATypeOK /\ NearSigned => ReplayWindow
  <2> SUFFICES ASSUME PATypeOK, NearSigned, NEW p \in DOMAIN times
               PROVE  times[p][2] - times[p][1] <= 2 * Window
    BY DEF ReplayWindow
  <2>1. p.ts \in Int /\ times[p][1] \in Int /\ times[p][2] \in Int /\ Window \in Int
    BY TTLAssumption, BoundsAssumption DEF PATypeOK, ClockTimes, Polls
  <2>2. times[p][2] - p.ts <= Window /\ p.ts - times[p][1] <= Window
    BY DEF NearSigned
  <2> QED
    BY <2>1, <2>2
<1> QED
  BY <1>1, <1>2, <1>3, TypeCorrect, PTL DEF PASpec

------------------------------------------------------------------------------
\* Every record stands for a poll accepted since the last restart.
LEMMA GrantedStep ==
  ASSUME PATypeOK, EveryRecordGranted, NoFalseReplay, [PANext]_paVars
  PROVE  EveryRecordGranted' /\ NoFalseReplay'
  <1>1. ASSUME NEW p \in signed, AcceptPoll(p) PROVE EveryRecordGranted' /\ NoFalseReplay'
    <2>0. p \in Polls
      BY DEF PATypeOK
    <2>1. \A q \in Polls : taken[q] > 0 => taken'[q] > 0
      BY <1>1 DEF AcceptPoll, PATypeOK
    <2>2. taken'[p] > 0
      BY <1>1, <2>0 DEF AcceptPoll, PATypeOK
    <2>3. seen' = Recorded(p) /\ refused' = refused
      BY <1>1 DEF AcceptPoll
    <2>4. ASSUME NEW key \in DOMAIN seen'
          PROVE  \E q \in Polls : NonceKey(q) = key /\ taken'[q] > 0
      <3>1. CASE key = NonceKey(p)
        BY <2>0, <2>2, <3>1
      <3>2. CASE key # NonceKey(p)
        <4>1. key \in DOMAIN seen
          BY <2>3, <2>4, <3>2, PurgeKeeps, RecordedIs, Zenon
        <4> QED
          BY <2>1, <4>1, Zenon DEF EveryRecordGranted
      <3> QED
        BY <3>1, <3>2
    <2>5. EveryRecordGranted'
      BY <2>4, Zenon DEF EveryRecordGranted, NonceKey
    <2>6. NoFalseReplay'
      BY <2>1, <2>3, Zenon DEF NoFalseReplay, NonceKey
    <2> QED
      BY <2>5, <2>6
  <1>2. ASSUME NEW p \in signed, RefuseReplay(p) PROVE EveryRecordGranted' /\ NoFalseReplay'
    <2>1. seen' = Purged /\ taken' = taken /\ refused' = refused \cup {p}
      BY <1>2 DEF RefuseReplay
    <2>2. DOMAIN Purged \subseteq DOMAIN seen
      BY PurgeKeeps
    <2>3. \E q \in Polls : NonceKey(q) = NonceKey(p) /\ taken[q] > 0
      BY <1>2, <2>2, Zenon DEF RefuseReplay, Replayed, EveryRecordGranted
    <2>4. EveryRecordGranted'
      BY <2>1, <2>2, Zenon DEF EveryRecordGranted, NonceKey
    <2>5. NoFalseReplay'
      BY <2>1, <2>3, Zenon DEF NoFalseReplay, NonceKey
    <2> QED
      BY <2>4, <2>5
  <1>3. CASE ForgetAll
    <2>1. DOMAIN seen' = {} /\ refused' = {}
      BY <1>3 DEF ForgetAll
    <2> QED
      BY <2>1 DEF EveryRecordGranted, NoFalseReplay
  <1>4. CASE UNCHANGED <<seen, taken, refused>>
    BY <1>4, Zenon DEF EveryRecordGranted, NoFalseReplay, NonceKey
  <1> QED
    BY <1>1, <1>2, <1>3, <1>4
    DEF PANext, Sign, Register, PassUnpinned, RefuseTime, ClockTick, paVars, authVars

\* ERR:replay never answers a poll whose nonce is new in its scope.
THEOREM ReplaysAreReal == PASpec => []NoFalseReplay
<1>1. PAInit => EveryRecordGranted /\ NoFalseReplay
  BY DEF PAInit, EveryRecordGranted, NoFalseReplay
<1>2. PATypeOK /\ (EveryRecordGranted /\ NoFalseReplay) /\ [PANext]_paVars
        => (EveryRecordGranted /\ NoFalseReplay)'
  BY GrantedStep
<1> QED
  BY <1>1, <1>2, TypeCorrect, PTL DEF PASpec

------------------------------------------------------------------------------
(* Transports *)

\* What a query that ends leaves in outcome.
LEMMA EndsIs ==
  ASSUME TRTypeOK, NEW a \in Askers, NEW of \in Nat, NEW txt \in Texts \cup {Failed}, Ends(a, of, txt)
  PROVE  /\ call' \in [Askers -> [nr : Nat, at : {"idle", "direct", "upload", "disk"}, req : Nat]]
         /\ \A b \in Askers : b # a => call'[b] = call[b]
         /\ call'[a].at = "idle"
         /\ DOMAIN outcome' = DOMAIN outcome \cup {call[a].nr}
         /\ DOMAIN outcome' \subseteq Nat
         /\ \A nr \in DOMAIN outcome' :
              /\ outcome'[nr] = IF nr = call[a].nr THEN [of |-> of, txt |-> txt] ELSE outcome[nr]
              /\ outcome'[nr] \in Answers
  <1>1. NoCall \in [nr : Nat, at : {"idle", "direct", "upload", "disk"}, req : Nat]
    BY DEF NoCall
  <1>2. call' = [call EXCEPT ![a] = NoCall] /\ NoCall.at = "idle"
    BY DEF Ends, NoCall
  <1>3. [of |-> of, txt |-> txt] \in Answers
    BY DEF Answers
  <1>4. outcome' = With(outcome, call[a].nr, [of |-> of, txt |-> txt])
    BY DEF Ends
  <1>5. call[a].nr \in Nat
    BY DEF TRTypeOK
  <1> QED
    BY <1>1, <1>2, <1>3, <1>4, <1>5 DEF With, TRTypeOK

\* What serving poll nr with the answer txt does at the relay.
LEMMA PolledIs ==
  ASSUME TRTypeOK, NEW nr \in Nat, NEW txt \in Texts, Polled(nr, txt)
  PROVE  /\ recorded' \subseteq Nat /\ recorded \subseteq recorded'
         /\ took' \subseteq Nat \X Texts /\ took \subseteq took'
         /\ \A x \in took' : x \in took \/ (x = <<nr, txt>> /\ nr \notin recorded /\ nr \in recorded')
         /\ txt = Empty => nr \notin recorded /\ nr \in recorded' /\ took' = took
  <1>1. recorded \subseteq Nat /\ took \subseteq Nat \X Texts
    BY DEF TRTypeOK
  <1>2. CASE nr \in recorded
    <2>1. txt # Empty /\ recorded' = recorded /\ took' = took
      BY <1>2 DEF Polled, relayPart, Empty, Refused
    <2> QED
      BY <1>1, <2>1
  <1>3. CASE nr \notin recorded
    <2>1. recorded' = recorded \cup {nr} /\ took' = took \cup ({<<nr, txt>>} \ {<<nr, Empty>>})
      BY <1>3 DEF Polled, RecordedWith
    <2>2. txt = Empty => took' = took
      BY <2>1
    <2>3. took' \subseteq Nat \X Texts
      BY <1>1, <2>1
    <2> QED
      BY <1>1, <1>3, <2>1, <2>2, <2>3
  <1> QED
    BY <1>2, <1>3

LEMMA ToOpenOf ==
  ASSUME NEW s, NEW c
  PROVE  ToOpen(s, c) \subseteq s
  BY DEF ToOpen

\* The rest of a listing: each file that the bridge has not seen, once.
LEMMA ListedIs ==
  ASSUME TRTypeOK
  PROVE  /\ Listed \in Seq(Files)
         /\ \A i, j \in DOMAIN Listed :
              Listed[i] \notin seenFiles /\ (Listed[i] = Listed[j] => i = j)
  <1> DEFINE n == Len(folder)
             all == NewestFirst
             unseen == Recent \ seenFiles
             l == Only(all, unseen)
  <1>1. n \in Nat
    BY LenProperties DEF TRTypeOK
  <1>2. all = [i \in 1 .. n |-> n + 1 - i] /\ Files = 1 .. n /\ Listed = l
    BY DEF NewestFirst, Files, Listed
  <1>3. \A i \in 1 .. n : all[i] = n + 1 - i /\ all[i] \in 1 .. n
    BY <1>1, <1>2
  <1> HIDE DEF n, all
  <1>4. all \in Seq(1 .. n) /\ Len(all) = n /\ DOMAIN all = 1 .. n
    <2>1. all \in [1 .. n -> 1 .. n]
      BY <1>2, <1>3
    <2>2. all \in Seq(1 .. n)
      BY <1>1, <2>1, IsASeq
    <2> QED
      BY <1>1, <2>1, <2>2, LenProperties
  <1> HIDE DEF l, unseen
  <1>5. l \in Seq(1 .. n) /\ (\E at : Selects(at, all, unseen, l))
    BY <1>4, OnlyProperties DEF l
  <1>6. PICK at : Selects(at, all, unseen, l)
    BY <1>5
  <1>7. DOMAIN l = 1 .. Len(l) /\ Len(l) \in Nat
    BY <1>5, LenProperties
  <1>8. unseen \cap seenFiles = {}
    BY DEF unseen
  <1>9. ASSUME NEW i \in DOMAIN l, NEW j \in DOMAIN l
        PROVE  l[i] \notin seenFiles /\ (l[i] = l[j] => i = j)
    <2>1. at[i] \in 1 .. n /\ at[j] \in 1 .. n /\ l[i] = all[at[i]] /\ l[j] = all[at[j]] /\ l[i] \in unseen
      BY <1>4, <1>6, <1>7 DEF Selects
    <2>2. l[i] = l[j] => at[i] = at[j]
      <3>1. all[at[i]] = n + 1 - at[i] /\ all[at[j]] = n + 1 - at[j]
        BY <1>3, <2>1
      <3> QED
        BY <1>1, <2>1, <3>1
    <2>3. i < j => at[i] < at[j]
      BY <1>6, <1>7 DEF Selects
    <2>4. j < i => at[j] < at[i]
      BY <1>6, <1>7 DEF Selects
    <2>5. i \in Nat /\ j \in Nat
      BY <1>7
    <2> QED
      BY <1>1, <1>8, <2>1, <2>2, <2>3, <2>4, <2>5
  <1> QED
    BY <1>2, <1>5, <1>9, Zenon
\* What is done with the relay keeps the types of what the relay has.
LEMMA TransportTypesStep ==
  ASSUME TRTypeOK, [TRNext]_trVars
  PROVE  TRTypeOK'
  <1> DEFINE CallType == [Askers -> [nr : Nat, at : {"idle", "direct", "upload", "disk"}, req : Nat]]
  <1> USE TransportsAssumption
  <1>0. \A nr \in packets : nr \in Nat
    BY DEF TRTypeOK
  <1>1. ASSUME NEW a \in Askers, Ask(a) PROVE TRTypeOK'
    <2>1. calls' \in 0 .. MaxCalls /\ calls + 1 \in Nat
      BY <1>1 DEF Ask, TRTypeOK
    <2>2. call' \in CallType /\ packets' \subseteq Nat
      BY <1>1, <2>1 DEF Ask, TRTypeOK
    <2> QED
      BY <1>1, <2>1, <2>2 DEF Ask, TRTypeOK, relayPart, bridgePart, Files
  <1>2. ASSUME NEW a \in Askers, DirectTimeout(a) PROVE TRTypeOK'
    <2>1. call' \in CallType
      BY <1>2 DEF DirectTimeout, TRTypeOK
    <2>2. replies' \subseteq replies
      BY <1>2, ToOpenOf DEF DirectTimeout
    <2> QED
      BY <1>2, <2>1, <2>2 DEF DirectTimeout, TRTypeOK, relayPart, bridgePart, Files
  <1>3. ASSUME NEW a \in Askers, DiskTimeout(a) PROVE TRTypeOK'
    <2>1. Ends(a, call[a].nr, Failed) /\ call[a].nr \in Nat
      BY <1>3 DEF DiskTimeout, TRTypeOK
    <2> QED
      BY <1>3, <2>1, EndsIs DEF DiskTimeout, TRTypeOK, relayPart, netPart, bridgePart, Files
  <1>4. ASSUME NEW a \in Askers, Fetch(a) PROVE TRTypeOK'
    <2> DEFINE r == answers[ReplyName(call[a].req)]
    <2>1. r \in Answers /\ Ends(a, r.of, r.txt)
      BY <1>4 DEF Fetch, TRTypeOK
    <2>2. r.of \in Nat /\ r.txt \in Texts \cup {Failed}
      BY <2>1 DEF Answers
    <2> HIDE DEF r
    <2> QED
      BY <1>4, <2>1, <2>2, EndsIs DEF Fetch, TRTypeOK, relayPart, netPart, bridgePart, Files
  <1>5. ASSUME NEW a \in Askers, NEW r \in replies, Receive(a, r) PROVE TRTypeOK'
    <2>1. r.of \in Nat /\ r.txt \in Texts
      BY DEF TRTypeOK
    <2>2. replies' \subseteq [port : Nat, of : Nat, txt : Texts]
      BY <1>5, ToOpenOf DEF Receive, TRTypeOK
    <2>3. CASE r.txt = Refused
      <3>1. call' \in CallType /\ outcome' = outcome
        BY <1>5, <2>3, ZenonT(40) DEF Receive, TRTypeOK
      <3> QED
        BY <1>5, <2>2, <3>1 DEF Receive, TRTypeOK, relayPart, bridgePart, Files
    <2>4. CASE r.txt # Refused
      <3>1. Ends(a, r.of, r.txt)
        BY <1>5, <2>4 DEF Receive
      <3> QED
        BY <1>5, <2>1, <2>2, <3>1, EndsIs DEF Receive, TRTypeOK, relayPart, bridgePart, Files
    <2> QED
      BY <2>3, <2>4
  <1>6. ASSUME NEW a \in Askers, NEW there \in BOOLEAN, NEW ok \in BOOLEAN, Upload(a, there, ok)
        PROVE  TRTypeOK'
    <2>1. Len(folder) \in Nat /\ call[a].nr \in Nat
      BY LenProperties DEF TRTypeOK
    <2>2. /\ folder' \in Seq(Nat) /\ Len(folder') \in Nat /\ Len(folder) <= Len(folder')
      BY <1>6, <2>1, AppendProperties DEF Upload, TRTypeOK
    <2>3. Files \subseteq Files'
      BY <2>1, <2>2 DEF Files
    <2>4. /\ call' \in CallType
          /\ DOMAIN outcome' \subseteq Nat /\ \A nr \in DOMAIN outcome' : outcome'[nr] \in Answers
      <3>1. CASE ok
        <4>1. /\ call' = [call EXCEPT ![a] = [call[a] EXCEPT !.at = "disk", !.req = Len(folder) + 1]]
              /\ outcome' = outcome
          BY <1>6, <3>1 DEF Upload
        <4>2. [call[a] EXCEPT !.at = "disk", !.req = Len(folder) + 1]
                \in [nr : Nat, at : {"idle", "direct", "upload", "disk"}, req : Nat]
          <5>1. call[a] \in [nr : Nat, at : {"idle", "direct", "upload", "disk"}, req : Nat]
            BY DEF TRTypeOK
          <5>2. Len(folder) + 1 \in Nat
            BY <2>1
          <5> QED
            BY <5>1, <5>2
        <4> QED
          BY <4>1, <4>2, Zenon DEF TRTypeOK
      <3>2. CASE ~ok
        <4>1. Ends(a, call[a].nr, Failed)
          BY <1>6, <3>2 DEF Upload
        <4> QED
          BY <2>1, <4>1, EndsIs
      <3> QED
        BY <3>1, <3>2
    <2>5. UNCHANGED <<packets, replies, answers, seenFiles, todo, hand, recorded, took, calls,
                      forwarded, repeats, bridgeStarts>>
      BY <1>6 DEF Upload, relayPart, netPart, bridgePart
    <2>6. /\ todo \in Seq(Files')
          /\ hand \subseteq [req : Files', txt : Texts \cup {Failed}]
      BY <2>3 DEF TRTypeOK
    <2> QED
      BY <2>2, <2>3, <2>4, <2>5, <2>6 DEF TRTypeOK
  <1>7. ASSUME NEW nr \in packets, NEW again \in BOOLEAN, ServePacket(nr, again) PROVE TRTypeOK'
    <2>1. PICK txt \in Texts :
            /\ Polled(nr, txt)
            /\ replies' = ToOpen(replies \cup {[port |-> PortOf(nr), of |-> nr, txt |-> txt]}, call)
      BY <1>7 DEF ServePacket
    <2>2. replies' \subseteq [port : Nat, of : Nat, txt : Texts]
      <3>1. [port |-> PortOf(nr), of |-> nr, txt |-> txt] \in [port : Nat, of : Nat, txt : Texts]
        BY <1>0 DEF PortOf
      <3> QED
        BY <2>1, <3>1, ToOpenOf DEF TRTypeOK
    <2>3. packets' \subseteq Nat /\ repeats' \in 0 .. MaxRepeats
      BY <1>7 DEF ServePacket, TRTypeOK
    <2> QED
      BY <1>0, <1>7, <2>1, <2>2, <2>3, PolledIs DEF ServePacket, TRTypeOK, bridgePart, Files
  <1>8. CASE ListQueries
    BY <1>8, ListedIs DEF ListQueries, TRTypeOK, relayPart, netPart, Files
  <1>9. CASE BridgeRestart
    <2>1. bridgeStarts' \in 0 .. MaxBridgeStarts
      BY <1>9 DEF BridgeRestart, TRTypeOK
    <2>2. todo' \in Seq(Files) /\ DOMAIN forwarded' = {}
      BY <1>9, EmptySeq DEF BridgeRestart
    <2> QED
      BY <1>9, <2>1, <2>2 DEF BridgeRestart, TRTypeOK, relayPart, netPart, Files
  <1>10. ASSUME NEW ok \in BOOLEAN, TakeFile(ok) PROVE TRTypeOK'
    <2>1. Head(todo) \in Files /\ Tail(todo) \in Seq(Files)
      BY <1>10, HeadTailProperties DEF TakeFile, TRTypeOK
    <2>2. hand' \subseteq [req : Files, txt : Texts \cup {Failed}]
      BY <1>10, <2>1 DEF TakeFile
    <2>3. seenFiles' \subseteq Files
      BY <1>10, <2>1 DEF TakeFile, MarkSeen, TRTypeOK
    <2> QED
      BY <1>10, <2>1, <2>2, <2>3 DEF TakeFile, TRTypeOK, relayPart, netPart, Files
  <1>11. ASSUME NEW f \in hand, NEW served \in BOOLEAN, NEW back \in BOOLEAN, Forward(f, served, back)
         PROVE  TRTypeOK'
    <2>1. f \in [req : Files, txt : Texts \cup {Failed}] /\ f.req \in Files
      BY DEF TRTypeOK
    <2>2. folder[f.req] \in Nat
      BY <2>1, LenProperties DEF TRTypeOK, Files
    <2>3. DOMAIN forwarded' \subseteq Files /\ \A req \in DOMAIN forwarded' : forwarded'[req] \in Nat
      BY <1>11, <2>1 DEF Forward, With, TRTypeOK
    <2>4. /\ recorded' \subseteq Nat /\ took' \subseteq Nat \X Texts
          /\ hand' \subseteq [req : Files, txt : Texts \cup {Failed}]
      <3>1. CASE served
        <4>1. PICK txt \in Texts :
                Polled(folder[f.req], txt) /\ hand' = IF back THEN {[f EXCEPT !.txt = txt]} ELSE {}
          BY <1>11, <3>1 DEF Forward
        <4>2. [f EXCEPT !.txt = txt] \in [req : Files, txt : Texts \cup {Failed}]
          BY <2>1
        <4> QED
          BY <2>2, <4>1, <4>2, PolledIs
      <3>2. CASE ~served
        BY <1>11, <3>2 DEF Forward, relayPart, TRTypeOK
      <3> QED
        BY <3>1, <3>2
    <2> QED
      BY <1>11, <2>3, <2>4 DEF Forward, TRTypeOK, netPart, Files
  <1>12. ASSUME NEW f \in hand, NEW ok \in BOOLEAN, Reply(f, ok) PROVE TRTypeOK'
    <2>1. f \in [req : Files, txt : Texts \cup {Failed}] /\ f.req \in Files
      BY DEF TRTypeOK
    <2>2. folder[f.req] \in Nat
      BY <2>1, LenProperties DEF TRTypeOK, Files
    <2>3. [of |-> folder[f.req], txt |-> f.txt] \in Answers
      BY <2>1, <2>2 DEF Answers
    <2>4. DOMAIN answers' \subseteq Files /\ \A req \in DOMAIN answers' : answers'[req] \in Answers
      BY <1>12, <2>1, <2>3 DEF Reply, With, ReplyName, TRTypeOK
    <2> QED
      BY <1>12, <2>4 DEF Reply, TRTypeOK, relayPart, netPart, Files
  <1>13. CASE UNCHANGED trVars
    BY <1>13 DEF TRTypeOK, trVars, relayPart, netPart, bridgePart, Files
  <1> QED
    BY <1>1, <1>2, <1>3, <1>4, <1>5, <1>6, <1>7, <1>8, <1>9, <1>10, <1>11, <1>12, <1>13 DEF TRNext

LEMMA TransportTypesInit == TRInit => TRTypeOK
  <1> SUFFICES ASSUME TRInit PROVE TRTypeOK
    OBVIOUS
  <1>1. NoCall \in [nr : Nat, at : {"idle", "direct", "upload", "disk"}, req : Nat]
    BY DEF NoCall
  <1>2. DOMAIN answers = {} /\ DOMAIN outcome = {} /\ DOMAIN forwarded = {}
    BY DEF TRInit
  <1>3. folder \in Seq(Nat) /\ todo \in Seq(Files)
    BY EmptySeq DEF TRInit
  <1> QED
    BY <1>1, <1>2, <1>3, TransportsAssumption DEF TRInit, TRTypeOK

\* Every state of the transports has the types of TRTypeOK.
THEOREM TransportTypes == TRSpec => []TRTypeOK
BY TransportTypesInit, TransportTypesStep, PTL DEF TRSpec
\* Where an answer is, it is the answer to the poll that waits there.
LEMMA OwnStep ==
  ASSUME TRTypeOK, OwnInv, [TRNext]_trVars
  PROVE  OwnInv'
  <1> USE DEF PortOf
  <1>1. ASSUME NEW a \in Askers, Ask(a) PROVE OwnInv'
    BY <1>1 DEF Ask, OwnInv, AnswerIsItsOwn, TRTypeOK, bridgePart, Files
  <1>2. ASSUME NEW a \in Askers, DirectTimeout(a) PROVE OwnInv'
    BY <1>2, ToOpenOf DEF DirectTimeout, OwnInv, AnswerIsItsOwn, TRTypeOK, bridgePart, Files
  <1>3. ASSUME NEW a \in Askers, NEW of \in Nat, NEW txt \in Texts \cup {Failed},
               Ends(a, of, txt), of = call[a].nr
        PROVE  /\ AnswerIsItsOwn'
               /\ \A b \in Askers : call'[b].at = "disk" => call'[b] = call[b]
    <2>1. /\ \A b \in Askers : b # a => call'[b] = call[b]
          /\ call'[a].at = "idle"
          /\ DOMAIN outcome' = DOMAIN outcome \cup {call[a].nr}
          /\ \A nr \in DOMAIN outcome' :
               outcome'[nr] = IF nr = call[a].nr THEN [of |-> of, txt |-> txt] ELSE outcome[nr]
      BY <1>3, EndsIs
    <2>2. \A nr \in DOMAIN outcome' : outcome'[nr].of = nr
      BY <1>3, <2>1 DEF OwnInv, AnswerIsItsOwn
    <2> QED
      BY <2>1, <2>2 DEF AnswerIsItsOwn
  <1>4. ASSUME NEW a \in Askers, DiskTimeout(a) PROVE OwnInv'
    <2>1. Ends(a, call[a].nr, Failed) /\ call[a].nr \in Nat
      BY <1>4 DEF DiskTimeout, TRTypeOK
    <2>2. AnswerIsItsOwn' /\ \A b \in Askers : call'[b].at = "disk" => call'[b] = call[b]
      BY <1>3, <2>1
    <2> QED
      BY <1>4, <2>2 DEF DiskTimeout, OwnInv, netPart, bridgePart, Files
  <1>5. ASSUME NEW a \in Askers, Fetch(a) PROVE OwnInv'
    <2> DEFINE r == answers[ReplyName(call[a].req)]
    <2>1. r \in Answers /\ Ends(a, r.of, r.txt) /\ r.of = call[a].nr
      BY <1>5 DEF Fetch, TRTypeOK, OwnInv, ReplyName
    <2>2. r.of \in Nat /\ r.txt \in Texts \cup {Failed}
      BY <2>1 DEF Answers
    <2> HIDE DEF r
    <2>3. AnswerIsItsOwn' /\ \A b \in Askers : call'[b].at = "disk" => call'[b] = call[b]
      BY <1>3, <2>1, <2>2
    <2> QED
      BY <1>5, <2>3 DEF Fetch, OwnInv, netPart, bridgePart, Files
  <1>6. ASSUME NEW a \in Askers, NEW r \in replies, Receive(a, r) PROVE OwnInv'
    <2>1. r.of \in Nat /\ r.txt \in Texts /\ r.of = call[a].nr
      BY <1>6 DEF TRTypeOK, Receive, OwnInv
    <2>2. replies' \subseteq replies
      BY <1>6, ToOpenOf DEF Receive
    <2>3. AnswerIsItsOwn' /\ \A b \in Askers : call'[b].at = "disk" => call'[b] = call[b]
      <3>1. CASE r.txt = Refused
        BY <1>6, <3>1 DEF Receive, TRTypeOK, OwnInv, AnswerIsItsOwn
      <3>2. CASE r.txt # Refused
        BY <1>3, <1>6, <2>1, <3>2 DEF Receive
      <3> QED
        BY <3>1, <3>2
    <2> QED
      BY <1>6, <2>2, <2>3 DEF Receive, OwnInv, bridgePart, Files
  <1>7. ASSUME NEW a \in Askers, NEW there \in BOOLEAN, NEW ok \in BOOLEAN, Upload(a, there, ok)
        PROVE  OwnInv'
    <2> DEFINE n == Len(folder)
    <2>1. n \in Nat /\ call[a].nr \in Nat /\ Files = 1 .. n
      BY LenProperties DEF TRTypeOK, Files
    <2>2. /\ Files \subseteq Files' /\ \A i \in Files : folder'[i] = folder[i]
          /\ ok => n + 1 \in Files' /\ folder'[n + 1] = call[a].nr
      <3>1. CASE there
        <4>1. folder' = Append(folder, call[a].nr)
          BY <1>7, <3>1 DEF Upload
        <4>2. Len(folder') = n + 1 /\ folder'[n + 1] = call[a].nr /\ \A i \in 1 .. n : folder'[i] = folder[i]
          BY <2>1, <4>1, AppendProperties DEF TRTypeOK
        <4> HIDE DEF n
        <4> QED
          BY <2>1, <4>2 DEF Files
      <3>2. CASE ~there
        BY <1>7, <3>2 DEF Upload, Files
      <3> QED
        BY <3>1, <3>2
    <2>3. /\ AnswerIsItsOwn'
          /\ \A b \in Askers : call'[b].at = "disk" =>
               call'[b] = call[b] \/ (ok /\ call'[b].nr = call[a].nr /\ call'[b].req = n + 1)
      <3>1. CASE ok
        <4>1. /\ call' = [call EXCEPT ![a] = [call[a] EXCEPT !.at = "disk", !.req = n + 1]]
              /\ outcome' = outcome
          BY <1>7, <3>1 DEF Upload
        <4>2. /\ [call[a] EXCEPT !.at = "disk", !.req = n + 1].nr = call[a].nr
              /\ [call[a] EXCEPT !.at = "disk", !.req = n + 1].req = n + 1
          BY DEF TRTypeOK
        <4> QED
          BY <3>1, <4>1, <4>2 DEF TRTypeOK, OwnInv, AnswerIsItsOwn
      <3>2. CASE ~ok
        <4>1. Ends(a, call[a].nr, Failed)
          BY <1>7, <3>2 DEF Upload
        <4> QED
          BY <1>3, <2>1, <4>1
      <3> QED
        BY <3>1, <3>2
    <2>4. UNCHANGED <<answers, replies>>
      BY <1>7 DEF Upload, netPart, bridgePart
    <2> HIDE DEF n
    <2>5. \A b \in Askers : call'[b].at = "disk" => call'[b].req \in Files' /\ folder'[call'[b].req] = call'[b].nr
      BY <2>2, <2>3 DEF OwnInv
    <2>6. \A req \in DOMAIN answers' : answers'[req].of = folder'[req]
      BY <2>2, <2>4 DEF OwnInv, TRTypeOK
    <2> QED
      BY <2>3, <2>4, <2>5, <2>6 DEF OwnInv
  <1>8. ASSUME NEW nr \in packets, NEW again \in BOOLEAN, ServePacket(nr, again) PROVE OwnInv'
    <2>1. PICK txt \in Texts :
            replies' = ToOpen(replies \cup {[port |-> PortOf(nr), of |-> nr, txt |-> txt]}, call)
      BY <1>8 DEF ServePacket
    <2>2. \A r \in replies' : r.port = r.of
      BY <2>1, ToOpenOf DEF OwnInv
    <2> QED
      BY <1>8, <2>2 DEF ServePacket, OwnInv, AnswerIsItsOwn, bridgePart, Files
  <1>9. ASSUME NEW f \in hand, NEW ok \in BOOLEAN, Reply(f, ok) PROVE OwnInv'
    <2>1. \A req \in DOMAIN answers' : answers'[req].of = folder[req]
      BY <1>9 DEF Reply, With, ReplyName, OwnInv
    <2> QED
      BY <1>9, <2>1 DEF Reply, OwnInv, AnswerIsItsOwn, netPart, Files
  <1>10. CASE UNCHANGED <<call, replies, folder, answers, outcome>>
    BY <1>10 DEF OwnInv, AnswerIsItsOwn, Files
  <1>11. ASSUME NEW f \in hand, NEW served \in BOOLEAN, NEW back \in BOOLEAN, Forward(f, served, back)
         PROVE  OwnInv'
    BY <1>10, <1>11 DEF Forward, netPart
  <1>12. ASSUME NEW ok \in BOOLEAN, TakeFile(ok) PROVE OwnInv'
    BY <1>10, <1>12 DEF TakeFile, netPart
  <1>13. CASE ListQueries \/ BridgeRestart
    BY <1>10, <1>13 DEF ListQueries, BridgeRestart, netPart
  <1>14. CASE UNCHANGED trVars
    BY <1>10, <1>14 DEF trVars, netPart, bridgePart
  <1> QED
    BY <1>1, <1>2, <1>4, <1>5, <1>6, <1>7, <1>8, <1>9, <1>11, <1>12, <1>13, <1>14 DEF TRNext

\* A query returns the answer to itself, over either transport, however late
\* answers come and however many threads ask at the same time.
THEOREM AnswersAreOwn == TRSpec => []AnswerIsItsOwn
<1>1. TRInit => OwnInv
  BY DEF TRInit, NoCall, OwnInv, AnswerIsItsOwn
<1>2. OwnInv => AnswerIsItsOwn
  BY DEF OwnInv
<1> QED
  BY <1>1, <1>2, OwnStep, TransportTypes, PTL DEF TRSpec
\* Serving poll nr takes a message at most once, and EMPTY for good spares it one.
LEMMA PolledSpares ==
  ASSUME TRTypeOK, SparedInv, NEW nr \in Nat, NEW txt \in Texts, Polled(nr, txt)
  PROVE  /\ \A x \in took' : x[1] \in recorded'
         /\ \A x, y \in took' : x[1] = y[1] => x = y
         /\ \A n : Spared(n) => Spared(n)'
         /\ txt = Empty => Spared(nr)'
  <1>1. /\ recorded \subseteq recorded' /\ took \subseteq took'
        /\ \A x \in took' : x \in took \/ (x = <<nr, txt>> /\ nr \notin recorded /\ nr \in recorded')
        /\ txt = Empty => nr \notin recorded /\ nr \in recorded' /\ took' = took
    BY PolledIs
  <1>2. /\ \A x \in took : x[1] \in recorded
        /\ \A x, y \in took : x[1] = y[1] => x = y
    BY DEF SparedInv
  <1>3. \A x \in took' : x[1] \in recorded' /\ (x \notin took => x = <<nr, txt>> /\ x[1] \notin recorded)
    BY <1>1, <1>2
  <1>4. \A x, y \in took' : x[1] = y[1] => x = y
    BY <1>2, <1>3
  <1>5. ASSUME NEW n, Spared(n) PROVE Spared(n)'
    <2>1. n \in recorded /\ \A x \in took : x[1] # n
      BY <1>5 DEF Spared
    <2>2. n \in recorded' /\ \A x \in took' : x[1] # n
      BY <1>1, <1>3, <2>1
    <2> QED
      BY <2>2 DEF Spared
  <1>6. ASSUME txt = Empty PROVE Spared(nr)'
    <2>1. nr \notin recorded /\ nr \in recorded' /\ took' = took
      BY <1>1, <1>6
    <2>2. \A x \in took' : x[1] # nr
      BY <1>2, <2>1
    <2> QED
      BY <2>1, <2>2 DEF Spared
  <1> QED
    BY <1>3, <1>4, <1>5, <1>6

\* Who ends with EMPTY was told so.
LEMMA SparedEnds ==
  ASSUME TRTypeOK, SparedInv, NEW a \in Askers, NEW of \in Nat, NEW txt \in Texts \cup {Failed},
         Ends(a, of, txt), txt = Empty => Spared(of)
  PROVE  \A nr \in DOMAIN outcome' : outcome'[nr].txt = Empty => Spared(outcome'[nr].of)
  <1>1. /\ DOMAIN outcome' = DOMAIN outcome \cup {call[a].nr}
        /\ \A nr \in DOMAIN outcome' :
             outcome'[nr] = IF nr = call[a].nr THEN [of |-> of, txt |-> txt] ELSE outcome[nr]
    BY EndsIs
  <1>2. \A nr \in DOMAIN outcome : outcome[nr].txt = Empty => Spared(outcome[nr].of)
    BY DEF SparedInv
  <1> QED
    BY <1>1, <1>2

\* EMPTY on its way stays true.
LEMMA SparedStep ==
  ASSUME TRTypeOK, SparedInv, [TRNext]_trVars
  PROVE  SparedInv'
  <1>1. ASSUME UNCHANGED relayPart,
               \A r \in replies' : r \in replies,
               \A f \in hand' : f.txt = Empty => f \in hand /\ folder'[f.req] = folder[f.req],
               \A req \in DOMAIN answers' : answers'[req].txt = Empty => Spared(answers'[req].of),
               \A nr \in DOMAIN outcome' : outcome'[nr].txt = Empty => Spared(outcome'[nr].of)
        PROVE  SparedInv'
    <2>1. \A nr : Spared(nr)' <=> Spared(nr)
      BY <1>1, Zenon DEF Spared, relayPart
    <2>2. (\A x \in took' : x[1] \in recorded') /\ (\A x, y \in took' : x[1] = y[1] => x = y)
      BY <1>1, Zenon DEF SparedInv, relayPart
    <2>3. \A r \in replies' : r.txt = Empty => Spared(r.of)
      BY <1>1 DEF SparedInv
    <2>4. \A f \in hand' : f.txt = Empty => Spared(folder'[f.req])
      BY <1>1 DEF SparedInv
    <2> QED
      BY <1>1, <2>1, <2>2, <2>3, <2>4 DEF SparedInv
  <1>2. /\ \A req \in DOMAIN answers : answers[req].txt = Empty => Spared(answers[req].of)
        /\ \A nr \in DOMAIN outcome : outcome[nr].txt = Empty => Spared(outcome[nr].of)
        /\ \A r \in replies : r.txt = Empty => Spared(r.of)
        /\ \A f \in hand : f.txt = Empty => Spared(folder[f.req])
    BY DEF SparedInv
  <1>3. Failed # Empty /\ Refused # Empty
    BY DEF Failed, Empty, Refused
  <1>4. ASSUME NEW a \in Askers, Ask(a) PROVE SparedInv'
    BY <1>1, <1>2, <1>4 DEF Ask, bridgePart
  <1>5. ASSUME NEW a \in Askers, DirectTimeout(a) PROVE SparedInv'
    <2>1. \A r \in replies' : r \in replies
      BY <1>5, ToOpenOf DEF DirectTimeout
    <2> QED
      BY <1>1, <1>2, <1>5, <2>1 DEF DirectTimeout, bridgePart
  <1>6. ASSUME NEW a \in Askers, DiskTimeout(a) PROVE SparedInv'
    <2>1. Ends(a, call[a].nr, Failed) /\ call[a].nr \in Nat
      BY <1>6 DEF DiskTimeout, TRTypeOK
    <2>2. \A nr \in DOMAIN outcome' : outcome'[nr].txt = Empty => Spared(outcome'[nr].of)
      BY <1>3, <2>1, SparedEnds
    <2> QED
      BY <1>1, <1>2, <1>6, <2>2 DEF DiskTimeout, netPart, bridgePart
  <1>7. ASSUME NEW a \in Askers, Fetch(a) PROVE SparedInv'
    <2> DEFINE r == answers[ReplyName(call[a].req)]
    <2>1. r \in Answers /\ Ends(a, r.of, r.txt) /\ (r.txt = Empty => Spared(r.of))
      BY <1>2, <1>7 DEF Fetch, TRTypeOK
    <2>2. r.of \in Nat /\ r.txt \in Texts \cup {Failed}
      BY <2>1 DEF Answers
    <2> HIDE DEF r
    <2>3. \A nr \in DOMAIN outcome' : outcome'[nr].txt = Empty => Spared(outcome'[nr].of)
      BY <2>1, <2>2, SparedEnds
    <2> QED
      BY <1>1, <1>2, <1>7, <2>3 DEF Fetch, netPart, bridgePart
  <1>8. ASSUME NEW a \in Askers, NEW r \in replies, Receive(a, r) PROVE SparedInv'
    <2>1. r.of \in Nat /\ r.txt \in Texts /\ (r.txt = Empty => Spared(r.of))
      BY <1>2 DEF TRTypeOK
    <2>2. \A x \in replies' : x \in replies
      BY <1>8, ToOpenOf DEF Receive
    <2>3. \A nr \in DOMAIN outcome' : outcome'[nr].txt = Empty => Spared(outcome'[nr].of)
      <3>1. CASE r.txt = Refused
        BY <1>2, <1>8, <3>1 DEF Receive
      <3>2. CASE r.txt # Refused
        BY <1>8, <2>1, <3>2, SparedEnds DEF Receive
      <3> QED
        BY <3>1, <3>2
    <2> QED
      BY <1>1, <1>2, <1>8, <2>2, <2>3 DEF Receive, bridgePart
  <1>9. ASSUME NEW a \in Askers, NEW there \in BOOLEAN, NEW ok \in BOOLEAN, Upload(a, there, ok)
        PROVE  SparedInv'
    <2>1. call[a].nr \in Nat
      BY DEF TRTypeOK
    <2>2. \A nr \in DOMAIN outcome' : outcome'[nr].txt = Empty => Spared(outcome'[nr].of)
      <3>1. CASE ok
        BY <1>2, <1>9, <3>1 DEF Upload
      <3>2. CASE ~ok
        BY <1>3, <1>9, <2>1, <3>2, SparedEnds DEF Upload
      <3> QED
        BY <3>1, <3>2
    <2>3. \A req \in Files : folder'[req] = folder[req]
      BY <1>9, <2>1, AppendProperties DEF Upload, TRTypeOK, Files
    <2>4. \A f \in hand : folder'[f.req] = folder[f.req]
      BY <2>3 DEF TRTypeOK
    <2> QED
      BY <1>1, <1>2, <1>9, <2>2, <2>4 DEF Upload, netPart, bridgePart
  <1>10. ASSUME NEW nr \in packets, NEW again \in BOOLEAN, ServePacket(nr, again) PROVE SparedInv'
    <2>1. PICK txt \in Texts :
            /\ Polled(nr, txt)
            /\ replies' = ToOpen(replies \cup {[port |-> PortOf(nr), of |-> nr, txt |-> txt]}, call)
      BY <1>10 DEF ServePacket
    <2>2. nr \in Nat
      BY DEF TRTypeOK
    <2>3. /\ \A x \in took' : x[1] \in recorded'
          /\ \A x, y \in took' : x[1] = y[1] => x = y
          /\ \A n : Spared(n) => Spared(n)'
          /\ txt = Empty => Spared(nr)'
      BY <2>1, <2>2, PolledSpares
    <2>4. \A r \in replies' : r \in replies \/ (r.of = nr /\ r.txt = txt)
      BY <2>1, ToOpenOf
    <2>5. \A r \in replies' : r.txt = Empty => Spared(r.of)'
      BY <1>2, <2>3, <2>4
    <2>6. UNCHANGED <<hand, folder, answers, outcome>>
      BY <1>10 DEF ServePacket, bridgePart
    <2> QED
      BY <1>2, <2>3, <2>5, <2>6 DEF SparedInv
  <1>11. ASSUME NEW ok \in BOOLEAN, TakeFile(ok) PROVE SparedInv'
    BY <1>1, <1>2, <1>3, <1>11 DEF TakeFile, netPart
  <1>12. ASSUME NEW f \in hand, NEW served \in BOOLEAN, NEW back \in BOOLEAN, Forward(f, served, back)
         PROVE  SparedInv'
    <2>1. CASE ~served
      BY <1>1, <1>2, <1>12, <2>1 DEF Forward, netPart
    <2>2. CASE served
      <3>1. f \in [req : Files, txt : Texts \cup {Failed}] /\ folder[f.req] \in Nat
        BY LenProperties DEF TRTypeOK, Files
      <3>0. PICK nr \in Nat : nr = folder[f.req]
        BY <3>1
      <3>2. PICK txt \in Texts :
              Polled(nr, txt) /\ hand' = IF back THEN {[f EXCEPT !.txt = txt]} ELSE {}
        BY <1>12, <2>2, <3>0 DEF Forward
      <3>3. /\ \A x \in took' : x[1] \in recorded'
            /\ \A x, y \in took' : x[1] = y[1] => x = y
            /\ \A n : Spared(n) => Spared(n)'
            /\ txt = Empty => Spared(nr)'
        BY <3>1, <3>2, PolledSpares
      <3>4. \A g \in hand' : g.req = f.req /\ g.txt = txt
        BY <3>1, <3>2
      <3>5. UNCHANGED <<replies, folder, answers, outcome>>
        BY <1>12 DEF Forward, netPart
      <3>6. \A g \in hand' : g.txt = Empty => Spared(folder[g.req])'
        <4>1. \A g \in hand' : folder'[g.req] = nr
          BY <3>0, <3>4, <3>5
        <4> QED
          BY <3>3, <3>4, <4>1 DEF Spared
      <3> QED
        BY <1>2, <3>3, <3>5, <3>6 DEF SparedInv
    <2> QED
      BY <2>1, <2>2
  <1>13. ASSUME NEW f \in hand, NEW ok \in BOOLEAN, Reply(f, ok) PROVE SparedInv'
    <2>1. \A req \in DOMAIN answers' : answers'[req].txt = Empty => Spared(answers'[req].of)
      BY <1>2, <1>13 DEF Reply, With
    <2> QED
      BY <1>1, <1>2, <1>13, <2>1 DEF Reply, netPart
  <1>14. CASE ListQueries \/ BridgeRestart
    BY <1>1, <1>2, <1>14 DEF ListQueries, BridgeRestart, netPart
  <1>15. CASE UNCHANGED trVars
    BY <1>1, <1>2, <1>15 DEF trVars, netPart, bridgePart
  <1> QED
    BY <1>4, <1>5, <1>6, <1>7, <1>8, <1>9, <1>10, <1>11, <1>12, <1>13, <1>14, <1>15 DEF TRNext

\* One poll takes at most one message, over however many transports it goes, and
\* none if it was answered EMPTY, for any number of threads, copies and restarts.
THEOREM PollTakesOnce == TRSpec => []TakenOnce
<1>1. TRInit => OwnInv /\ SparedInv
  BY DEF TRInit, NoCall, OwnInv, AnswerIsItsOwn, SparedInv
<1>2. OwnInv /\ SparedInv => TakenOnce
  BY DEF OwnInv, AnswerIsItsOwn, SparedInv, Spared, TakenOnce
<1> QED
  BY <1>1, <1>2, OwnStep, SparedStep, TransportTypes, PTL DEF TRSpec

\* What the bridge forwards, it has seen before, and will not list again.
LEMMA SeenStep ==
  ASSUME TRTypeOK, SeenInv, [TRNext]_trVars
  PROVE  SeenInv'
  <1>1. CASE UNCHANGED <<seenFiles, todo, hand, forwarded>>
    BY <1>1 DEF SeenInv, ForwardedOnce
  <1>2. ASSUME NEW a \in Askers, Ask(a) \/ DirectTimeout(a) \/ DiskTimeout(a) \/ Fetch(a)
        PROVE  SeenInv'
    BY <1>1, <1>2 DEF Ask, DirectTimeout, DiskTimeout, Fetch, bridgePart
  <1>3. ASSUME NEW a \in Askers, NEW r \in replies, Receive(a, r) PROVE SeenInv'
    BY <1>1, <1>3 DEF Receive, bridgePart
  <1>4. ASSUME NEW a \in Askers, NEW there \in BOOLEAN, NEW ok \in BOOLEAN, Upload(a, there, ok)
        PROVE  SeenInv'
    BY <1>1, <1>4 DEF Upload, bridgePart
  <1>5. ASSUME NEW nr \in packets, NEW again \in BOOLEAN, ServePacket(nr, again) PROVE SeenInv'
    BY <1>1, <1>5 DEF ServePacket, bridgePart
  <1>6. CASE ListQueries
    <2>1. \A i, j \in DOMAIN todo' : todo'[i] \notin seenFiles /\ (todo'[i] = todo'[j] => i = j)
      BY <1>6, ListedIs DEF ListQueries
    <2> QED
      BY <1>6, <2>1 DEF ListQueries, SeenInv, ForwardedOnce
  <1>7. CASE BridgeRestart
    <2>1. seenFiles' = {} /\ hand' = {} /\ DOMAIN todo' = {} /\ DOMAIN forwarded' = {}
      BY <1>7 DEF BridgeRestart
    <2> QED
      BY <2>1 DEF SeenInv, ForwardedOnce
  <1>8. ASSUME NEW ok \in BOOLEAN, TakeFile(ok) PROVE SeenInv'
    <2> DEFINE n == Len(todo)
               h == Head(todo)
               t == Tail(todo)
    <2>1. /\ n \in Nat /\ n > 0 /\ DOMAIN todo = 1 .. n /\ h = todo[1]
          /\ Len(t) = n - 1 /\ DOMAIN t = 1 .. (n - 1) /\ \A i \in 1 .. (n - 1) : t[i] = todo[i + 1]
      BY <1>8, LenProperties, HeadTailProperties, EmptySeq DEF TakeFile, TRTypeOK
    <2>2. /\ seenFiles' = seenFiles \cup {h} /\ todo' = t /\ forwarded' = forwarded
          /\ \A f \in hand' : f.req = h
          /\ \A f, g \in hand' : f = g
      BY <1>8 DEF TakeFile, MarkSeen
    <2> HIDE DEF n, h, t
    <2>3. h \notin seenFiles /\ \A i \in 2 .. n : todo[i] \notin seenFiles /\ todo[i] # h
      <3>1. 1 \in DOMAIN todo /\ \A i \in 2 .. n : i \in DOMAIN todo /\ i # 1
        BY <2>1
      <3>2. \A i, j \in DOMAIN todo : todo[i] \notin seenFiles /\ (todo[i] = todo[j] => i = j)
        BY DEF SeenInv
      <3> QED
        BY <2>1, <3>1, <3>2, Zenon
    <2>4. \A i, j \in DOMAIN t : t[i] \notin seenFiles \cup {h} /\ (t[i] = t[j] => i = j)
      <3> SUFFICES ASSUME NEW i \in 1 .. (n - 1), NEW j \in 1 .. (n - 1)
                   PROVE  t[i] \notin seenFiles \cup {h} /\ (t[i] = t[j] => i = j)
        BY <2>1
      <3>1. i + 1 \in 2 .. n /\ i + 1 \in 1 .. n /\ j + 1 \in 1 .. n /\ (i + 1 = j + 1 => i = j)
        BY <2>1
      <3>2. t[i] = todo[i + 1] /\ t[j] = todo[j + 1]
        BY <2>1
      <3> QED
        BY <2>1, <2>3, <3>1, <3>2 DEF SeenInv
    <2> QED
      BY <2>2, <2>3, <2>4 DEF SeenInv, ForwardedOnce
  <1>9. ASSUME NEW f \in hand, NEW served \in BOOLEAN, NEW back \in BOOLEAN, Forward(f, served, back)
        PROVE  SeenInv'
    <2>1. f.txt = Failed /\ f.req \in seenFiles /\ f.req \notin DOMAIN forwarded
      BY <1>9 DEF Forward, SeenInv
    <2>2. f \in [req : Files, txt : Texts \cup {Failed}]
      BY DEF TRTypeOK
    <2>3. /\ DOMAIN forwarded' = DOMAIN forwarded \cup {f.req}
          /\ \A req \in DOMAIN forwarded' : forwarded'[req] = IF req = f.req THEN 1 ELSE forwarded[req]
      BY <1>9, <2>1 DEF Forward, With
    <2>4. /\ \A g \in hand' : g.req = f.req /\ g.txt \in Texts
          /\ \A g, h \in hand' : g = h
      <3>1. CASE served
        <4>1. PICK txt \in Texts : hand' = IF back THEN {[f EXCEPT !.txt = txt]} ELSE {}
          BY <1>9, <3>1 DEF Forward
        <4> QED
          BY <2>2, <4>1
      <3>2. CASE ~served
        BY <1>9, <3>2 DEF Forward
      <3> QED
        BY <3>1, <3>2
    <2>5. Failed \notin Texts
      BY TransportsAssumption DEF Failed, Texts, Refused, Empty
    <2>6. UNCHANGED <<seenFiles, todo>>
      BY <1>9 DEF Forward
    <2> QED
      BY <2>1, <2>3, <2>4, <2>5, <2>6 DEF SeenInv, ForwardedOnce
  <1>10. ASSUME NEW f \in hand, NEW ok \in BOOLEAN, Reply(f, ok) PROVE SeenInv'
    BY <1>10 DEF Reply, SeenInv, ForwardedOnce
  <1>11. CASE UNCHANGED trVars
    BY <1>1, <1>11 DEF trVars, bridgePart
  <1> QED
    BY <1>2, <1>3, <1>4, <1>5, <1>6, <1>7, <1>8, <1>9, <1>10, <1>11 DEF TRNext

\* A bridge forwards no file twice while it runs, whichever of its calls fail.
THEOREM BridgeForwardsOnce == TRSpec => []ForwardedOnce
<1>1. TRInit => SeenInv
  BY DEF TRInit, SeenInv, ForwardedOnce
<1>2. SeenInv => ForwardedOnce
  BY DEF SeenInv
<1> QED
  BY <1>1, <1>2, SeenStep, TransportTypes, PTL DEF TRSpec
==============================================================================
