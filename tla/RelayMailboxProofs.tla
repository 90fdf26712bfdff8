-------------------------- MODULE RelayMailboxProofs --------------------------
(***************************************************************************)
(* Theorems about RelayMailbox, for every value of its constants: messages *)
(* are whole, queued at most once and handed out while they are fresh, no  *)
(* assembly is of a message that is remembered, and the relay implements   *)
(* AtMostOnceMailbox.                                                      *)
(***************************************************************************)
EXTENDS RelayMailbox, FiniteSetTheorems, SequenceTheorems, TLAPS

------------------------------------------------------------------------------
(* Inductive invariants *)

\* With AtMostOnce, an inductive invariant: what a mailbox holds and what a poll
\* has handed out, the relay remembers, or it has forgotten it.
Remembered ==
  /\ \A u \in Users : \A i \in DOMAIN mailbox[u] :
       KeyOf(mailbox[u][i]) \in DOMAIN delivered \cup forgot
  /\ handed \subseteq DOMAIN delivered \cup forgot

OnceInv == TypeOK /\ Remembered /\ AtMostOnce

\* With Intact, an inductive invariant: an assembly collects the chunks of the
\* one message that opened it.
AssemblyOfOne ==
  \A mid \in DOMAIN asm :
    LET k == <<asm[mid].from, mid>>
    IN  /\ k \in DOMAIN sent
        /\ asm[mid].dest = sent[k].to
        /\ asm[mid].total = sent[k].total
        /\ \A seq \in DOMAIN asm[mid].got : asm[mid].got[seq] = Piece(k, seq)

IntactInv == TypeOK /\ AssemblyOfOne /\ Intact

\* With AckIsHonest, an inductive invariant: so is every record of delivered_mids.
AckInv == TypeOK /\ DOMAIN delivered \subseteq queued /\ AckIsHonest

\* A mailbox is in the order of its ts, and nothing in it had reached its TTL at
\* the time last of the last sweep.
Fresh(box, last) ==
  \A i \in DOMAIN box :
    /\ box[i].ts <= now
    /\ last - box[i].ts < MailboxTTL
    /\ \A j \in 1 .. i : box[j].ts <= box[i].ts

\* With TypeOK, the inductive invariant behind ServedFresh.
FreshInv == \A u \in Users : Fresh(mailbox[u], lastEvict)

------------------------------------------------------------------------------
(* Sequences *)

\* s is what is left of t without its first d elements.
Rest(s, t, d) ==
  /\ Len(s) = Len(t) - d
  /\ \A i \in 1 .. Len(s) : s[i] = t[i + d]

\* Newest keeps a suffix, no longer than asked for.
LEMMA NewestIsRest ==
  ASSUME NEW S, NEW s \in Seq(S), NEW n \in Nat
  PROVE  /\ Newest(s, n) \in Seq(S)
         /\ Len(Newest(s, n)) <= n
         /\ \E d \in 0 .. Len(s) : Rest(Newest(s, n), s, d)
         /\ Len(s) <= n => Newest(s, n) = s
<1>0. Len(s) \in Nat /\ \A i \in 1 .. Len(s) : s[i] \in S
  BY LenProperties
<1>1. CASE Len(s) > n
  <2> DEFINE m == Len(s) - n + 1
  <2>1. /\ SubSeq(s, m, Len(s)) \in Seq(S)
        /\ Len(SubSeq(s, m, Len(s))) = IF m <= Len(s) THEN Len(s) - m + 1 ELSE 0
        /\ \A i \in 1 .. Len(s) - m + 1 : SubSeq(s, m, Len(s))[i] = s[m + i - 1]
    <3>1. m \in Int /\ \A i \in m .. Len(s) : s[i] \in S
      BY <1>0, <1>1
    <3>2. QED
      BY <1>0, <3>1, SubSeqProperties
  <2>2. Newest(s, n) = SubSeq(s, m, Len(s))
    BY <1>1 DEF Newest
  <2>3. Len(Newest(s, n)) = n
    BY <1>0, <1>1, <2>1, <2>2
  <2>4. Rest(Newest(s, n), s, Len(s) - n)
    BY <1>0, <1>1, <2>1, <2>2, <2>3 DEF Rest
  <2>5. QED
    BY <1>0, <1>1, <2>1, <2>2, <2>3, <2>4
<1>2. CASE ~(Len(s) > n)
  <2>1. Newest(s, n) = s
    BY <1>2 DEF Newest
  <2>2. Rest(s, s, 0)
    BY <1>0 DEF Rest
  <2>3. QED
    BY <1>0, <1>2, <2>1, <2>2
<1>3. QED
  BY <1>1, <1>2

\* Where the messages of a suffix come from.
LEMMA RestIndices ==
  ASSUME NEW s, NEW t, Len(s) \in Nat, Len(t) \in Nat, NEW d \in Nat, Rest(s, t, d)
  PROVE  \A i \in 1 .. Len(s) : i + d \in 1 .. Len(t) /\ s[i] = t[i + d]
BY DEF Rest

\* A suffix of a suffix is a suffix.
LEMMA RestOfRest ==
  ASSUME NEW r, NEW s, NEW t, Len(r) \in Nat, Len(s) \in Nat, Len(t) \in Nat,
         NEW c \in 0 .. Len(s), NEW d \in 0 .. Len(t), Rest(r, s, c), Rest(s, t, d)
  PROVE  c + d \in 0 .. Len(t) /\ Rest(r, t, c + d)
<1>1. c + d \in 0 .. Len(t) /\ Len(r) = Len(t) - (c + d)
  BY DEF Rest
<1>2. ASSUME NEW i \in 1 .. Len(r) PROVE r[i] = t[i + (c + d)]
  <2>1. i + c \in 1 .. Len(s)
    BY DEF Rest
  <2>2. r[i] = s[i + c] /\ s[i + c] = t[(i + c) + d]
    BY <2>1 DEF Rest
  <2>3. QED
    BY <2>2
<1>3. QED
  BY <1>1, <1>2 DEF Rest

------------------------------------------------------------------------------
(* Type correctness *)

\* The sweep leaves a suffix of every mailbox; when it is due, one that has lost
\* as many messages as were stale.
LEMMA SweptDropsStale ==
  ASSUME TypeOK, NEW u \in Users
  PROVE  /\ Swept[u] \in Seq(Entries)
         /\ \E d \in 0 .. Len(mailbox[u]) :
              /\ Rest(Swept[u], mailbox[u], d)
              /\ SweepDue => d >= Cardinality(Stale(mailbox[u]))
<1> DEFINE box == mailbox[u]
<1>0. box \in Seq(Entries) /\ Len(box) \in Nat /\ (\A i \in 1 .. Len(box) : box[i] \in Entries)
      /\ Swept[u] = SweptBox(u)
  BY LenProperties DEF TypeOK, Swept
<1>1. CASE SweepDue
  <2> DEFINE n == Cardinality(Stale(box))
             cut == SubSeq(box, n + 1, Len(box))
  <2>1. n \in 0 .. Len(box)
    <3>1. IsFiniteSet(1 .. Len(box)) /\ Cardinality(1 .. Len(box)) = Len(box)
      <4>1. /\ IsFiniteSet(1 .. Len(box))
            /\ Cardinality(1 .. Len(box)) = IF 1 > Len(box) THEN 0 ELSE Len(box) - 1 + 1
        BY <1>0, FS_Interval
      <4>2. QED
        BY <1>0, <4>1
    <3>2. Stale(box) \in SUBSET (1 .. Len(box))
      BY DEF Stale
    <3>3. IsFiniteSet(Stale(box)) /\ n <= Len(box)
      BY <3>1, <3>2, FS_Subset
    <3>4. n \in Nat
      BY <3>3, FS_CardinalityType
    <3>5. QED
      BY <1>0, <3>3, <3>4
  <2>2. /\ cut \in Seq(Entries)
        /\ Len(cut) = IF n + 1 <= Len(box) THEN Len(box) - (n + 1) + 1 ELSE 0
        /\ \A i \in 1 .. Len(box) - (n + 1) + 1 : cut[i] = box[(n + 1) + i - 1]
    <3>1. n + 1 \in Int /\ Len(box) \in Int /\ \A i \in (n + 1) .. Len(box) : box[i] \in Entries
      BY <1>0, <2>1
    <3> HIDE DEF n
    <3>2. QED
      BY <3>1, SubSeqProperties
  <2>3. Rest(cut, box, n)
    <3> HIDE DEF n
    <3>1. QED
      BY <1>0, <2>1, <2>2 DEF Rest
  <2>4. Swept[u] = Newest(cut, MaxMailbox)
    BY <1>0, <1>1 DEF SweptBox
  <2> HIDE DEF n, cut, box
  <2>5. /\ Swept[u] \in Seq(Entries)
        /\ \E c \in 0 .. Len(cut) : Rest(Swept[u], cut, c)
    BY <2>2, <2>4, NewestIsRest, SizesAssumption
  <2>6. Len(Swept[u]) \in Nat /\ Len(cut) \in Nat
    BY <2>2, <2>5, LenProperties
  <2>7. PICK c \in 0 .. Len(cut) : Rest(Swept[u], cut, c)
    BY <2>5
  <2>8. c + n \in 0 .. Len(box) /\ Rest(Swept[u], box, c + n) /\ c + n >= n
    BY <1>0, <2>1, <2>3, <2>6, <2>7, RestOfRest
  <2>9. QED
    BY <2>5, <2>8 DEF box, n
<1>2. CASE ~SweepDue
  <2>1. Swept[u] = box
    BY <1>0, <1>2 DEF SweptBox
  <2>2. Rest(box, box, 0)
    BY <1>0 DEF Rest
  <2>3. QED
    BY <1>0, <1>2, <2>1, <2>2
<1>3. QED
  BY <1>1, <1>2

\* The sweep leaves a suffix of every mailbox.
LEMMA SweptIsRest ==
  ASSUME TypeOK, NEW u \in Users
  PROVE  /\ Swept[u] \in Seq(Entries)
         /\ \E d \in 0 .. Len(mailbox[u]) : Rest(Swept[u], mailbox[u], d)
BY SweptDropsStale

\* The swept state has the types of the state it comes from.
LEMMA SweptTypes ==
  ASSUME TypeOK
  PROVE  /\ Swept \in [Users -> Seq(Entries)]
         /\ SweptLast \in Time /\ SweptLast <= now
         /\ DOMAIN SweptAsm \subseteq DOMAIN asm
         /\ \A mid \in DOMAIN SweptAsm : SweptAsm[mid] = asm[mid]
<1>1. Swept \in [Users -> Seq(Entries)]
  BY SweptIsRest DEF Swept
<1>2. SweptLast \in Time /\ SweptLast <= now
  BY DEF TypeOK, SweptLast, Time
<1>3. /\ DOMAIN SweptAsm \subseteq DOMAIN asm
      /\ \A mid \in DOMAIN SweptAsm : SweptAsm[mid] = asm[mid]
  BY DEF SweptAsm, Without, Restrict
<1>4. QED
  BY <1>1, <1>2, <1>3

\* What the chunk of message k finds, or opens, is an assembly; with the chunk
\* it has only chunks of that message length.
LEMMA OpenedTypes ==
  ASSUME TypeOK, NEW k \in DOMAIN sent, NEW seq \in 0 .. sent[k].total - 1,
         sent[k].total <= MaxChunks, ~Conflict(SweptAsm, k)
  PROVE  /\ k \in Users \X Mids
         /\ Opened(SweptAsm, k) \in Assemblies
         /\ Opened(SweptAsm, k).dest = sent[k].to
         /\ Opened(SweptAsm, k).total = sent[k].total
         /\ Opened(SweptAsm, k).from = k[1]
         /\ DOMAIN WithChunk(SweptAsm, k, seq) \subseteq Seqs
         /\ WithChunk(SweptAsm, k, seq) \in [DOMAIN WithChunk(SweptAsm, k, seq) -> Pieces]
<1>1. /\ k \in Users \X Mids /\ sent[k] \in Sends
      /\ sent[k].total \in 1 .. MaxChunks /\ seq \in Seqs
  BY SizesAssumption DEF TypeOK, Keys, Sends, Seqs
<1>2. Piece(k, 0) \in Pieces /\ Piece(k, seq) \in Pieces
  BY <1>1, SizesAssumption DEF Piece, Pieces, Keys, Seqs
<1>3. /\ Opened(SweptAsm, k) \in Assemblies
      /\ Opened(SweptAsm, k).dest = sent[k].to
      /\ Opened(SweptAsm, k).total = sent[k].total
      /\ Opened(SweptAsm, k).from = k[1]
  <2>1. CASE k[2] \in DOMAIN SweptAsm
    <3>1. SweptAsm[k[2]] \in Assemblies
      BY <2>1, SweptTypes DEF TypeOK
    <3>2. QED
      BY <2>1, <3>1 DEF Opened, Conflict
  <2>2. CASE k[2] \notin DOMAIN SweptAsm
    <3> DEFINE none == [s \in {} |-> Piece(k, 0)]
    <3>1. none \in UNION {[S -> Pieces] : S \in SUBSET Seqs}
      <4>1. none \in [{} -> Pieces]
        OBVIOUS
      <4>2. QED
        BY <4>1
    <3>2. Opened(SweptAsm, k) =
            [dest |-> sent[k].to, total |-> sent[k].total, from |-> k[1], ts |-> now,
             got |-> none]
      BY <2>2 DEF Opened
    <3>3. sent[k].to \in Users /\ k[1] \in Users /\ now \in Time
      BY <1>1 DEF Sends, TypeOK
    <3> HIDE DEF none
    <3>4. QED
      BY <1>1, <3>1, <3>2, <3>3 DEF Assemblies
  <2>3. QED
    BY <2>1, <2>2
<1>4. PICK S \in SUBSET Seqs : Opened(SweptAsm, k).got \in [S -> Pieces]
  BY <1>3 DEF Assemblies
<1>5. /\ DOMAIN WithChunk(SweptAsm, k, seq) = S \cup {seq}
      /\ WithChunk(SweptAsm, k, seq) \in [S \cup {seq} -> Pieces]
  BY <1>2, <1>4 DEF WithChunk, Put
<1>6. QED
  BY <1>1, <1>3, <1>5

\* Remembering a message forgets others, never adds another.
LEMMA RememberTypes ==
  ASSUME TypeOK, NEW k \in Keys, Remember(k)
  PROVE  /\ DOMAIN delivered' \subseteq DOMAIN delivered \cup {k}
         /\ \A key \in DOMAIN delivered' : delivered'[key] \in Time
         /\ forgot' = forgot \cup ((DOMAIN delivered \cup {k}) \ DOMAIN delivered')
<1> DEFINE record == Put(delivered, k, now)
<1>1. /\ DOMAIN record = DOMAIN delivered \cup {k}
      /\ \A key \in DOMAIN record : record[key] \in Time
  BY DEF Put, TypeOK
<1>2. delivered' = Trimmed(record)
  BY DEF Remember
<1> HIDE DEF record
<1>3. /\ DOMAIN delivered' \subseteq DOMAIN record
      /\ \A key \in DOMAIN delivered' : delivered'[key] = record[key]
  BY <1>2 DEF Trimmed, Restrict
<1>4. QED
  BY <1>1, <1>3 DEF Remember

\* A query of another kind makes the relay forget some records, and no more.
LEMMA ForgetsSome ==
  ASSUME OtherQuery
  PROVE  /\ DOMAIN delivered' \subseteq DOMAIN delivered
         /\ \A k \in DOMAIN delivered' : delivered'[k] = delivered[k]
         /\ forgot' = forgot \cup (DOMAIN delivered \ DOMAIN delivered')
         /\ SweepOnly /\ UNCHANGED <<now, restarts, sent, queued, acked, handed>>
  BY DEF OtherQuery, Restrict

\* The variables keep their types.
THEOREM TypeCorrect == Spec => []TypeOK
<1>1. Init => TypeOK
  <2>1. <<>> \in Seq(Entries)
    OBVIOUS
  <2>2. QED
    BY <2>1, TimesAssumption DEF Init, TypeOK, Time
<1>2. TypeOK /\ [Next]_vars => TypeOK'
  <2> SUFFICES ASSUME TypeOK, [Next]_vars
               PROVE  TypeOK'
    OBVIOUS
  <2> USE DEF TypeOK
  <2>0. ASSUME SweepOnly, UNCHANGED <<now, restarts, sent, delivered>>
        PROVE  /\ now' \in Time /\ lastEvict' \in Time /\ lastEvict' <= now'
               /\ DOMAIN asm' \subseteq Mids /\ (\A mid \in DOMAIN asm' : asm'[mid] \in Assemblies)
               /\ DOMAIN delivered' \subseteq Keys
               /\ (\A k \in DOMAIN delivered' : delivered'[k] \in Time)
               /\ mailbox' \in [Users -> Seq(Entries)]
               /\ restarts' \in 0 .. MaxRestarts
               /\ DOMAIN sent' \subseteq Keys
               /\ (\A k \in DOMAIN sent' : sent'[k] \in Sends)
    BY <2>0, SweptTypes DEF SweepOnly
  <2>1. ASSUME NEW k \in Keys, NEW to \in Users, NEW total \in 1 .. MaxChunks + 1,
               NewMessage(k, to, total)
        PROVE  TypeOK'
    <3>1. [to |-> to, total |-> total] \in Sends
      BY DEF Sends
    <3>2. DOMAIN sent' \subseteq Keys /\ \A key \in DOMAIN sent' : sent'[key] \in Sends
      BY <2>1, <3>1 DEF NewMessage, Put
    <3>3. QED
      BY <2>1, <3>2 DEF NewMessage, relayVars, history
  <2>2. ASSUME NEW k \in DOMAIN sent, NEW seq \in 0 .. sent[k].total - 1, RefuseChunk(k, seq)
        PROVE  TypeOK'
    BY <2>0, <2>2 DEF RefuseChunk, history
  <2>3. ASSUME NEW k \in DOMAIN sent, NEW seq \in 0 .. sent[k].total - 1, AckDuplicate(k, seq)
        PROVE  TypeOK'
    BY <2>0, <2>3 DEF AckDuplicate
  <2>4. ASSUME NEW k \in DOMAIN sent, NEW seq \in 0 .. sent[k].total - 1, RefuseConflict(k, seq)
        PROVE  TypeOK'
    BY <2>0, <2>4 DEF RefuseConflict, history
  <2>5. ASSUME NEW k \in DOMAIN sent, NEW seq \in 0 .. sent[k].total - 1, StoreChunk(k, seq)
        PROVE  TypeOK'
    <3>1. [Opened(SweptAsm, k) EXCEPT !.got = WithChunk(SweptAsm, k, seq)] \in Assemblies
      <4>1. /\ Opened(SweptAsm, k) \in Assemblies
            /\ DOMAIN WithChunk(SweptAsm, k, seq) \in SUBSET Seqs
            /\ WithChunk(SweptAsm, k, seq) \in [DOMAIN WithChunk(SweptAsm, k, seq) -> Pieces]
        BY <2>5, OpenedTypes DEF StoreChunk
      <4>2. WithChunk(SweptAsm, k, seq) \in UNION {[S -> Pieces] : S \in SUBSET Seqs}
        BY <4>1
      <4>3. QED
        BY <4>1, <4>2 DEF Assemblies
    <3>2. k[2] \in Mids
      BY <2>5, OpenedTypes DEF StoreChunk
    <3>3. DOMAIN asm' \subseteq Mids /\ \A mid \in DOMAIN asm' : asm'[mid] \in Assemblies
      BY <2>5, <3>1, <3>2, SweptTypes DEF StoreChunk, Put, Without, Restrict
    <3>4. QED
      BY <2>5, <3>3, SweptTypes DEF StoreChunk, history
  <2>6. ASSUME NEW k \in DOMAIN sent, NEW seq \in 0 .. sent[k].total - 1, CompleteMessage(k, seq)
        PROVE  TypeOK'
    <3> DEFINE o == Opened(SweptAsm, k)
               box == Swept[o.dest]
    <3>1. o \in Assemblies /\ k \in Keys
      BY <2>6, OpenedTypes DEF CompleteMessage
    <3>2. Entry(k, seq) \in Entries
      <4>1. WithChunk(SweptAsm, k, seq) \in [0 .. o.total - 1 -> Pieces]
        BY <2>6, OpenedTypes DEF CompleteMessage
      <4>2. o.total \in 1 .. MaxChunks
        BY <3>1 DEF Assemblies
      <4>3. WithChunk(SweptAsm, k, seq) \in Datas
        BY <4>1, <4>2 DEF Datas
      <4>4. o.from \in Users /\ k[2] \in Mids /\ now \in Time
        BY <3>1 DEF Assemblies, Keys
      <4>5. QED
        BY <4>3, <4>4 DEF Entry, Entries
    <3>3. box \in Seq(Entries) /\ o.dest \in Users
      BY <3>1, SweptTypes DEF Assemblies
    <3>4. Enqueue(box, Entry(k, seq)) \in Seq(Entries)
      BY <3>2, <3>3, AppendProperties, NewestIsRest, SizesAssumption DEF Enqueue
    <3>5. mailbox' \in [Users -> Seq(Entries)]
      BY <2>6, <3>4, SweptTypes DEF CompleteMessage
    <3>6. DOMAIN asm' \subseteq Mids /\ \A mid \in DOMAIN asm' : asm'[mid] \in Assemblies
      BY <2>6, SweptTypes DEF CompleteMessage, Closed, Without, Restrict
    <3>7. /\ DOMAIN delivered' \subseteq Keys
          /\ \A key \in DOMAIN delivered' : delivered'[key] \in Time
          /\ forgot' \subseteq Keys
      BY <2>6, <3>1, RememberTypes DEF CompleteMessage
    <3>8. QED
      BY <2>6, <3>1, <3>5, <3>6, <3>7, SweptTypes DEF CompleteMessage
  <2>7. ASSUME NEW u \in Users, PollEmpty(u) PROVE TypeOK'
    BY <2>0, <2>7 DEF PollEmpty, history
  <2>8. ASSUME NEW u \in Users, PollMessage(u) PROVE TypeOK'
    <3>1. Swept[u] \in Seq(Entries) /\ Swept[u] # <<>>
      BY <2>8, SweptTypes DEF PollMessage
    <3>2. Head(Swept[u]) \in Entries /\ Tail(Swept[u]) \in Seq(Entries)
      BY <3>1, HeadTailProperties
    <3>3. KeyOf(Head(Swept[u])) \in Keys
      BY <3>2 DEF KeyOf, Keys, Entries
    <3>4. QED
      BY <2>8, <3>2, <3>3, SweptTypes DEF PollMessage
  <2>9. ASSUME OtherQuery PROVE TypeOK'
    <3>1. /\ DOMAIN delivered' \subseteq Keys /\ forgot' \subseteq Keys
          /\ \A k \in DOMAIN delivered' : delivered'[k] \in Time
      BY <2>9, ForgetsSome
    <3>2. QED
      BY <2>9, <3>1, ForgetsSome, SweptTypes DEF SweepOnly
  <2>10. ASSUME Tick PROVE TypeOK'
    BY <2>10, TimesAssumption DEF Tick, Time, relayVars, history
  <2>11. ASSUME Restart PROVE TypeOK'
    <3>1. <<>> \in Seq(Entries)
      OBVIOUS
    <3>2. restarts' \in 0 .. MaxRestarts
      BY <2>11, TimesAssumption DEF Restart
    <3>3. DOMAIN asm' = {} /\ DOMAIN delivered' = {} /\ mailbox' \in [Users -> Seq(Entries)]
      BY <2>11, <3>1 DEF Restart
    <3>4. now' \in Time /\ lastEvict' \in Time /\ lastEvict' <= now'
      BY <2>11 DEF Restart, Time
    <3>5. forgot' \subseteq Keys /\ UNCHANGED <<sent, queued, acked, handed>>
      BY <2>11 DEF Restart
    <3>6. QED
      BY <3>2, <3>3, <3>4, <3>5
  <2>12. CASE UNCHANGED vars
    BY <2>12 DEF vars, relayVars, history
  <2>13. QED
    BY <2>1, <2>2, <2>3, <2>4, <2>5, <2>6, <2>7, <2>8, <2>9, <2>10, <2>11, <2>12
       DEF Next, HandleSend
<1>3. QED
  BY <1>1, <1>2, PTL DEF Spec

------------------------------------------------------------------------------
(* No message twice *)

\* Every message of s is the d-later one of t, but for a last one, which is e.
RestOrNew(s, t, d, e) ==
  /\ Len(s) \in Nat
  /\ \A i \in 1 .. Len(s) :
       \/ i + d \in 1 .. Len(t) /\ s[i] = t[i + d]
       \/ i = Len(s) /\ s[i] = e

\* A step whose only new message has a key that is nowhere unless forgotten
\* keeps every message single.
LEMMA OnceStep ==
  ASSUME OnceInv, NEW dest \in Users, NEW e,
         mailbox' \in [Users -> Seq(Entries)],
         \A u \in Users : \E d \in Nat : RestOrNew(mailbox'[u], mailbox[u], d, e),
         \A u \in Users \ {dest} :
           \E d \in Nat : Rest(mailbox'[u], mailbox[u], d),
         KeyOf(e) \notin DOMAIN delivered,
         handed' = handed,
         forgot \subseteq forgot',
         DOMAIN delivered \cup {KeyOf(e)} \subseteq DOMAIN delivered' \cup forgot'
  PROVE  Remembered' /\ AtMostOnce'
<1>1. \A u \in Users : /\ mailbox[u] \in Seq(Entries) /\ Len(mailbox[u]) \in Nat
                       /\ DOMAIN mailbox[u] = 1 .. Len(mailbox[u])
                       /\ Len(mailbox'[u]) \in Nat
                       /\ DOMAIN mailbox'[u] = 1 .. Len(mailbox'[u])
  BY LenProperties DEF OnceInv, TypeOK
<1>2. ASSUME NEW u \in Users, NEW i \in DOMAIN mailbox'[u]
      PROVE  \/ \E p \in DOMAIN mailbox[u] : mailbox'[u][i] = mailbox[u][p]
             \/ mailbox'[u][i] = e
  <2>1. PICK d \in Nat : RestOrNew(mailbox'[u], mailbox[u], d, e)
    OBVIOUS
  <2>2. QED
    BY <1>1, <2>1 DEF RestOrNew
<1>3. Remembered'
  <2>1. ASSUME NEW u \in Users, NEW i \in DOMAIN mailbox'[u]
        PROVE  KeyOf(mailbox'[u][i]) \in DOMAIN delivered' \cup forgot'
    BY <1>2 DEF OnceInv, Remembered
  <2>2. handed' \subseteq DOMAIN delivered' \cup forgot'
    BY DEF OnceInv, Remembered
  <2>3. QED
    BY <2>1, <2>2 DEF Remembered
<1>4. ASSUME NEW u \in Users, NEW i \in DOMAIN mailbox[u], KeyOf(mailbox[u][i]) = KeyOf(e)
      PROVE  KeyOf(e) \in forgot
  BY <1>4 DEF OnceInv, Remembered
<1>5. KeyOf(e) \in handed => KeyOf(e) \in forgot
  BY DEF OnceInv, Remembered
<1>6. ASSUME NEW u \in Users, NEW i \in DOMAIN mailbox'[u],
             KeyOf(mailbox'[u][i]) \notin forgot'
      PROVE  KeyOf(mailbox'[u][i]) \notin handed'
  BY <1>2, <1>5, <1>6 DEF OnceInv, AtMostOnce
<1>7. ASSUME NEW u \in Users, NEW v \in Users,
             NEW i \in DOMAIN mailbox'[u], NEW j \in DOMAIN mailbox'[v],
             KeyOf(mailbox'[u][i]) \notin forgot',
             KeyOf(mailbox'[u][i]) = KeyOf(mailbox'[v][j])
      PROVE  u = v /\ i = j
  <2>1. CASE KeyOf(mailbox'[u][i]) = KeyOf(e)
    <3>1. ASSUME NEW w \in Users, NEW l \in DOMAIN mailbox'[w],
                 KeyOf(mailbox'[w][l]) = KeyOf(e)
          PROVE  w = dest /\ l = Len(mailbox'[w])
      <4>1. \A x \in Users : \A p \in DOMAIN mailbox[x] : KeyOf(mailbox[x][p]) # KeyOf(e)
        BY <1>4, <1>7, <2>1
      <4>2. ASSUME w # dest PROVE FALSE
        <5>1. PICK d \in Nat : Rest(mailbox'[w], mailbox[w], d)
          BY <4>2
        <5>2. l + d \in 1 .. Len(mailbox[w]) /\ mailbox'[w][l] = mailbox[w][l + d]
          BY <1>1, <5>1 DEF Rest
        <5>3. QED
          BY <1>1, <3>1, <4>1, <5>2
      <4>3. PICK d \in Nat : RestOrNew(mailbox'[w], mailbox[w], d, e)
        OBVIOUS
      <4>4. l \in 1 .. Len(mailbox'[w])
        BY <1>1
      <4>5. ~(l + d \in 1 .. Len(mailbox[w]) /\ mailbox'[w][l] = mailbox[w][l + d])
        BY <1>1, <3>1, <4>1
      <4>6. l = Len(mailbox'[w])
        BY <4>3, <4>4, <4>5 DEF RestOrNew
      <4>7. QED
        BY <4>2, <4>6
    <3>2. QED
      BY <1>7, <2>1, <3>1
  <2>2. CASE KeyOf(mailbox'[u][i]) # KeyOf(e)
    <3>1. CASE u = v
      <4>1. PICK d \in Nat : RestOrNew(mailbox'[u], mailbox[u], d, e)
        OBVIOUS
      <4>2. /\ i + d \in DOMAIN mailbox[u] /\ mailbox'[u][i] = mailbox[u][i + d]
            /\ j + d \in DOMAIN mailbox[u] /\ mailbox'[u][j] = mailbox[u][j + d]
        BY <1>1, <1>7, <2>2, <3>1, <4>1 DEF RestOrNew
      <4>3. i + d = j + d
        BY <1>7, <3>1, <4>2 DEF OnceInv, AtMostOnce
      <4>4. QED
        BY <1>1, <3>1, <4>3
    <3>2. CASE u # v
      <4>1. PICK p \in DOMAIN mailbox[u] : mailbox'[u][i] = mailbox[u][p]
        BY <1>2, <2>2
      <4>2. PICK q \in DOMAIN mailbox[v] : mailbox'[v][j] = mailbox[v][q]
        BY <1>2, <1>7, <2>2
      <4>3. QED
        BY <1>7, <3>2, <4>1, <4>2 DEF OnceInv, AtMostOnce
    <3>3. QED
      BY <3>1, <3>2
  <2>3. QED
    BY <2>1, <2>2
<1>8. QED
  BY <1>3, <1>6, <1>7 DEF AtMostOnce

\* A step after which every mailbox is a suffix of what it was keeps every
\* message single, if what it hands out was known and is nowhere any more.
LEMMA ShrinkStep ==
  ASSUME OnceInv,
         mailbox' \in [Users -> Seq(Entries)],
         \A u \in Users : \E d \in Nat : Rest(mailbox'[u], mailbox[u], d),
         forgot \subseteq forgot',
         DOMAIN delivered \cup forgot \subseteq DOMAIN delivered' \cup forgot',
         handed' \subseteq DOMAIN delivered' \cup forgot',
         \A u \in Users : \A i \in DOMAIN mailbox'[u] :
           KeyOf(mailbox'[u][i]) \in handed' \ handed => KeyOf(mailbox'[u][i]) \in forgot'
  PROVE  Remembered' /\ AtMostOnce'
<1>1. \A u \in Users : /\ mailbox[u] \in Seq(Entries) /\ Len(mailbox[u]) \in Nat
                       /\ DOMAIN mailbox[u] = 1 .. Len(mailbox[u])
                       /\ Len(mailbox'[u]) \in Nat
                       /\ DOMAIN mailbox'[u] = 1 .. Len(mailbox'[u])
  BY LenProperties DEF OnceInv, TypeOK
<1>2. ASSUME NEW u \in Users
      PROVE  \E d \in Nat : \A i \in DOMAIN mailbox'[u] :
               i + d \in DOMAIN mailbox[u] /\ mailbox'[u][i] = mailbox[u][i + d]
  <2>1. PICK d \in Nat : Rest(mailbox'[u], mailbox[u], d)
    OBVIOUS
  <2>2. Len(mailbox'[u]) \in Nat /\ Len(mailbox[u]) \in Nat
        /\ DOMAIN mailbox[u] = 1 .. Len(mailbox[u])
        /\ DOMAIN mailbox'[u] = 1 .. Len(mailbox'[u])
    BY <1>1
  <2>3. \A i \in 1 .. Len(mailbox'[u]) :
          i + d \in 1 .. Len(mailbox[u]) /\ mailbox'[u][i] = mailbox[u][i + d]
    BY <2>1, <2>2, RestIndices
  <2>4. QED
    BY <2>2, <2>3
<1>3. Remembered'
  <2>1. ASSUME NEW u \in Users, NEW i \in DOMAIN mailbox'[u]
        PROVE  KeyOf(mailbox'[u][i]) \in DOMAIN delivered' \cup forgot'
    BY <1>2 DEF OnceInv, Remembered
  <2>2. QED
    BY <2>1 DEF Remembered
<1>4. ASSUME NEW u \in Users, NEW i \in DOMAIN mailbox'[u],
             KeyOf(mailbox'[u][i]) \notin forgot'
      PROVE  KeyOf(mailbox'[u][i]) \notin handed'
  <2>1. PICK d \in Nat : \A l \in DOMAIN mailbox'[u] :
          l + d \in DOMAIN mailbox[u] /\ mailbox'[u][l] = mailbox[u][l + d]
    BY <1>2
  <2>2. i + d \in DOMAIN mailbox[u] /\ mailbox'[u][i] = mailbox[u][i + d]
    BY <2>1
  <2>3. KeyOf(mailbox'[u][i]) = KeyOf(mailbox[u][i + d])
        /\ KeyOf(mailbox[u][i + d]) \notin forgot
    BY <1>4, <2>2
  <2>4. KeyOf(mailbox[u][i + d]) \notin handed
    BY <2>2, <2>3 DEF OnceInv, AtMostOnce
  <2>5. QED
    BY <1>4, <2>3, <2>4
<1>5. ASSUME NEW u \in Users, NEW v \in Users,
             NEW i \in DOMAIN mailbox'[u], NEW j \in DOMAIN mailbox'[v],
             KeyOf(mailbox'[u][i]) \notin forgot',
             KeyOf(mailbox'[u][i]) = KeyOf(mailbox'[v][j])
      PROVE  u = v /\ i = j
  <2>1. PICK c \in Nat : \A l \in DOMAIN mailbox'[u] :
          l + c \in DOMAIN mailbox[u] /\ mailbox'[u][l] = mailbox[u][l + c]
    BY <1>2
  <2>0. /\ i + c \in DOMAIN mailbox[u] /\ mailbox'[u][i] = mailbox[u][i + c]
        /\ KeyOf(mailbox[u][i + c]) \notin forgot
    BY <1>5, <2>1
  <2>2. CASE u = v
    <3>0. j + c \in DOMAIN mailbox[u] /\ mailbox'[u][j] = mailbox[u][j + c]
      BY <2>1, <2>2
    <3>1. i + c = j + c
      BY <1>5, <2>0, <2>2, <3>0 DEF OnceInv, AtMostOnce
    <3>2. QED
      BY <1>1, <2>2, <3>1
  <2>3. CASE u # v
    <3>1. PICK d \in Nat : \A l \in DOMAIN mailbox'[v] :
            l + d \in DOMAIN mailbox[v] /\ mailbox'[v][l] = mailbox[v][l + d]
      BY <1>2
    <3>2. j + d \in DOMAIN mailbox[v] /\ mailbox'[v][j] = mailbox[v][j + d]
      BY <3>1
    <3>3. KeyOf(mailbox[u][i + c]) = KeyOf(mailbox[v][j + d])
      BY <1>5, <2>0, <3>2
    <3>4. QED
      BY <2>0, <2>3, <3>2, <3>3, SMTT(30) DEF OnceInv, AtMostOnce
  <2>4. QED
    BY <2>2, <2>3
<1>6. QED
  BY <1>3, <1>4, <1>5 DEF AtMostOnce

\* The sweep, and a handler that changes no more than the sweep.
LEMMA SweepStep ==
  ASSUME OnceInv, SweepOnly, handed' = handed, forgot \subseteq forgot',
         DOMAIN delivered \cup forgot \subseteq DOMAIN delivered' \cup forgot'
  PROVE  Remembered' /\ AtMostOnce'
<1>1. mailbox' = Swept /\ TypeOK
  BY DEF SweepOnly, OnceInv
<1>2. \A u \in Users : \E d \in Nat : Rest(mailbox'[u], mailbox[u], d)
  BY <1>1, SweptIsRest
<1>3. mailbox' \in [Users -> Seq(Entries)]
  BY <1>1, SweptTypes
<1>4. handed' \subseteq DOMAIN delivered' \cup forgot'
  BY DEF OnceInv, Remembered
<1>5. QED
  BY <1>2, <1>3, <1>4, ShrinkStep

\* A poll leaves a suffix of every mailbox.
LEMMA PollIsRest ==
  ASSUME TypeOK, NEW u \in Users, PollMessage(u)
  PROVE  /\ mailbox' \in [Users -> Seq(Entries)]
         /\ \A v \in Users : \E c \in Nat : Rest(mailbox'[v], mailbox[v], c)
<1> DEFINE s == Swept[u]
<1>1. TypeOK
  OBVIOUS
<1>2. /\ s \in Seq(Entries) /\ s # <<>> /\ Len(s) \in Nat \ {0}
      /\ Head(s) = s[1] /\ Tail(s) \in Seq(Entries)
      /\ Len(Tail(s)) = Len(s) - 1 /\ \A i \in 1 .. Len(Tail(s)) : Tail(s)[i] = s[i + 1]
  BY <1>1, SweptTypes, HeadTailProperties, LenProperties DEF PollMessage
<1>3. mailbox' = [Swept EXCEPT ![u] = Tail(s)]
  BY DEF PollMessage
<1>4. mailbox' \in [Users -> Seq(Entries)]
  BY <1>1, <1>2, <1>3, SweptTypes
<1>5. PICK d \in 0 .. Len(mailbox[u]) : Rest(s, mailbox[u], d)
  BY <1>1, SweptIsRest
<1>6. Len(mailbox[u]) \in Nat /\ DOMAIN mailbox[u] = 1 .. Len(mailbox[u])
  BY <1>1, LenProperties DEF TypeOK
<1>7. mailbox'[u] = Tail(s)
  BY <1>1, <1>3, SweptTypes
<1> HIDE DEF s
<1>8. ASSUME NEW v \in Users PROVE \E c \in Nat : Rest(mailbox'[v], mailbox[v], c)
  <2>1. CASE v = u
    <3>1. Rest(Tail(s), s, 1)
      BY <1>2 DEF Rest
    <3>2. Len(Tail(s)) \in Nat /\ Len(s) \in Nat /\ 1 \in 0 .. Len(s)
      BY <1>2
    <3>3. Rest(Tail(s), mailbox[u], 1 + d) /\ 1 + d \in 0 .. Len(mailbox[u])
      BY <1>5, <1>6, <3>1, <3>2, RestOfRest
    <3>4. 1 + d \in Nat
      BY <1>6, <3>3
    <3>5. Rest(mailbox'[v], mailbox[v], 1 + d)
      BY <1>7, <2>1, <3>3, Zenon
    <3>6. QED
      BY <3>4, <3>5
  <2>2. CASE v # u
    <3>1. mailbox'[v] = Swept[v]
      BY <1>1, <1>3, <2>2, SweptTypes
    <3>2. PICK c \in 0 .. Len(mailbox[v]) : Rest(Swept[v], mailbox[v], c)
      BY <1>1, SweptIsRest
    <3>3. c \in Nat
      BY <1>1, LenProperties DEF TypeOK
    <3>4. QED
      BY <3>1, <3>2, <3>3
  <2>3. QED
    BY <2>1, <2>2
<1>9. QED
  BY <1>4, <1>8

\* A poll hands out the head and leaves the tail of what the sweep left.
LEMMA PollStep ==
  ASSUME OnceInv, NEW u \in Users, PollMessage(u)
  PROVE  Remembered' /\ AtMostOnce'
<1> DEFINE s == Swept[u]
           k == KeyOf(Head(s))
<1>1. TypeOK
  BY DEF OnceInv
<1>2. /\ s \in Seq(Entries) /\ s # <<>> /\ Len(s) \in Nat \ {0}
      /\ Head(s) = s[1] /\ Tail(s) \in Seq(Entries)
      /\ Len(Tail(s)) = Len(s) - 1 /\ \A i \in 1 .. Len(Tail(s)) : Tail(s)[i] = s[i + 1]
  BY <1>1, SweptTypes, HeadTailProperties, LenProperties DEF PollMessage
<1>3. mailbox' = [Swept EXCEPT ![u] = Tail(s)] /\ handed' = handed \cup {k}
      /\ UNCHANGED <<delivered, forgot>>
  BY DEF PollMessage
<1>4. mailbox' \in [Users -> Seq(Entries)]
  BY <1>1, <1>2, <1>3, SweptTypes
<1>5. PICK d \in 0 .. Len(mailbox[u]) : Rest(s, mailbox[u], d)
  BY <1>1, SweptIsRest
<1>6. Len(mailbox[u]) \in Nat /\ DOMAIN mailbox[u] = 1 .. Len(mailbox[u])
  BY <1>1, LenProperties DEF TypeOK
<1>7. mailbox'[u] = Tail(s)
  BY <1>1, <1>3, SweptTypes
<1> HIDE DEF s
<1>8. \A v \in Users : \E c \in Nat : Rest(mailbox'[v], mailbox[v], c)
  BY <1>1, PollIsRest
<1>9. 1 + d \in DOMAIN mailbox[u] /\ mailbox[u][1 + d] = Head(s)
  BY <1>2, <1>5, <1>6 DEF Rest
<1>10. k \in DOMAIN delivered \cup forgot
  BY <1>9 DEF OnceInv, Remembered
<1>11. ASSUME NEW v \in Users, NEW i \in DOMAIN mailbox'[v],
              KeyOf(mailbox'[v][i]) = k
       PROVE  k \in forgot
  <2>1. CASE v = u
    <3>1. DOMAIN mailbox'[u] = 1 .. Len(Tail(s))
      BY <1>2, <1>7, LenProperties
    <3>2. i \in 1 .. Len(s) - 1 /\ mailbox'[u][i] = s[i + 1]
      BY <1>2, <1>7, <2>1, <3>1
    <3>3. i + 1 + d \in DOMAIN mailbox[u] /\ mailbox[u][i + 1 + d] = mailbox'[u][i]
      BY <1>2, <1>5, <1>6, <3>2 DEF Rest
    <3>4. i + 1 + d # 1 + d
      BY <1>2, <1>5, <3>2
    <3> HIDE DEF k
    <3>5. KeyOf(mailbox[u][i + 1 + d]) = k /\ KeyOf(mailbox[u][1 + d]) = k
      BY <1>9, <1>11, <2>1, <3>3 DEF k
    <3>6. QED
      BY <1>9, <3>3, <3>4, <3>5 DEF OnceInv, AtMostOnce
  <2>2. CASE v # u
    <3>1. mailbox'[v] = Swept[v] /\ Swept[v] \in Seq(Entries)
      BY <1>1, <1>3, <2>2, SweptTypes
    <3>2. PICK c \in 0 .. Len(mailbox[v]) : Rest(Swept[v], mailbox[v], c)
      BY <1>1, SweptIsRest
    <3>3. Len(Swept[v]) \in Nat /\ DOMAIN Swept[v] = 1 .. Len(Swept[v])
          /\ Len(mailbox[v]) \in Nat /\ DOMAIN mailbox[v] = 1 .. Len(mailbox[v])
      BY <1>1, <3>1, LenProperties DEF TypeOK
    <3>4. i + c \in DOMAIN mailbox[v] /\ mailbox[v][i + c] = mailbox'[v][i]
      BY <3>1, <3>2, <3>3, RestIndices
    <3> HIDE DEF k
    <3>5. KeyOf(mailbox[v][i + c]) = k /\ KeyOf(mailbox[u][1 + d]) = k
      BY <1>9, <1>11, <3>4 DEF k
    <3>6. QED
      BY <1>9, <2>2, <3>4, <3>5 DEF OnceInv, AtMostOnce
  <2>3. QED
    BY <2>1, <2>2
<1> HIDE DEF k
<1>12. handed' \subseteq DOMAIN delivered' \cup forgot'
  BY <1>3, <1>10 DEF OnceInv, Remembered
<1>13. \A v \in Users : \A i \in DOMAIN mailbox'[v] :
         KeyOf(mailbox'[v][i]) \in handed' \ handed => KeyOf(mailbox'[v][i]) \in forgot'
  BY <1>3, <1>11
<1>14. forgot \subseteq forgot' /\ DOMAIN delivered \cup forgot \subseteq DOMAIN delivered' \cup forgot'
  BY <1>3
<1>15. QED
  BY <1>4, <1>8, <1>12, <1>13, <1>14, ShrinkStep

\* The new message goes to the end of what is left of its mailbox.
LEMMA EnqueueIsRestOrNew ==
  ASSUME TypeOK, NEW u \in Users, NEW e \in Entries
  PROVE  /\ Enqueue(Swept[u], e) \in Seq(Entries)
         /\ \E d \in Nat : RestOrNew(Enqueue(Swept[u], e), mailbox[u], d, e)
<1> DEFINE s == Swept[u]
           a == Append(s, e)
           n == Enqueue(s, e)
<1>1. s \in Seq(Entries) /\ Len(s) \in Nat
  BY SweptTypes, LenProperties
<1>2. Len(mailbox[u]) \in Nat
  BY LenProperties DEF TypeOK
<1>3. PICK d \in 0 .. Len(mailbox[u]) : Rest(s, mailbox[u], d)
  BY SweptIsRest
<1> HIDE DEF s
<1>4. /\ a \in Seq(Entries) /\ Len(a) = Len(s) + 1
      /\ \A i \in 1 .. Len(s) : a[i] = s[i]
      /\ a[Len(s) + 1] = e
  BY <1>1, AppendProperties
<1> HIDE DEF a
<1>5. /\ n \in Seq(Entries) /\ \E c \in 0 .. Len(a) : Rest(n, a, c)
  BY <1>4, NewestIsRest, SizesAssumption DEF Enqueue, a
<1>6. PICK c \in 0 .. Len(a) : Rest(n, a, c)
  BY <1>5
<1> HIDE DEF n
<1>7. Len(n) \in Nat /\ Len(a) \in Nat /\ Len(n) = Len(a) - c /\ c \in Nat /\ d \in Nat
  <2>1. Len(n) \in Nat
    BY <1>5, LenProperties
  <2>2. Len(a) \in Nat
    BY <1>1, <1>4
  <2>3. Len(n) = Len(a) - c
    BY <1>6 DEF Rest
  <2>4. c \in Nat
    BY <2>2
  <2>5. d \in Nat
    BY <1>2
  <2>6. QED
    BY <2>1, <2>2, <2>3, <2>4, <2>5
<1>8. ASSUME NEW i \in 1 .. Len(n)
      PROVE  \/ i + (c + d) \in 1 .. Len(mailbox[u]) /\ n[i] = mailbox[u][i + (c + d)]
             \/ i = Len(n) /\ n[i] = e
  <2>1. i + c \in 1 .. Len(a) /\ n[i] = a[i + c]
    BY <1>6, <1>7, RestIndices
  <2>2. CASE i + c \in 1 .. Len(s)
    <3>1. n[i] = s[i + c]
      BY <1>4, <2>1, <2>2
    <3>2. (i + c) + d \in 1 .. Len(mailbox[u]) /\ s[i + c] = mailbox[u][(i + c) + d]
      BY <1>1, <1>2, <1>3, <1>7, <2>2, RestIndices
    <3>3. (i + c) + d = i + (c + d)
      BY <1>7
    <3>4. QED
      BY <3>1, <3>2, <3>3
  <2>3. CASE i + c = Len(s) + 1
    BY <1>1, <1>4, <1>7, <2>1, <2>3
  <2>4. QED
    BY <1>1, <1>4, <2>1, <2>2, <2>3
<1>9. c + d \in Nat /\ RestOrNew(n, mailbox[u], c + d, e)
  BY <1>7, <1>8 DEF RestOrNew
<1>10. QED
  BY <1>5, <1>9 DEF n, s

\* A completed message goes to the end of one mailbox, all else that they hold
\* is what they held.
LEMMA CompleteIsRestOrNew ==
  ASSUME TypeOK, NEW k \in DOMAIN sent, NEW seq \in 0 .. sent[k].total - 1,
         CompleteMessage(k, seq)
  PROVE  LET dest == Opened(SweptAsm, k).dest
             e == Entry(k, seq)
         IN  /\ dest \in Users /\ e \in Entries /\ KeyOf(e) = k
             /\ mailbox' \in [Users -> Seq(Entries)]
             /\ \A u \in Users \ {dest} : \E d \in Nat : Rest(mailbox'[u], mailbox[u], d)
             /\ \A u \in Users : \E d \in Nat : RestOrNew(mailbox'[u], mailbox[u], d, e)
<1> DEFINE dest == Opened(SweptAsm, k).dest
           e == Entry(k, seq)
<1>1. TypeOK /\ k \in Users \X Mids
  BY DEF TypeOK, Keys
<1>2. /\ Opened(SweptAsm, k) \in Assemblies
      /\ Opened(SweptAsm, k).from = k[1]
      /\ WithChunk(SweptAsm, k, seq) \in [0 .. Opened(SweptAsm, k).total - 1 -> Pieces]
  BY <1>1, OpenedTypes DEF CompleteMessage
<1>3. dest \in Users /\ KeyOf(e) = k
  BY <1>1, <1>2 DEF Assemblies, Entry, KeyOf
<1>4. e \in Entries
  <2>1. WithChunk(SweptAsm, k, seq) \in Datas
    BY <1>2 DEF Assemblies, Datas
  <2>2. QED
    BY <1>1, <1>2, <2>1 DEF Entry, Entries, Assemblies, TypeOK
<1>5. mailbox' = [Swept EXCEPT ![dest] = Enqueue(Swept[dest], e)]
  BY DEF CompleteMessage
<1> HIDE DEF dest, e
<1>7. Swept \in [Users -> Seq(Entries)] /\ Enqueue(Swept[dest], e) \in Seq(Entries)
  BY <1>1, <1>3, <1>4, SweptTypes, EnqueueIsRestOrNew
<1>8. mailbox' \in [Users -> Seq(Entries)]
  BY <1>5, <1>7
<1>9. ASSUME NEW u \in Users \ {dest} PROVE \E d \in Nat : Rest(mailbox'[u], mailbox[u], d)
  <2>1. mailbox'[u] = Swept[u]
    BY <1>5, <1>7
  <2>2. PICK d \in 0 .. Len(mailbox[u]) : Rest(Swept[u], mailbox[u], d)
    BY <1>1, SweptIsRest
  <2>3. d \in Nat
    BY <1>1, LenProperties DEF TypeOK
  <2>4. QED
    BY <2>1, <2>2, <2>3
<1>10. ASSUME NEW u \in Users PROVE \E d \in Nat : RestOrNew(mailbox'[u], mailbox[u], d, e)
  <2>1. CASE u = dest
    <3>1. mailbox'[u] = Enqueue(Swept[u], e)
      BY <1>5, <1>7, <2>1
    <3>2. QED
      BY <1>1, <1>4, <3>1, EnqueueIsRestOrNew
  <2>2. CASE u # dest
    <3>1. PICK d \in Nat : Rest(mailbox'[u], mailbox[u], d)
      BY <1>9, <2>2
    <3>2. Len(mailbox'[u]) \in Nat /\ Len(mailbox[u]) \in Nat
      BY <1>1, <1>8, LenProperties DEF TypeOK
    <3>3. RestOrNew(mailbox'[u], mailbox[u], d, e)
      BY <3>1, <3>2, RestIndices DEF RestOrNew
    <3>4. QED
      BY <3>3
  <2>3. QED
    BY <2>1, <2>2
<1>11. QED
  BY <1>3, <1>4, <1>8, <1>9, <1>10 DEF dest, e

\* The step that puts a message in a mailbox.
LEMMA CompleteStep ==
  ASSUME OnceInv, NEW k \in DOMAIN sent, NEW seq \in 0 .. sent[k].total - 1,
         CompleteMessage(k, seq)
  PROVE  Remembered' /\ AtMostOnce'
<1> DEFINE dest == Opened(SweptAsm, k).dest
           e == Entry(k, seq)
<1>1. TypeOK
  BY DEF OnceInv
<1>2. /\ dest \in Users /\ KeyOf(e) = k
      /\ mailbox' \in [Users -> Seq(Entries)]
      /\ \A u \in Users \ {dest} : \E d \in Nat : Rest(mailbox'[u], mailbox[u], d)
      /\ \A u \in Users : \E d \in Nat : RestOrNew(mailbox'[u], mailbox[u], d, e)
  BY <1>1, CompleteIsRestOrNew
<1>3. k \notin DOMAIN delivered /\ Remember(k) /\ handed' = handed
  BY DEF CompleteMessage
<1> HIDE DEF dest, e
<1>4. /\ forgot \subseteq forgot'
      /\ DOMAIN delivered \cup {k} \subseteq DOMAIN delivered' \cup forgot'
  BY <1>3 DEF Remember
<1>5. QED
  BY <1>2, <1>3, <1>4, OnceStep

\* The invariant behind AtMostOnce.
LEMMA OnceInductive == Spec => []OnceInv
<1>1. Init => OnceInv
  <2> SUFFICES ASSUME Init PROVE OnceInv
    OBVIOUS
  <2>1. TypeOK
    <3>1. <<>> \in Seq(Entries)
      OBVIOUS
    <3>2. QED
      BY <3>1, TimesAssumption DEF Init, TypeOK, Time
  <2>2. \A u \in Users : DOMAIN mailbox[u] = {}
    BY DEF Init
  <2>3. QED
    BY <2>1, <2>2 DEF OnceInv, Remembered, AtMostOnce, Init
<1>2. OnceInv /\ TypeOK' /\ [Next]_vars => OnceInv'
  <2> SUFFICES ASSUME OnceInv, TypeOK', [Next]_vars
               PROVE  Remembered' /\ AtMostOnce'
    BY DEF OnceInv
  <2>1. ASSUME NEW k \in Keys, NEW to \in Users, NEW total \in 1 .. MaxChunks + 1,
               NewMessage(k, to, total)
        PROVE  Remembered' /\ AtMostOnce'
    BY <2>1 DEF NewMessage, relayVars, history, OnceInv, Remembered, AtMostOnce
  <2>2. ASSUME NEW k \in DOMAIN sent, NEW seq \in 0 .. sent[k].total - 1, RefuseChunk(k, seq)
        PROVE  Remembered' /\ AtMostOnce'
    BY <2>2, SweepStep DEF RefuseChunk, history
  <2>3. ASSUME NEW k \in DOMAIN sent, NEW seq \in 0 .. sent[k].total - 1, AckDuplicate(k, seq)
        PROVE  Remembered' /\ AtMostOnce'
    BY <2>3, SweepStep DEF AckDuplicate
  <2>4. ASSUME NEW k \in DOMAIN sent, NEW seq \in 0 .. sent[k].total - 1, RefuseConflict(k, seq)
        PROVE  Remembered' /\ AtMostOnce'
    BY <2>4, SweepStep DEF RefuseConflict, history
  <2>5. ASSUME NEW k \in DOMAIN sent, NEW seq \in 0 .. sent[k].total - 1, StoreChunk(k, seq)
        PROVE  Remembered' /\ AtMostOnce'
    <3>1. mailbox' = Swept /\ UNCHANGED <<delivered, handed, forgot>> /\ TypeOK
      BY <2>5 DEF StoreChunk, history, OnceInv
    <3>2. \A u \in Users : \E d \in 0 .. Len(mailbox[u]) : Rest(mailbox'[u], mailbox[u], d)
      BY <3>1, SweptIsRest
    <3>3. \A u \in Users : Len(mailbox[u]) \in Nat
      BY <3>1, LenProperties DEF TypeOK
    <3>4. \A u \in Users : \E d \in Nat : Rest(mailbox'[u], mailbox[u], d)
      BY <3>2, <3>3
    <3>5. mailbox' \in [Users -> Seq(Entries)]
      BY <3>1, SweptTypes
    <3>6. handed' \subseteq DOMAIN delivered' \cup forgot'
      BY <3>1 DEF OnceInv, Remembered
    <3>7. QED
      BY <3>1, <3>4, <3>5, <3>6, ShrinkStep
  <2>6. ASSUME NEW k \in DOMAIN sent, NEW seq \in 0 .. sent[k].total - 1, CompleteMessage(k, seq)
        PROVE  Remembered' /\ AtMostOnce'
    BY <2>6, CompleteStep
  <2>7. ASSUME NEW u \in Users, PollEmpty(u) PROVE Remembered' /\ AtMostOnce'
    BY <2>7, SweepStep DEF PollEmpty, history
  <2>8. ASSUME NEW u \in Users, PollMessage(u) PROVE Remembered' /\ AtMostOnce'
    BY <2>8, PollStep
  <2>9. ASSUME OtherQuery PROVE Remembered' /\ AtMostOnce'
    BY <2>9, SweepStep, ForgetsSome
  <2>10. ASSUME Tick PROVE Remembered' /\ AtMostOnce'
    BY <2>10 DEF Tick, relayVars, history, OnceInv, Remembered, AtMostOnce
  <2>11. ASSUME Restart PROVE Remembered' /\ AtMostOnce'
    <3>1. \A u \in Users : DOMAIN mailbox'[u] = {}
      BY <2>11 DEF Restart
    <3>2. handed' \subseteq DOMAIN delivered' \cup forgot'
      BY <2>11 DEF Restart, OnceInv, Remembered
    <3>3. QED
      BY <3>1, <3>2 DEF Remembered, AtMostOnce
  <2>12. CASE UNCHANGED vars
    BY <2>12 DEF vars, relayVars, history, OnceInv, Remembered, AtMostOnce
  <2>13. QED
    BY <2>1, <2>2, <2>3, <2>4, <2>5, <2>6, <2>7, <2>8, <2>9, <2>10, <2>11, <2>12
       DEF Next, HandleSend
<1>3. QED
  BY <1>1, <1>2, TypeCorrect, PTL DEF Spec

\* What the invariant is for: a message is in the mailboxes at most once, and
\* never again after a poll has handed it out, as long as the relay has not
\* forgotten it.
THEOREM DeliveredAtMostOnce == Spec => []AtMostOnce
<1>1. OnceInv => AtMostOnce
  BY DEF OnceInv
<1>2. QED
  BY <1>1, OnceInductive, PTL

------------------------------------------------------------------------------
(* Messages are whole, and in the right mailbox *)

\* An assembly has the chunks of one message, also with one more of them.
LEMMA WithChunkOfOne ==
  ASSUME IntactInv, NEW k \in DOMAIN sent, NEW seq \in 0 .. sent[k].total - 1,
         sent[k].total <= MaxChunks, ~Conflict(SweptAsm, k)
  PROVE  \A s \in DOMAIN WithChunk(SweptAsm, k, seq) :
           WithChunk(SweptAsm, k, seq)[s] = Piece(k, s)
<1> DEFINE o == Opened(SweptAsm, k)
<1>1. TypeOK /\ k \in Users \X Mids
  BY DEF IntactInv, TypeOK, Keys
<1>2. o.from = k[1]
  BY <1>1, OpenedTypes
<1>3. \A s \in DOMAIN o.got : o.got[s] = Piece(k, s)
  <2>1. CASE k[2] \in DOMAIN SweptAsm
    <3>1. o = asm[k[2]] /\ k[2] \in DOMAIN asm
      BY <1>1, <2>1, SweptTypes DEF Opened
    <3>2. k = <<asm[k[2]].from, k[2]>>
      BY <1>1, <1>2, <3>1
    <3>3. QED
      BY <3>1, <3>2 DEF IntactInv, AssemblyOfOne
  <2>2. CASE k[2] \notin DOMAIN SweptAsm
    <3>1. o.got = [s \in {} |-> Piece(k, 0)]
      BY <2>2 DEF Opened
    <3>2. QED
      BY <3>1
  <2>3. QED
    BY <2>1, <2>2
<1> HIDE DEF o
<1>4. QED
  BY <1>3 DEF WithChunk, Put, o

\* Message m is what its sender sent to u.
Genuine(m, u) ==
  /\ KeyOf(m) \in DOMAIN sent
  /\ sent[KeyOf(m)].to = u
  /\ m.data = Whole(KeyOf(m), sent[KeyOf(m)].total)

\* A step that adds only genuine messages to the mailboxes keeps them intact.
LEMMA IntactStep ==
  ASSUME Intact,
         DOMAIN sent \subseteq DOMAIN sent',
         \A k \in DOMAIN sent : sent'[k] = sent[k],
         \A u \in Users : \A i \in DOMAIN mailbox'[u] :
           \/ \E p \in DOMAIN mailbox[u] : mailbox'[u][i] = mailbox[u][p]
           \/ Genuine(mailbox'[u][i], u)
  PROVE  Intact'
<1> SUFFICES ASSUME NEW u \in Users, NEW i \in DOMAIN mailbox'[u]
             PROVE  LET m == mailbox'[u][i]
                    IN  /\ KeyOf(m) \in DOMAIN sent'
                        /\ sent'[KeyOf(m)].to = u
                        /\ m.data = Whole(KeyOf(m), sent'[KeyOf(m)].total)
  BY DEF Intact
<1>1. CASE \E p \in DOMAIN mailbox[u] : mailbox'[u][i] = mailbox[u][p]
  BY <1>1 DEF Intact
<1>2. CASE Genuine(mailbox'[u][i], u)
  BY <1>2 DEF Genuine
<1>3. QED
  BY <1>1, <1>2

\* The boxes that the sweep leaves hold nothing new.
LEMMA SweptHoldsOld ==
  ASSUME TypeOK, NEW u \in Users, NEW i \in DOMAIN Swept[u]
  PROVE  \E p \in DOMAIN mailbox[u] : Swept[u][i] = mailbox[u][p]
<1>1. PICK d \in 0 .. Len(mailbox[u]) : Rest(Swept[u], mailbox[u], d)
  BY SweptIsRest
<1>2. /\ Len(Swept[u]) \in Nat /\ DOMAIN Swept[u] = 1 .. Len(Swept[u])
      /\ Len(mailbox[u]) \in Nat /\ DOMAIN mailbox[u] = 1 .. Len(mailbox[u])
  BY SweptTypes, LenProperties DEF TypeOK
<1>3. i + d \in DOMAIN mailbox[u] /\ Swept[u][i] = mailbox[u][i + d]
  BY <1>1, <1>2, RestIndices
<1>4. QED
  BY <1>3

\* Neither does a sweep, nor a handler that only takes from the mailboxes.
LEMMA SweptIntact ==
  ASSUME IntactInv, UNCHANGED sent,
         \A u \in Users : \A i \in DOMAIN mailbox'[u] :
           \E j \in DOMAIN Swept[u] : mailbox'[u][i] = Swept[u][j]
  PROVE  Intact'
<1>1. TypeOK /\ Intact
  BY DEF IntactInv
<1>2. \A u \in Users : \A i \in DOMAIN mailbox'[u] :
        \E p \in DOMAIN mailbox[u] : mailbox'[u][i] = mailbox[u][p]
  BY <1>1, SweptHoldsOld
<1>3. QED
  BY <1>1, <1>2, IntactStep

\* The sweep takes whole assemblies away and leaves the others as they are.
LEMMA SweptAsmOfOne ==
  ASSUME IntactInv, UNCHANGED sent,
         \A mid \in DOMAIN asm' : mid \in DOMAIN SweptAsm /\ asm'[mid] = SweptAsm[mid]
  PROVE  AssemblyOfOne'
<1>1. \A mid \in DOMAIN asm' : mid \in DOMAIN asm /\ asm'[mid] = asm[mid]
  BY SweptTypes DEF IntactInv
<1>2. QED
  BY <1>1 DEF IntactInv, AssemblyOfOne

\* The chunk that StoreChunk adds belongs to the message of its assembly.
LEMMA StoreOfOne ==
  ASSUME IntactInv, NEW k \in DOMAIN sent, NEW seq \in 0 .. sent[k].total - 1,
         StoreChunk(k, seq)
  PROVE  AssemblyOfOne'
<1> DEFINE o == Opened(SweptAsm, k)
           with == [o EXCEPT !.got = WithChunk(SweptAsm, k, seq)]
<1>1. TypeOK /\ k \in Users \X Mids
  BY DEF IntactInv, TypeOK, Keys
<1>2. /\ o \in Assemblies /\ o.from = k[1]
      /\ o.dest = sent[k].to /\ o.total = sent[k].total
  BY <1>1, OpenedTypes DEF StoreChunk
<1>3. PICK victim \in Victims(SweptAsm, k[2]) :
        asm' = Put(Without(SweptAsm, victim), k[2], with)
  BY DEF StoreChunk
<1>4. /\ with.from = o.from /\ with.dest = o.dest /\ with.total = o.total
      /\ with.got = WithChunk(SweptAsm, k, seq)
  BY <1>2 DEF Assemblies
<1>5. \A s \in DOMAIN with.got : with.got[s] = Piece(k, s)
  BY <1>4, WithChunkOfOne DEF StoreChunk
<1>6. UNCHANGED sent
  BY DEF StoreChunk
<1> HIDE DEF o, with
<1>7. ASSUME NEW mid \in DOMAIN asm'
      PROVE  \/ mid = k[2] /\ asm'[mid] = with
             \/ mid \in DOMAIN asm /\ asm'[mid] = asm[mid]
  BY <1>1, <1>3, SweptTypes DEF Put, Without, Restrict
<1>8. <<with.from, k[2]>> = k
  BY <1>1, <1>2, <1>4
<1>9. ASSUME NEW mid \in DOMAIN asm'
      PROVE  LET key == <<asm'[mid].from, mid>>
             IN  /\ key \in DOMAIN sent'
                 /\ asm'[mid].dest = sent'[key].to
                 /\ asm'[mid].total = sent'[key].total
                 /\ \A s \in DOMAIN asm'[mid].got : asm'[mid].got[s] = Piece(key, s)
  <2>1. CASE mid = k[2] /\ asm'[mid] = with
    BY <1>2, <1>4, <1>5, <1>6, <1>8, <2>1
  <2>2. CASE mid \in DOMAIN asm /\ asm'[mid] = asm[mid]
    BY <1>6, <2>2 DEF IntactInv, AssemblyOfOne
  <2>3. QED
    BY <1>7, <2>1, <2>2
<1>10. QED
  BY <1>9 DEF AssemblyOfOne

\* The message that CompleteMessage puts in a mailbox is genuine.
LEMMA CompleteIntact ==
  ASSUME IntactInv, NEW k \in DOMAIN sent, NEW seq \in 0 .. sent[k].total - 1,
         CompleteMessage(k, seq)
  PROVE  Intact'
<1> DEFINE o == Opened(SweptAsm, k)
           e == Entry(k, seq)
           w == WithChunk(SweptAsm, k, seq)
<1>1. TypeOK /\ Intact /\ k \in Users \X Mids
  BY DEF IntactInv, TypeOK, Keys
<1>2. /\ o \in Assemblies /\ o.from = k[1]
      /\ o.dest = sent[k].to /\ o.total = sent[k].total
      /\ w \in [0 .. o.total - 1 -> Pieces]
  BY <1>1, OpenedTypes DEF CompleteMessage
<1>3. \A s \in DOMAIN w : w[s] = Piece(k, s)
  BY WithChunkOfOne DEF CompleteMessage
<1>4. w = Whole(k, sent[k].total)
  BY <1>2, <1>3 DEF Whole
<1>5. KeyOf(e) = k /\ e.data = w
  BY <1>1, <1>2 DEF Entry, KeyOf
<1>6. Genuine(e, o.dest)
  BY <1>2, <1>4, <1>5 DEF Genuine
<1>7. o.dest \in Users /\ e \in Entries
  <2>1. w \in Datas
    BY <1>2 DEF Assemblies, Datas
  <2>2. QED
    BY <1>1, <1>2, <2>1 DEF Entry, Entries, Assemblies, TypeOK
<1>8. mailbox' = [Swept EXCEPT ![o.dest] = Enqueue(Swept[o.dest], e)] /\ UNCHANGED sent
  BY DEF CompleteMessage
<1> HIDE DEF o, e, w
<1>9. ASSUME NEW u \in Users, NEW i \in DOMAIN mailbox'[u]
      PROVE  \/ \E p \in DOMAIN mailbox[u] : mailbox'[u][i] = mailbox[u][p]
             \/ Genuine(mailbox'[u][i], u)
  <2>1. CASE u = o.dest
    <3>1. mailbox'[u] = Enqueue(Swept[u], e)
      BY <1>1, <1>8, <2>1, SweptTypes
    <3>2. PICK d \in Nat : RestOrNew(mailbox'[u], mailbox[u], d, e)
      BY <1>1, <1>7, <3>1, EnqueueIsRestOrNew
    <3>3. mailbox'[u] \in Seq(Entries)
      BY <1>1, <1>7, <3>1, EnqueueIsRestOrNew
    <3>4. i \in 1 .. Len(mailbox'[u]) /\ DOMAIN mailbox[u] = 1 .. Len(mailbox[u])
      BY <1>1, <3>3, LenProperties DEF TypeOK
    <3>5. \/ i + d \in DOMAIN mailbox[u] /\ mailbox'[u][i] = mailbox[u][i + d]
          \/ mailbox'[u][i] = e
      BY <3>2, <3>4 DEF RestOrNew
    <3>6. QED
      BY <1>6, <2>1, <3>5
  <2>2. CASE u # o.dest
    <3>1. mailbox'[u] = Swept[u]
      BY <1>1, <1>8, <2>2, SweptTypes
    <3>2. QED
      BY <1>1, <3>1, SweptHoldsOld
  <2>3. QED
    BY <2>1, <2>2
<1>10. QED
  BY <1>1, <1>8, <1>9, IntactStep

\* The invariant behind Intact.
LEMMA IntactInductive == Spec => []IntactInv
<1>1. Init => IntactInv
  <2> SUFFICES ASSUME Init PROVE IntactInv
    OBVIOUS
  <2>1. TypeOK
    <3>1. <<>> \in Seq(Entries)
      OBVIOUS
    <3>2. QED
      BY <3>1, TimesAssumption DEF Init, TypeOK, Time
  <2>2. (\A u \in Users : DOMAIN mailbox[u] = {}) /\ DOMAIN asm = {}
    BY DEF Init
  <2>3. QED
    BY <2>1, <2>2 DEF IntactInv, Intact, AssemblyOfOne
<1>2. IntactInv /\ TypeOK' /\ [Next]_vars => IntactInv'
  <2> SUFFICES ASSUME IntactInv, TypeOK', [Next]_vars
               PROVE  AssemblyOfOne' /\ Intact'
    BY DEF IntactInv
  <2>0. ASSUME SweepOnly, UNCHANGED sent PROVE AssemblyOfOne' /\ Intact'
    BY <2>0, SweptAsmOfOne, SweptIntact DEF SweepOnly
  <2>1. ASSUME NEW k \in Keys, NEW to \in Users, NEW total \in 1 .. MaxChunks + 1,
               NewMessage(k, to, total)
        PROVE  AssemblyOfOne' /\ Intact'
    <3>1. /\ DOMAIN sent \subseteq DOMAIN sent'
          /\ \A key \in DOMAIN sent : sent'[key] = sent[key]
          /\ UNCHANGED <<asm, mailbox>>
      BY <2>1 DEF NewMessage, Put, relayVars
    <3>2. QED
      BY <3>1, IntactStep DEF IntactInv, AssemblyOfOne
  <2>2. ASSUME NEW k \in DOMAIN sent, NEW seq \in 0 .. sent[k].total - 1, RefuseChunk(k, seq)
        PROVE  AssemblyOfOne' /\ Intact'
    BY <2>0, <2>2 DEF RefuseChunk
  <2>3. ASSUME NEW k \in DOMAIN sent, NEW seq \in 0 .. sent[k].total - 1, AckDuplicate(k, seq)
        PROVE  AssemblyOfOne' /\ Intact'
    BY <2>0, <2>3 DEF AckDuplicate
  <2>4. ASSUME NEW k \in DOMAIN sent, NEW seq \in 0 .. sent[k].total - 1, RefuseConflict(k, seq)
        PROVE  AssemblyOfOne' /\ Intact'
    BY <2>0, <2>4 DEF RefuseConflict
  <2>5. ASSUME NEW k \in DOMAIN sent, NEW seq \in 0 .. sent[k].total - 1, StoreChunk(k, seq)
        PROVE  AssemblyOfOne' /\ Intact'
    BY <2>5, StoreOfOne, SweptIntact DEF StoreChunk
  <2>6. ASSUME NEW k \in DOMAIN sent, NEW seq \in 0 .. sent[k].total - 1, CompleteMessage(k, seq)
        PROVE  AssemblyOfOne' /\ Intact'
    <3>1. AssemblyOfOne'
      BY <2>6, SweptAsmOfOne DEF CompleteMessage, Closed, Without, Restrict
    <3>2. QED
      BY <2>6, <3>1, CompleteIntact
  <2>7. ASSUME NEW u \in Users, PollEmpty(u) PROVE AssemblyOfOne' /\ Intact'
    BY <2>0, <2>7 DEF PollEmpty
  <2>8. ASSUME NEW u \in Users, PollMessage(u) PROVE AssemblyOfOne' /\ Intact'
    <3>1. AssemblyOfOne'
      BY <2>8, SweptAsmOfOne DEF PollMessage
    <3>2. Swept \in [Users -> Seq(Entries)] /\ Swept[u] # <<>>
          /\ mailbox' = [Swept EXCEPT ![u] = Tail(Swept[u])] /\ UNCHANGED sent
      BY <2>8, SweptTypes DEF PollMessage, IntactInv
    <3>3. ASSUME NEW v \in Users, NEW i \in DOMAIN mailbox'[v]
          PROVE  \E j \in DOMAIN Swept[v] : mailbox'[v][i] = Swept[v][j]
      <4>1. CASE v = u
        <5>1. mailbox'[v] = Tail(Swept[v]) /\ Swept[v] \in Seq(Entries) /\ Swept[v] # <<>>
          BY <3>2, <4>1
        <5>2. /\ Tail(Swept[v]) \in Seq(Entries) /\ Len(Swept[v]) \in Nat
              /\ Len(Tail(Swept[v])) = Len(Swept[v]) - 1
              /\ \A j \in 1 .. Len(Tail(Swept[v])) : Tail(Swept[v])[j] = Swept[v][j + 1]
              /\ DOMAIN Swept[v] = 1 .. Len(Swept[v])
          BY <5>1, HeadTailProperties, LenProperties
        <5>3. i \in 1 .. Len(Tail(Swept[v]))
          BY <5>1, <5>2, LenProperties
        <5>4. i + 1 \in DOMAIN Swept[v] /\ mailbox'[v][i] = Swept[v][i + 1]
          BY <5>1, <5>2, <5>3
        <5>5. QED
          BY <5>4
      <4>2. CASE v # u
        BY <3>2, <4>2
      <4>3. QED
        BY <4>1, <4>2
    <3>4. QED
      BY <3>1, <3>2, <3>3, SweptIntact
  <2>9. ASSUME OtherQuery PROVE AssemblyOfOne' /\ Intact'
    BY <2>0, <2>9 DEF OtherQuery
  <2>10. ASSUME Tick PROVE AssemblyOfOne' /\ Intact'
    BY <2>10 DEF Tick, relayVars, IntactInv, Intact, AssemblyOfOne
  <2>11. ASSUME Restart PROVE AssemblyOfOne' /\ Intact'
    <3>1. (\A u \in Users : DOMAIN mailbox'[u] = {}) /\ DOMAIN asm' = {}
      BY <2>11 DEF Restart
    <3>2. QED
      BY <3>1 DEF Intact, AssemblyOfOne
  <2>12. CASE UNCHANGED vars
    BY <2>12 DEF vars, relayVars, IntactInv, Intact, AssemblyOfOne
  <2>13. QED
    BY <2>1, <2>2, <2>3, <2>4, <2>5, <2>6, <2>7, <2>8, <2>9, <2>10, <2>11, <2>12
       DEF Next, HandleSend
<1>3. QED
  BY <1>1, <1>2, TypeCorrect, PTL DEF Spec

\* Whatever the order and the number of chunks that reach the relay, and
\* whatever the ids that two senders draw: what a mailbox holds is a whole
\* message of one sender to the mailbox's owner.
THEOREM MessagesIntact == Spec => []Intact
<1>1. IntactInv => Intact
  BY DEF IntactInv
<1>2. QED
  BY <1>1, IntactInductive, PTL

------------------------------------------------------------------------------
(* Acknowledgements *)

\* The invariant behind AckIsHonest.
LEMMA AckInductive == Spec => []AckInv
<1>1. Init => AckInv
  <2> SUFFICES ASSUME Init PROVE AckInv
    OBVIOUS
  <2>1. <<>> \in Seq(Entries)
    OBVIOUS
  <2>2. QED
    BY <2>1, TimesAssumption DEF Init, TypeOK, Time, AckInv, AckIsHonest
<1>2. AckInv /\ TypeOK' /\ [Next]_vars => AckInv'
  <2> SUFFICES ASSUME AckInv, TypeOK', [Next]_vars
               PROVE  DOMAIN delivered' \subseteq queued' /\ acked' \subseteq queued'
    BY DEF AckInv, AckIsHonest
  <2> USE DEF AckInv, AckIsHonest
  <2>1. ASSUME NEW k \in DOMAIN sent, NEW seq \in 0 .. sent[k].total - 1, CompleteMessage(k, seq)
        PROVE  DOMAIN delivered' \subseteq queued' /\ acked' \subseteq queued'
    <3>1. k \in Keys
      BY DEF TypeOK
    <3>2. DOMAIN delivered' \subseteq DOMAIN delivered \cup {k}
      BY <2>1, <3>1, RememberTypes DEF CompleteMessage
    <3>3. QED
      BY <2>1, <3>2 DEF CompleteMessage
  <2>2. ASSUME NEW k \in DOMAIN sent, NEW seq \in 0 .. sent[k].total - 1,
               HandleSend(k, seq), ~CompleteMessage(k, seq)
        PROVE  DOMAIN delivered' \subseteq queued' /\ acked' \subseteq queued'
    BY <2>2 DEF HandleSend, RefuseChunk, AckDuplicate, RefuseConflict, StoreChunk, history
  <2>3. ASSUME NEW u \in Users, PollEmpty(u) \/ PollMessage(u)
        PROVE  DOMAIN delivered' \subseteq queued' /\ acked' \subseteq queued'
    BY <2>3 DEF PollEmpty, PollMessage, history
  <2>4. ASSUME NEW k \in Keys, NEW to \in Users, NEW total \in 1 .. MaxChunks + 1,
               NewMessage(k, to, total)
        PROVE  DOMAIN delivered' \subseteq queued' /\ acked' \subseteq queued'
    BY <2>4 DEF NewMessage, relayVars, history
  <2>5. CASE OtherQuery \/ Tick \/ Restart \/ UNCHANGED vars
    BY <2>5, ForgetsSome DEF Tick, Restart, vars, relayVars, history
  <2>6. QED
    BY <2>1, <2>2, <2>3, <2>4, <2>5 DEF Next
<1>3. QED
  BY <1>1, <1>2, TypeCorrect, PTL DEF Spec

\* OK:delivered is said only of a message that did reach a mailbox.
THEOREM AcknowledgementsHonest == Spec => []AckIsHonest
<1>1. AckInv => AckIsHonest
  BY DEF AckInv
<1>2. QED
  BY <1>1, AckInductive, PTL


------------------------------------------------------------------------------
(* The mailboxes as the promise sees them *)

\* The messages of a mailbox by their keys.
KeysIn(s) == [i \in DOMAIN s |-> KeyOf(s[i])]

LEMMA KeysInSeq ==
  ASSUME NEW s \in Seq(Entries)
  PROVE  /\ KeysIn(s) \in Seq(Keys) /\ Len(KeysIn(s)) = Len(s) /\ Len(s) \in Nat
         /\ DOMAIN s = 1 .. Len(s)
         /\ \A i \in 1 .. Len(s) : KeysIn(s)[i] = KeyOf(s[i])
<1>1. /\ Len(s) \in Nat /\ DOMAIN s = 1 .. Len(s)
      /\ \A i \in 1 .. Len(s) : s[i] \in Entries
  BY LenProperties
<1>2. KeysIn(s) = [i \in 1 .. Len(s) |-> KeyOf(s[i])]
  BY <1>1 DEF KeysIn
<1>3. \A i \in 1 .. Len(s) : KeyOf(s[i]) \in Keys
  BY <1>1 DEF KeyOf, Entries, Keys
<1>4. KeysIn(s) \in Seq(Keys) /\ Len(KeysIn(s)) = Len(s)
  BY <1>1, <1>2, <1>3, IsASeq
<1>5. QED
  BY <1>1, <1>2, <1>4

\* What is left of a mailbox is left of its keys.
LEMMA RestIsSuffix ==
  ASSUME NEW s \in Seq(Entries), NEW t \in Seq(Entries), NEW d \in Nat, Rest(s, t, d)
  PROVE  Promise!Suffix(KeysIn(s), KeysIn(t))
<1> DEFINE a == KeysIn(s)
           b == KeysIn(t)
<1>1. /\ a \in Seq(Keys) /\ Len(a) = Len(s) /\ Len(s) \in Nat
      /\ \A i \in 1 .. Len(s) : a[i] = KeyOf(s[i])
      /\ b \in Seq(Keys) /\ Len(b) = Len(t) /\ Len(t) \in Nat
      /\ \A i \in 1 .. Len(t) : b[i] = KeyOf(t[i])
  BY KeysInSeq
<1>2. Len(s) = Len(t) - d /\ \A i \in 1 .. Len(s) : i + d \in 1 .. Len(t) /\ s[i] = t[i + d]
  BY <1>1 DEF Rest
<1>3. \A i \in 1 .. Len(a) : a[i] = b[i + d]
  BY <1>1, <1>2
<1>4. \A i \in 1 .. Len(b) : b[i] \in Keys
  BY <1>1, LenProperties
<1> HIDE DEF a, b
<1>5. /\ d + 1 \in Int /\ Len(b) \in Int
      /\ \A i \in (d + 1) .. Len(b) : b[i] \in Keys
  BY <1>1, <1>4
<1>6. /\ SubSeq(b, d + 1, Len(b)) \in Seq(Keys)
      /\ Len(SubSeq(b, d + 1, Len(b))) = IF d + 1 <= Len(b) THEN Len(b) - (d + 1) + 1 ELSE 0
      /\ \A i \in 1 .. Len(b) - (d + 1) + 1 : SubSeq(b, d + 1, Len(b))[i] = b[(d + 1) + i - 1]
  BY <1>5, SubSeqProperties
<1>7. Len(SubSeq(b, d + 1, Len(b))) = Len(a)
  BY <1>1, <1>2, <1>6
<1>8. \A i \in 1 .. Len(a) : SubSeq(b, d + 1, Len(b))[i] = a[i]
  BY <1>1, <1>2, <1>3, <1>6
<1>9. a = SubSeq(b, d + 1, Len(b))
  BY <1>1, <1>6, <1>7, <1>8, SeqEqual
<1>10. Len(a) <= Len(b) /\ Len(b) - Len(a) + 1 = d + 1
  BY <1>1, <1>2
<1>11. QED
  BY <1>9, <1>10 DEF Promise!Suffix, a, b

\* A mailbox with a message more is its keys with a key more.
LEMMA KeysOfAppend ==
  ASSUME NEW s \in Seq(Entries), NEW e \in Entries
  PROVE  /\ Append(s, e) \in Seq(Entries)
         /\ KeysIn(Append(s, e)) = Append(KeysIn(s), KeyOf(e))
<1>1. /\ Append(s, e) \in Seq(Entries) /\ Len(Append(s, e)) = Len(s) + 1
      /\ \A i \in 1 .. Len(s) : Append(s, e)[i] = s[i]
      /\ Append(s, e)[Len(s) + 1] = e
  BY AppendProperties
<1>2. KeyOf(e) \in Keys
  BY DEF KeyOf, Entries, Keys
<1>3. /\ KeysIn(s) \in Seq(Keys) /\ Len(KeysIn(s)) = Len(s) /\ Len(s) \in Nat
      /\ \A i \in 1 .. Len(s) : KeysIn(s)[i] = KeyOf(s[i])
  BY KeysInSeq
<1>4. /\ KeysIn(Append(s, e)) \in Seq(Keys)
      /\ Len(KeysIn(Append(s, e))) = Len(s) + 1
      /\ \A i \in 1 .. Len(s) + 1 : KeysIn(Append(s, e))[i] = KeyOf(Append(s, e)[i])
  BY <1>1, KeysInSeq
<1>5. /\ Append(KeysIn(s), KeyOf(e)) \in Seq(Keys)
      /\ Len(Append(KeysIn(s), KeyOf(e))) = Len(s) + 1
      /\ \A i \in 1 .. Len(s) : Append(KeysIn(s), KeyOf(e))[i] = KeysIn(s)[i]
      /\ Append(KeysIn(s), KeyOf(e))[Len(s) + 1] = KeyOf(e)
  BY <1>2, <1>3, AppendProperties
<1>6. \A i \in 1 .. Len(s) + 1 :
        KeysIn(Append(s, e))[i] = Append(KeysIn(s), KeyOf(e))[i]
  BY <1>1, <1>3, <1>4, <1>5
<1>7. QED
  BY <1>1, <1>4, <1>5, <1>6, SeqEqual

\* A mailbox that loses its first message loses its first key.
LEMMA KeysOfTail ==
  ASSUME NEW s \in Seq(Entries), s # <<>>
  PROVE  /\ Tail(s) \in Seq(Entries) /\ Head(s) \in Entries
         /\ <<KeyOf(Head(s))>> \o KeysIn(Tail(s)) = KeysIn(s)
<1> DEFINE k == KeyOf(Head(s))
           t == Tail(s)
<1>1. /\ Head(s) \in Entries /\ Head(s) = s[1] /\ t \in Seq(Entries)
      /\ Len(t) = Len(s) - 1 /\ \A i \in 1 .. Len(t) : t[i] = s[i + 1]
  BY HeadTailProperties
<1>2. k \in Keys
  BY <1>1 DEF KeyOf, Entries, Keys
<1>3. /\ <<k>> \in Seq(Keys) /\ Len(<<k>>) = 1 /\ <<k>>[1] = k
  BY <1>2
<1>4. /\ KeysIn(t) \in Seq(Keys) /\ Len(KeysIn(t)) = Len(t) /\ Len(t) \in Nat
      /\ \A i \in 1 .. Len(t) : KeysIn(t)[i] = KeyOf(t[i])
  BY <1>1, KeysInSeq
<1>5. /\ KeysIn(s) \in Seq(Keys) /\ Len(KeysIn(s)) = Len(s) /\ Len(s) \in Nat
      /\ \A i \in 1 .. Len(s) : KeysIn(s)[i] = KeyOf(s[i])
  BY KeysInSeq
<1> DEFINE c == <<k>> \o KeysIn(t)
<1>6. /\ c \in Seq(Keys) /\ Len(c) = 1 + Len(t)
      /\ \A i \in 1 .. Len(c) : c[i] = IF i <= 1 THEN k ELSE KeysIn(t)[i - 1]
  BY <1>3, <1>4, ConcatProperties
<1> HIDE DEF c, k, t
<1>7. ASSUME NEW i \in 1 .. Len(s) PROVE c[i] = KeysIn(s)[i]
  <2>1. CASE i = 1
    BY <1>1, <1>4, <1>5, <1>6, <2>1 DEF k
  <2>2. CASE i # 1
    <3>1. i - 1 \in 1 .. Len(t) /\ i \in 1 .. Len(c) /\ ~(i <= 1)
      BY <1>1, <1>4, <1>5, <1>6, <2>2
    <3>2. c[i] = KeysIn(t)[i - 1] /\ KeysIn(t)[i - 1] = KeyOf(t[i - 1]) /\ t[i - 1] = s[(i - 1) + 1]
      BY <1>1, <1>4, <1>6, <3>1
    <3>3. QED
      BY <1>5, <3>2
  <2>3. QED
    BY <2>1, <2>2
<1>8. c = KeysIn(s)
  BY <1>1, <1>4, <1>5, <1>6, <1>7, SeqEqual
<1>9. QED
  BY <1>1, <1>8 DEF c, k, t

\* A suffix of a mailbox is one also with a message more at both ends.
LEMMA RestOfAppend ==
  ASSUME NEW s \in Seq(Entries), NEW t \in Seq(Entries), NEW e \in Entries,
         NEW d \in Nat, Rest(s, t, d)
  PROVE  Rest(Append(s, e), Append(t, e), d)
<1> DEFINE a == Append(s, e)
           b == Append(t, e)
<1>1. Len(s) \in Nat /\ Len(t) \in Nat
  BY LenProperties
<1>2. /\ Len(a) = Len(s) + 1 /\ (\A i \in 1 .. Len(s) : a[i] = s[i]) /\ a[Len(s) + 1] = e
      /\ Len(b) = Len(t) + 1 /\ (\A i \in 1 .. Len(t) : b[i] = t[i]) /\ b[Len(t) + 1] = e
  BY AppendProperties
<1>3. /\ Len(s) = Len(t) - d
      /\ \A i \in 1 .. Len(s) : i + d \in 1 .. Len(t) /\ s[i] = t[i + d]
  BY <1>1, RestIndices DEF Rest
<1> HIDE DEF a, b
<1>4. ASSUME NEW i \in 1 .. Len(a) PROVE a[i] = b[i + d]
  <2>1. CASE i = Len(s) + 1
    BY <1>1, <1>2, <1>3, <2>1
  <2>2. CASE i # Len(s) + 1
    <3>1. i \in 1 .. Len(s)
      BY <1>1, <1>2, <2>2
    <3>2. QED
      BY <1>2, <1>3, <3>1
  <2>3. QED
    BY <2>1, <2>2
<1>5. Rest(a, b, d)
  BY <1>1, <1>2, <1>3, <1>4 DEF Rest
<1>6. QED
  BY <1>5 DEF a, b

\* What has just been added is not dropped.
LEMMA NewestKeepsLast ==
  ASSUME NEW s \in Seq(Entries), s # <<>>, NEW n \in Nat \ {0}
  PROVE  Newest(s, n) # <<>>
<1>1. Len(s) \in Nat \ {0} /\ \A i \in 1 .. Len(s) : s[i] \in Entries
  BY LenProperties, EmptySeq
<1>2. CASE Len(s) > n
  <2>1. Len(s) - n + 1 \in Int /\ \A i \in (Len(s) - n + 1) .. Len(s) : s[i] \in Entries
    BY <1>1, <1>2
  <2>2. Len(SubSeq(s, Len(s) - n + 1, Len(s))) =
          IF Len(s) - n + 1 <= Len(s) THEN Len(s) - (Len(s) - n + 1) + 1 ELSE 0
    <3> DEFINE m == Len(s) - n + 1
    <3>1. m \in Int /\ \A i \in m .. Len(s) : s[i] \in Entries
      BY <2>1
    <3> HIDE DEF m
    <3>2. Len(SubSeq(s, m, Len(s))) = IF m <= Len(s) THEN Len(s) - m + 1 ELSE 0
      BY <1>1, <3>1, SubSeqProperties
    <3>3. QED
      BY <3>2 DEF m
  <2>3. Len(Newest(s, n)) = n
    BY <1>1, <1>2, <2>2 DEF Newest
  <2>4. QED
    BY <2>3
<1>3. CASE ~(Len(s) > n)
  BY <1>3 DEF Newest
<1>4. QED
  BY <1>2, <1>3

------------------------------------------------------------------------------
(* Step by step *)

\* What the sweep leaves is a suffix.
LEMMA SweptAges ==
  ASSUME TypeOK, NEW u \in Users
  PROVE  Promise!Suffix(KeysIn(Swept[u]), KeysIn(mailbox[u]))
<1>1. PICK d \in 0 .. Len(mailbox[u]) : Rest(Swept[u], mailbox[u], d)
  BY SweptIsRest
<1>2. mailbox[u] \in Seq(Entries) /\ Swept[u] \in Seq(Entries) /\ d \in Nat
  BY SweptTypes, LenProperties DEF TypeOK
<1>3. QED
  BY <1>1, <1>2, RestIsSuffix

\* A handler that does no more than the sweep lets the mailboxes age.
LEMMA SweepIsAge ==
  ASSUME TypeOK, mailbox' = Swept, DOMAIN delivered' \subseteq DOMAIN delivered, handed' = handed
  PROVE  Promise!Age
<1>1. ASSUME NEW u \in Users
      PROVE  Promise!Suffix(KeysIn(mailbox'[u]), KeysIn(mailbox[u]))
  BY SweptAges
<1>2. QED
  BY <1>1 DEF Promise!Age, KeysIn

\* The chunk that completes a message makes the relay take it.
LEMMA CompleteIsTake ==
  ASSUME TypeOK, NEW k \in DOMAIN sent, NEW seq \in 0 .. sent[k].total - 1,
         CompleteMessage(k, seq)
  PROVE  \E u \in Users : Promise!Take(u, k)
<1> DEFINE e == Entry(k, seq)
<1>1. /\ k \in Users \X Mids /\ Opened(SweptAsm, k) \in Assemblies
      /\ Opened(SweptAsm, k).from = k[1]
      /\ WithChunk(SweptAsm, k, seq)
           \in [0 .. Opened(SweptAsm, k).total - 1 -> Pieces]
  BY OpenedTypes DEF CompleteMessage
<1>2. PICK dest \in Users : /\ dest = Opened(SweptAsm, k).dest
                           /\ Opened(SweptAsm, k).total \in 1 .. MaxChunks
  BY <1>1 DEF Assemblies
<1>3. e \in Entries /\ KeyOf(e) = k
  <2>1. WithChunk(SweptAsm, k, seq) \in Datas
    BY <1>1, <1>2 DEF Datas
  <2>2. QED
    BY <1>1, <2>1 DEF Entry, Entries, KeyOf, TypeOK
<1>4. /\ mailbox' = [Swept EXCEPT ![dest] = Enqueue(Swept[dest], e)]
      /\ k \notin DOMAIN delivered /\ UNCHANGED handed
      /\ DOMAIN delivered' \subseteq DOMAIN delivered \cup {k}
  BY <1>1, <1>2, RememberTypes DEF CompleteMessage, Keys
<1> HIDE DEF e
<1>5. /\ mailbox[dest] \in Seq(Entries) /\ Swept[dest] \in Seq(Entries)
      /\ mailbox'[dest] = Newest(Append(Swept[dest], e), MaxMailbox)
  BY <1>2, <1>4, SweptTypes DEF TypeOK, Enqueue
<1>6. /\ Append(Swept[dest], e) \in Seq(Entries) /\ Append(Swept[dest], e) # <<>>
      /\ Append(mailbox[dest], e) \in Seq(Entries)
      /\ KeysIn(Append(mailbox[dest], e)) = Append(KeysIn(mailbox[dest]), k)
  BY <1>3, <1>5, KeysOfAppend, AppendProperties
<1>7. mailbox'[dest] # <<>>
  BY <1>5, <1>6, NewestKeepsLast, SizesAssumption
<1>8. PICK c \in 0 .. Len(mailbox[dest]) : Rest(Swept[dest], mailbox[dest], c)
  BY <1>2, SweptIsRest
<1>9. c \in Nat /\ Rest(Append(Swept[dest], e), Append(mailbox[dest], e), c)
  <2>1. c \in Nat
    BY <1>5, LenProperties
  <2>2. QED
    BY <1>3, <1>5, <1>8, <2>1, RestOfAppend
<1>10. /\ mailbox'[dest] \in Seq(Entries)
       /\ \E d \in 0 .. Len(Append(Swept[dest], e)) :
            Rest(mailbox'[dest], Append(Swept[dest], e), d)
  <2> DEFINE s == Append(Swept[dest], e)
  <2>1. s \in Seq(Entries) /\ MaxMailbox \in Nat /\ mailbox'[dest] = Newest(s, MaxMailbox)
    BY <1>5, <1>6, SizesAssumption
  <2> HIDE DEF s
  <2>2. /\ Newest(s, MaxMailbox) \in Seq(Entries)
        /\ \E d \in 0 .. Len(s) : Rest(Newest(s, MaxMailbox), s, d)
    BY <2>1, NewestIsRest
  <2>3. QED
    BY <2>1, <2>2 DEF s
<1>11. PICK d \in Nat : Rest(mailbox'[dest], Append(mailbox[dest], e), d)
  <2> DEFINE s == Append(Swept[dest], e)
             t == Append(mailbox[dest], e)
  <2>1. /\ Len(s) \in Nat /\ Len(t) \in Nat /\ Len(mailbox'[dest]) \in Nat
        /\ Len(t) = Len(mailbox[dest]) + 1 /\ Len(mailbox[dest]) \in Nat
    BY <1>3, <1>5, <1>6, <1>10, LenProperties, AppendProperties
  <2>2. c \in 0 .. Len(t)
    BY <2>1
  <2>3. PICK d \in 0 .. Len(s) : Rest(mailbox'[dest], s, d)
    BY <1>10
  <2> HIDE DEF s, t
  <2>4. d + c \in 0 .. Len(t) /\ Rest(mailbox'[dest], t, d + c)
    BY <1>9, <2>1, <2>2, <2>3, RestOfRest DEF s, t
  <2>5. d + c \in Nat
    BY <2>1, <2>4
  <2>6. QED
    BY <2>4, <2>5 DEF t
<1>12. Promise!Suffix(KeysIn(mailbox'[dest]), Append(KeysIn(mailbox[dest]), k))
  BY <1>6, <1>10, <1>11, RestIsSuffix
<1>13. ASSUME NEW v \in Users \ {dest}
       PROVE  Promise!Suffix(KeysIn(mailbox'[v]), KeysIn(mailbox[v]))
  <2>1. mailbox'[v] = Swept[v]
    BY <1>4, SweptTypes
  <2>2. QED
    BY <2>1, SweptAges
<1>14. KeysIn(mailbox'[dest]) # <<>>
  BY <1>7, <1>10, KeysInSeq, EmptySeq
<1>15. Promise!Take(dest, k)
  BY <1>2, <1>4, <1>12, <1>13, <1>14 DEF Promise!Take, Promise!OthersAge, KeysIn
<1>16. QED
  BY <1>15

\* A poll hands out the first message that the sweep left.
LEMMA PollIsHand ==
  ASSUME TypeOK, NEW u \in Users, PollMessage(u)
  PROVE  \E k \in Keys : Promise!Hand(u, k)
<1>1. Swept[u] \in Seq(Entries) /\ Swept[u] # <<>> /\ Swept \in [Users -> Seq(Entries)]
  BY SweptTypes DEF PollMessage
<1>2. PICK k \in Keys : k = KeyOf(Head(Swept[u]))
  <2>1. Head(Swept[u]) \in Entries
    BY <1>1, KeysOfTail
  <2>2. QED
    BY <2>1 DEF KeyOf, Entries, Keys
<1>3. <<k>> \o KeysIn(Tail(Swept[u])) = KeysIn(Swept[u])
  BY <1>1, <1>2, KeysOfTail
<1>4. mailbox'[u] = Tail(Swept[u]) /\ \A v \in Users \ {u} : mailbox'[v] = Swept[v]
  BY <1>1 DEF PollMessage
<1>5. handed' = handed \cup {k} /\ UNCHANGED delivered
  BY <1>2 DEF PollMessage
<1>6. Promise!Suffix(<<k>> \o KeysIn(mailbox'[u]), KeysIn(mailbox[u]))
  BY <1>3, <1>4, SweptAges
<1>7. ASSUME NEW v \in Users \ {u}
      PROVE  Promise!Suffix(KeysIn(mailbox'[v]), KeysIn(mailbox[v]))
  BY <1>4, SweptAges
<1>8. Promise!Hand(u, k)
  BY <1>5, <1>6, <1>7 DEF Promise!Hand, Promise!OthersAge, KeysIn
<1>9. QED
  BY <1>8

\* The relay keeps the promise of AtMostOnceMailbox: every step of RelayMailbox is
\* one that AtMostOnceMailbox allows, or changes nothing of what it speaks of.
THEOREM KeepsPromise == Spec => ImplementsPromise
<1>1. Init => Promise!Init
  BY DEF Init, Promise!Init
<1>2. TypeOK /\ [Next]_vars => [Promise!Next]_(Promise!vars)
  <2> SUFFICES ASSUME TypeOK, [Next]_vars
               PROVE  Promise!Next \/ UNCHANGED Promise!vars
    OBVIOUS
  <2>1. ASSUME NEW k \in DOMAIN sent, NEW seq \in 0 .. sent[k].total - 1, CompleteMessage(k, seq)
        PROVE  Promise!Next
    <3>1. k \in Keys
      BY DEF TypeOK
    <3>2. QED
      BY <2>1, <3>1, CompleteIsTake DEF Promise!Next
  <2>2. ASSUME NEW k \in DOMAIN sent, NEW seq \in 0 .. sent[k].total - 1,
               HandleSend(k, seq), ~CompleteMessage(k, seq)
        PROVE  Promise!Age
    <3>1. mailbox' = Swept /\ UNCHANGED <<delivered, handed>>
      BY <2>2 DEF HandleSend, RefuseChunk, AckDuplicate, RefuseConflict, StoreChunk,
                  SweepOnly, history
    <3>2. QED
      BY <3>1, SweepIsAge
  <2>3. ASSUME NEW u \in Users, PollEmpty(u) PROVE Promise!Age
    BY <2>3, SweepIsAge DEF PollEmpty, SweepOnly, history
  <2>4. ASSUME NEW u \in Users, PollMessage(u) PROVE Promise!Next
    BY <2>4, PollIsHand DEF Promise!Next
  <2>5. ASSUME OtherQuery PROVE Promise!Age
    BY <2>5, SweepIsAge, ForgetsSome DEF SweepOnly
  <2>6. ASSUME Restart PROVE Promise!Crash
    BY <2>6 DEF Restart, Promise!Crash
  <2>7. ASSUME \/ \E k \in Keys, to \in Users, total \in 1 .. MaxChunks + 1 :
                    NewMessage(k, to, total)
               \/ Tick
               \/ UNCHANGED vars
        PROVE  UNCHANGED Promise!vars
    <3>1. UNCHANGED <<mailbox, delivered, handed>>
      BY <2>7 DEF NewMessage, Tick, vars, relayVars, history
    <3>2. QED
      BY <3>1 DEF Promise!vars
  <2>8. QED
    BY <2>1, <2>2, <2>3, <2>4, <2>5, <2>6, <2>7 DEF Next, Promise!Next
<1>3. QED
  BY <1>1, <1>2, TypeCorrect, PTL DEF Spec, ImplementsPromise, Promise!Spec

------------------------------------------------------------------------------
(* Assemblies *)

\* The relay never holds an assembly of a message it remembers as delivered.
THEOREM NoGhosts == Spec => []NoGhostAssembly
<1>1. Init => NoGhostAssembly
  BY DEF Init, NoGhostAssembly
<1>2. TypeOK /\ NoGhostAssembly /\ [Next]_vars => NoGhostAssembly'
  <2> SUFFICES ASSUME TypeOK, NoGhostAssembly, [Next]_vars
               PROVE  NoGhostAssembly'
    OBVIOUS
  <2>0. ASSUME asm' = SweptAsm, DOMAIN delivered' \subseteq DOMAIN delivered PROVE NoGhostAssembly'
    BY <2>0, SweptTypes DEF NoGhostAssembly
  <2>1. ASSUME NEW k \in DOMAIN sent, NEW seq \in 0 .. sent[k].total - 1, StoreChunk(k, seq)
        PROVE  NoGhostAssembly'
    <3> DEFINE with == [Opened(SweptAsm, k) EXCEPT !.got = WithChunk(SweptAsm, k, seq)]
    <3>1. /\ k \in Users \X Mids /\ Opened(SweptAsm, k) \in Assemblies
          /\ Opened(SweptAsm, k).from = k[1]
      BY <2>1, OpenedTypes DEF StoreChunk
    <3>2. with.from = k[1]
      BY <3>1 DEF Assemblies
    <3> HIDE DEF with
    <3>3. \A mid \in DOMAIN asm' :
            IF mid = k[2] THEN asm'[mid] = with
            ELSE mid \in DOMAIN SweptAsm /\ asm'[mid] = SweptAsm[mid]
      BY <2>1 DEF StoreChunk, Put, Without, Restrict, with
    <3>4. <<k[1], k[2]>> = k /\ k \notin DOMAIN delivered /\ UNCHANGED delivered
      BY <2>1, <3>1 DEF StoreChunk
    <3>5. QED
      BY <3>2, <3>3, <3>4, SweptTypes DEF NoGhostAssembly
  <2>2. ASSUME NEW k \in DOMAIN sent, NEW seq \in 0 .. sent[k].total - 1, CompleteMessage(k, seq)
        PROVE  NoGhostAssembly'
    <3>1. k \in Users \X Mids /\ k \in Keys
      BY DEF TypeOK, Keys
    <3>2. DOMAIN delivered' \subseteq DOMAIN delivered \cup {k}
      BY <2>2, <3>1, RememberTypes DEF CompleteMessage
    <3>3. \A mid \in DOMAIN asm' :
            mid # k[2] /\ mid \in DOMAIN SweptAsm /\ asm'[mid] = SweptAsm[mid]
      BY <2>2 DEF CompleteMessage, Closed, Without, Restrict
    <3>4. \A mid \in DOMAIN asm' : <<asm'[mid].from, mid>> # k
      BY <3>1, <3>3
    <3>5. QED
      BY <3>2, <3>3, <3>4, SweptTypes DEF NoGhostAssembly
  <2>3. ASSUME NEW k \in DOMAIN sent, NEW seq \in 0 .. sent[k].total - 1,
               RefuseChunk(k, seq) \/ AckDuplicate(k, seq) \/ RefuseConflict(k, seq)
        PROVE  NoGhostAssembly'
    BY <2>0, <2>3 DEF RefuseChunk, AckDuplicate, RefuseConflict, SweepOnly
  <2>4. ASSUME NEW u \in Users, PollEmpty(u) \/ PollMessage(u) PROVE NoGhostAssembly'
    BY <2>0, <2>4 DEF PollEmpty, PollMessage, SweepOnly
  <2>5. CASE OtherQuery
    BY <2>0, <2>5, ForgetsSome DEF SweepOnly
  <2>6. CASE Restart
    BY <2>6 DEF Restart, NoGhostAssembly
  <2>7. CASE \/ \E k \in Keys, to \in Users, total \in 1 .. MaxChunks + 1 :
                  NewMessage(k, to, total)
             \/ Tick
             \/ UNCHANGED vars
    BY <2>7 DEF NewMessage, Tick, vars, relayVars, NoGhostAssembly
  <2>8. QED
    BY <2>1, <2>2, <2>3, <2>4, <2>5, <2>6, <2>7 DEF Next, HandleSend
<1>3. QED
  BY <1>1, <1>2, TypeCorrect, PTL DEF Spec

------------------------------------------------------------------------------
(* The age of what a poll hands out *)

\* The times of a mailbox.
LEMMA TimesOfBox ==
  ASSUME NEW s \in Seq(Entries)
  PROVE  /\ Len(s) \in Nat /\ DOMAIN s = 1 .. Len(s)
         /\ \A i \in 1 .. Len(s) : s[i].ts \in Nat
<1>1. /\ Len(s) \in Nat /\ DOMAIN s = 1 .. Len(s)
      /\ \A i \in 1 .. Len(s) : s[i] \in Entries
  BY LenProperties
<1>2. \A e \in Entries : e.ts \in Nat
  BY TimesAssumption DEF Entries, Time
<1>3. QED
  BY <1>1, <1>2

\* The stale messages can be counted.
LEMMA StaleIsFinite ==
  ASSUME NEW s \in Seq(Entries)
  PROVE  IsFiniteSet(Stale(s)) /\ Cardinality(Stale(s)) \in Nat
<1>1. Len(s) \in Nat
  BY LenProperties
<1>2. IsFiniteSet(1 .. Len(s))
  <2> DEFINE n == Len(s)
  <2>1. 1 \in Int /\ n \in Int
    BY <1>1
  <2> HIDE DEF n
  <2>2. IsFiniteSet(1 .. n)
    BY <2>1, FS_Interval
  <2>3. QED
    BY <2>2 DEF n
<1>3. Stale(s) \in SUBSET (1 .. Len(s))
  BY DEF Stale
<1>4. QED
  BY <1>2, <1>3, FS_Subset, FS_CardinalityType

\* What is left of a fresh mailbox is fresh.
LEMMA FreshRest ==
  ASSUME NEW s \in Seq(Entries), NEW t \in Seq(Entries), NEW d \in Nat, Rest(s, t, d),
         NEW last, Fresh(t, last)
  PROVE  Fresh(s, last)
<1>1. /\ Len(s) \in Nat /\ DOMAIN s = 1 .. Len(s)
      /\ Len(t) \in Nat /\ DOMAIN t = 1 .. Len(t)
  BY LenProperties
<1>2. \A i \in 1 .. Len(s) : i + d \in 1 .. Len(t) /\ s[i] = t[i + d]
  BY <1>1, RestIndices
<1>3. ASSUME NEW i \in 1 .. Len(s), NEW j \in 1 .. i PROVE s[j].ts <= s[i].ts
  <2>1. j \in 1 .. Len(s) /\ j + d \in 1 .. (i + d)
    BY <1>1
  <2>2. t[j + d].ts <= t[i + d].ts
    BY <1>1, <1>2, <2>1 DEF Fresh
  <2>3. QED
    BY <1>2, <2>1, <2>2
<1>4. QED
  BY <1>1, <1>2, <1>3 DEF Fresh

\* A fresh mailbox stays so when a message of now is put at its end.
LEMMA FreshAppend ==
  ASSUME now \in Nat, NEW last \in Nat, last <= now,
         NEW s \in Seq(Entries), Fresh(s, last), NEW e \in Entries, e.ts = now
  PROVE  Fresh(Append(s, e), last)
<1> DEFINE a == Append(s, e)
<1>1. Len(s) \in Nat /\ DOMAIN s = 1 .. Len(s)
  BY LenProperties
<1>2. /\ a \in Seq(Entries) /\ Len(a) = Len(s) + 1
      /\ \A i \in 1 .. Len(s) : a[i] = s[i]
      /\ a[Len(s) + 1] = e
  BY AppendProperties
<1> HIDE DEF a
<1>3. DOMAIN a = 1 .. Len(s) + 1
  BY <1>1, <1>2, LenProperties
<1>4. ASSUME NEW i \in 1 .. Len(s) + 1
      PROVE  /\ a[i].ts <= now
             /\ last - a[i].ts < MailboxTTL
             /\ \A j \in 1 .. i : a[j].ts <= a[i].ts
  <2>1. CASE i \in 1 .. Len(s)
    BY <1>1, <1>2, <2>1 DEF Fresh
  <2>2. CASE i = Len(s) + 1
    <3>1. \A j \in 1 .. Len(s) : a[j].ts <= now
      BY <1>1, <1>2 DEF Fresh
    <3>2. a[i].ts = now
      BY <1>2, <2>2
    <3>3. \A j \in 1 .. i : j \in 1 .. Len(s) \/ j = i
      BY <1>1, <2>2
    <3>4. QED
      BY <3>1, <3>2, <3>3, TimesAssumption
  <2>3. QED
    BY <1>1, <2>1, <2>2
<1>5. QED
  BY <1>3, <1>4 DEF Fresh, a

\* In a mailbox in the order of its ts the stale messages are the first ones.
LEMMA StaleComeFirst ==
  ASSUME TypeOK, NEW u \in Users, Fresh(mailbox[u], lastEvict),
         NEW i \in DOMAIN mailbox[u], i > Cardinality(Stale(mailbox[u]))
  PROVE  now - mailbox[u][i].ts < MailboxTTL
<1> DEFINE box == mailbox[u]
<1>1. /\ Len(box) \in Nat /\ DOMAIN box = 1 .. Len(box)
      /\ \A j \in 1 .. Len(box) : box[j].ts \in Nat
      /\ box \in Seq(Entries)
  BY TimesOfBox DEF TypeOK
<1>2. now \in Nat /\ MailboxTTL \in Nat /\ i \in 1 .. Len(box)
  BY <1>1, TimesAssumption DEF TypeOK, Time
<1> SUFFICES ASSUME now - box[i].ts >= MailboxTTL PROVE FALSE
  BY <1>1, <1>2
<1>3. 1 .. i \subseteq Stale(box)
  <2>1. ASSUME NEW j \in 1 .. i PROVE j \in Stale(box)
    <3>1. j \in 1 .. Len(box) /\ box[j].ts <= box[i].ts
      BY <1>1, <1>2 DEF Fresh
    <3>2. now - box[j].ts >= MailboxTTL
      BY <1>1, <1>2, <3>1
    <3>3. QED
      BY <3>1, <3>2 DEF Stale
  <2>2. QED
    BY <2>1
<1>4. IsFiniteSet(Stale(box)) /\ Cardinality(Stale(box)) \in Nat
  BY <1>1, StaleIsFinite
<1>5. Cardinality(1 .. i) = i
  <2>1. Cardinality(1 .. i) = IF 1 > i THEN 0 ELSE i - 1 + 1
    BY <1>2, FS_Interval
  <2>2. QED
    BY <1>2, <2>1
<1>6. Cardinality(1 .. i) <= Cardinality(Stale(box))
  BY <1>3, <1>4, FS_Subset
<1>7. QED
  BY <1>2, <1>4, <1>5, <1>6

\* What a sweep leaves is fresh, whether it was due or not.
LEMMA SweptFresh ==
  ASSUME TypeOK, FreshInv, NEW u \in Users
  PROVE  /\ Fresh(Swept[u], SweptLast)
         /\ \A i \in DOMAIN Swept[u] : now - Swept[u][i].ts < MailboxTTL + EvictInterval
<1> DEFINE box == mailbox[u]
           s == Swept[u]
<1>1. PICK d \in 0 .. Len(box) : /\ Rest(s, box, d)
                                 /\ SweepDue => d >= Cardinality(Stale(box))
  BY SweptDropsStale
<1>2. /\ s \in Seq(Entries) /\ box \in Seq(Entries)
      /\ Len(s) \in Nat /\ DOMAIN s = 1 .. Len(s)
      /\ Len(box) \in Nat /\ DOMAIN box = 1 .. Len(box) /\ d \in Nat
      /\ \A i \in 1 .. Len(s) : s[i].ts \in Nat
  <2>1. s \in Seq(Entries) /\ box \in Seq(Entries)
    BY SweptTypes DEF TypeOK
  <2>2. QED
    BY <2>1, TimesOfBox
<1>3. \A i \in 1 .. Len(s) : i + d \in 1 .. Len(box) /\ s[i] = box[i + d]
  BY <1>1, <1>2, RestIndices
<1>4. Fresh(box, lastEvict)
  BY DEF FreshInv
<1>5. Fresh(s, lastEvict)
  BY <1>1, <1>2, <1>4, FreshRest
<1>6. /\ now \in Nat /\ lastEvict \in Nat /\ MailboxTTL \in Nat /\ EvictInterval \in Nat \ {0}
  BY TimesAssumption DEF TypeOK, Time
<1>7. CASE SweepDue
  <2>1. Cardinality(Stale(box)) \in Nat
    BY <1>2, StaleIsFinite
  <2>2. ASSUME NEW i \in 1 .. Len(s) PROVE now - s[i].ts < MailboxTTL
    <3>1. i + d \in DOMAIN box /\ i + d > Cardinality(Stale(box)) /\ s[i] = box[i + d]
      BY <1>1, <1>2, <1>3, <1>7, <2>1
    <3>2. QED
      BY <1>4, <3>1, StaleComeFirst
  <2>3. SweptLast = now
    BY <1>7 DEF SweptLast
  <2>4. QED
    BY <1>2, <1>5, <1>6, <2>2, <2>3 DEF Fresh
<1>8. CASE ~SweepDue
  <2>1. SweptLast = lastEvict /\ now - lastEvict < EvictInterval
    BY <1>6, <1>8 DEF SweptLast, SweepDue
  <2>2. ASSUME NEW i \in 1 .. Len(s)
        PROVE  now - s[i].ts < MailboxTTL + EvictInterval
    <3>1. lastEvict - s[i].ts < MailboxTTL /\ s[i].ts \in Nat
      BY <1>2, <1>5 DEF Fresh
    <3>2. QED
      BY <1>6, <2>1, <3>1
  <2>3. Fresh(s, SweptLast)
    BY <1>5, <2>1
  <2>4. QED
    BY <1>2, <2>2, <2>3
<1>9. QED
  BY <1>7, <1>8

\* A step that leaves of the swept mailboxes no more than a suffix keeps them fresh.
LEMMA RestStaysFresh ==
  ASSUME TypeOK, TypeOK', FreshInv, now' = now, lastEvict' = SweptLast,
         \A u \in Users : \E d \in Nat : Rest(mailbox'[u], Swept[u], d)
  PROVE  FreshInv'
<1>1. ASSUME NEW u \in Users PROVE Fresh(mailbox'[u], SweptLast)
  <2>1. mailbox'[u] \in Seq(Entries) /\ Swept[u] \in Seq(Entries)
    BY SweptTypes DEF TypeOK
  <2>2. Fresh(Swept[u], SweptLast)
    BY SweptFresh
  <2>3. QED
    BY <2>1, <2>2, FreshRest
<1>2. QED
  BY <1>1 DEF FreshInv, Fresh

\* A step that only sweeps keeps the mailboxes fresh.
LEMMA SweepStaysFresh ==
  ASSUME TypeOK, TypeOK', FreshInv, now' = now, SweepOnly
  PROVE  FreshInv'
<1>1. ASSUME NEW u \in Users PROVE Fresh(mailbox'[u], SweptLast)
  BY SweptFresh DEF SweepOnly
<1>2. QED
  BY <1>1 DEF FreshInv, Fresh, SweepOnly

\* The message that CompleteMessage adds has the time of now.
LEMMA CompleteStaysFresh ==
  ASSUME TypeOK, TypeOK', FreshInv, NEW k \in DOMAIN sent,
         NEW seq \in 0 .. sent[k].total - 1, CompleteMessage(k, seq)
  PROVE  FreshInv'
<1> DEFINE dest == Opened(SweptAsm, k).dest
           e == Entry(k, seq)
<1>1. /\ k \in Users \X Mids /\ Opened(SweptAsm, k) \in Assemblies
      /\ Opened(SweptAsm, k).from = k[1]
      /\ WithChunk(SweptAsm, k, seq)
           \in [0 .. Opened(SweptAsm, k).total - 1 -> Pieces]
  BY OpenedTypes DEF CompleteMessage
<1>2. dest \in Users /\ Opened(SweptAsm, k).total \in 1 .. MaxChunks
  BY <1>1 DEF Assemblies
<1>3. e \in Entries /\ e.ts = now
  <2>1. WithChunk(SweptAsm, k, seq) \in Datas
    BY <1>1, <1>2 DEF Datas
  <2>2. QED
    BY <1>1, <2>1 DEF Entry, Entries, TypeOK
<1>4. /\ mailbox' = [Swept EXCEPT ![dest] = Newest(Append(Swept[dest], e), MaxMailbox)]
      /\ lastEvict' = SweptLast /\ now' = now
  BY DEF CompleteMessage, Enqueue
<1> HIDE DEF dest, e
<1>5. /\ Swept \in [Users -> Seq(Entries)] /\ MaxMailbox \in Nat
      /\ now \in Nat /\ SweptLast \in Nat /\ SweptLast <= now
  BY SweptTypes, SizesAssumption, TimesAssumption DEF TypeOK, Time
<1>6. ASSUME NEW u \in Users PROVE Fresh(mailbox'[u], SweptLast)
  <2>1. CASE u = dest
    <3> DEFINE s == Append(Swept[dest], e)
    <3>1. s \in Seq(Entries) /\ mailbox'[u] = Newest(s, MaxMailbox)
      BY <1>2, <1>3, <1>4, <1>5, <2>1, AppendProperties
    <3>2. Fresh(s, SweptLast)
      <4>1. Swept[dest] \in Seq(Entries) /\ Fresh(Swept[dest], SweptLast)
        BY <1>2, <1>5, SweptFresh
      <4>2. QED
        BY <1>3, <1>5, <4>1, FreshAppend
    <3> HIDE DEF s
    <3>3. PICK d \in 0 .. Len(s) : Rest(Newest(s, MaxMailbox), s, d)
      BY <1>5, <3>1, NewestIsRest
    <3>4. Newest(s, MaxMailbox) \in Seq(Entries) /\ d \in Nat
      BY <1>5, <3>1, NewestIsRest, LenProperties
    <3>5. QED
      BY <3>1, <3>2, <3>3, <3>4, FreshRest
  <2>2. CASE u # dest
    BY <1>2, <1>4, <1>5, <2>2, SweptFresh
  <2>3. QED
    BY <2>1, <2>2
<1>7. QED
  BY <1>4, <1>6 DEF FreshInv, Fresh

\* No poll hands out a message older than its TTL and the time between two
\* sweeps, however the queries that sweep come.
THEOREM ServesFresh == Spec => ServedFresh
<1>1. Init => FreshInv
  BY DEF Init, FreshInv, Fresh
<1>2. TypeOK /\ TypeOK' /\ FreshInv /\ [Next]_vars => FreshInv'
  <2> SUFFICES ASSUME TypeOK, TypeOK', FreshInv, [Next]_vars
               PROVE  FreshInv'
    OBVIOUS
  <2>1. ASSUME NEW k \in DOMAIN sent, NEW seq \in 0 .. sent[k].total - 1, HandleSend(k, seq)
        PROVE  FreshInv'
    <3>1. CASE CompleteMessage(k, seq)
      BY <3>1, CompleteStaysFresh
    <3>2. CASE ~CompleteMessage(k, seq)
      <4>1. SweepOnly \/ StoreChunk(k, seq)
        BY <2>1, <3>2 DEF HandleSend, RefuseChunk, AckDuplicate, RefuseConflict
      <4>2. now' = now /\ lastEvict' = SweptLast /\ mailbox' = Swept
        BY <2>1, <3>2, <4>1
           DEF HandleSend, RefuseChunk, AckDuplicate, RefuseConflict, StoreChunk, SweepOnly
      <4>3. ASSUME NEW u \in Users PROVE Fresh(mailbox'[u], SweptLast)
        BY <4>2, SweptFresh
      <4>4. QED
        BY <4>2, <4>3 DEF FreshInv, Fresh
    <3>3. QED
      BY <3>1, <3>2
  <2>2. ASSUME NEW u \in Users, PollEmpty(u) PROVE FreshInv'
    BY <2>2, SweepStaysFresh DEF PollEmpty
  <2>3. ASSUME NEW u \in Users, PollMessage(u) PROVE FreshInv'
    <3>1. /\ Swept \in [Users -> Seq(Entries)] /\ Swept[u] # <<>>
          /\ mailbox' = [Swept EXCEPT ![u] = Tail(Swept[u])]
          /\ lastEvict' = SweptLast /\ now' = now
      BY <2>3, SweptTypes DEF PollMessage
    <3>2. ASSUME NEW v \in Users PROVE \E d \in Nat : Rest(mailbox'[v], Swept[v], d)
      <4>1. CASE v = u
        <5> DEFINE s == Swept[u]
        <5>1. s \in Seq(Entries) /\ s # <<>> /\ mailbox'[v] = Tail(s)
          BY <3>1, <4>1
        <5> HIDE DEF s
        <5>2. /\ Len(Tail(s)) = Len(s) - 1 /\ Len(s) \in Nat \ {0}
              /\ \A i \in 1 .. Len(Tail(s)) : Tail(s)[i] = s[i + 1]
          BY <5>1, HeadTailProperties, LenProperties, EmptySeq
        <5>3. Rest(Tail(s), s, 1)
          BY <5>2 DEF Rest
        <5>4. QED
          BY <4>1, <5>1, <5>3 DEF s
      <4>2. CASE v # u
        <5>1. mailbox'[v] = Swept[v] /\ Len(Swept[v]) \in Nat
          BY <3>1, <4>2, LenProperties
        <5>2. Rest(Swept[v], Swept[v], 0)
          BY <5>1 DEF Rest
        <5>3. QED
          BY <5>1, <5>2
      <4>3. QED
        BY <4>1, <4>2
    <3>3. QED
      BY <3>1, <3>2, RestStaysFresh
  <2>4. CASE OtherQuery
    BY <2>4, SweepStaysFresh DEF OtherQuery
  <2>5. CASE Tick
    <3>1. now \in Nat /\ now' = now + 1 /\ UNCHANGED <<mailbox, lastEvict>>
      BY <2>5, TimesAssumption DEF Tick, relayVars, TypeOK, Time
    <3>2. ASSUME NEW u \in Users, NEW i \in DOMAIN mailbox[u]
          PROVE  mailbox[u][i].ts <= now + 1
      <4>1. mailbox[u][i].ts <= now /\ mailbox[u][i].ts \in Nat
        BY TimesOfBox DEF FreshInv, Fresh, TypeOK
      <4>2. QED
        BY <3>1, <4>1
    <3>3. QED
      BY <3>1, <3>2 DEF FreshInv, Fresh
  <2>6. CASE Restart
    BY <2>6 DEF Restart, FreshInv, Fresh
  <2>7. CASE (\E k \in Keys, to \in Users, total \in 1 .. MaxChunks + 1 :
                NewMessage(k, to, total)) \/ UNCHANGED vars
    <3>1. UNCHANGED <<now, mailbox, lastEvict>>
      BY <2>7 DEF NewMessage, vars, relayVars
    <3>2. QED
      BY <3>1 DEF FreshInv, Fresh
  <2>8. QED
    BY <2>1, <2>2, <2>3, <2>4, <2>5, <2>6, <2>7 DEF Next
<1>3. ASSUME TypeOK, FreshInv, NEW u \in Users, PollMessage(u)
      PROVE  now - Head(Swept[u]).ts < MailboxTTL + EvictInterval
  <2>1. Swept[u] \in Seq(Entries) /\ Swept[u] # <<>>
    BY <1>3, SweptTypes DEF PollMessage
  <2>2. Head(Swept[u]) = Swept[u][1] /\ 1 \in DOMAIN Swept[u]
    BY <2>1, HeadTailProperties, LenProperties, EmptySeq
  <2>3. QED
    BY <1>3, <2>2, SweptFresh
<1>4. TypeOK /\ FreshInv =>
        \A u \in Users :
          PollMessage(u) => now - Head(Swept[u]).ts < MailboxTTL + EvictInterval
  BY <1>3
<1>5. QED
  BY <1>1, <1>2, <1>4, TypeCorrect, PTL DEF Spec, ServedFresh
==============================================================================
