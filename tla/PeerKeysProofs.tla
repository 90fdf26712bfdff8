---------------------------- MODULE PeerKeysProofs -----------------------------
(***************************************************************************)
(* Theorems about the names at the relay and the keys of peers (Registry), *)
(* and about secure sessions (DMSessions), for every value of the          *)
(* constants: that no key seals two messages, that the key of a message    *)
(* that was read is gone, that no message is read twice, and that with one *)
(* handshake every message opens.                                          *)
(***************************************************************************)
EXTENDS DMSessions, Registry, ListProofs, WellFoundedInduction

------------------------------------------------------------------------------
(* The inductive invariant of KeysUnique *)

\* A chain that p sends on has even length if p began the handshake and odd length
\* if the other did, so that the two never share one. Its last agreement is of a
\* key pair that p has by now.
SendsOn(p, c) ==
  /\ Len(c) \in Nat \ {0, 1} /\ c = [i \in 1 .. Len(c) |-> c[i]]
  /\ c[1].from \in Peers
  /\ Len(c) % 2 = IF c[1].from = p THEN 0 ELSE 1
  /\ \A k \in c[Len(c)] : k[1] = p => k[2] \in 1 .. fresh[p]

IsSession(s) ==
  s = [root |-> s.root, dhs |-> s.dhs, dhr |-> s.dhr, send |-> s.send, recv |-> s.recv,
       sn |-> s.sn, rn |-> s.rn, pn |-> s.pn, skipped |-> s.skipped]

\* A session of p, in memory or on disk, is past all that p sent on its chain.
Ahead(p, s) ==
  s # NoSession =>
    /\ IsSession(s)
    /\ s.root = s.send /\ SendsOn(p, s.send)
    /\ s.dhs \in {p} \X (1 .. fresh[p])
    /\ s.sn \in Nat
    /\ \A m \in sent : m.from = p /\ m.key[1] = s.send => m.key[2] < s.sn

OfPeers(f) == f = [p \in Peers |-> f[p]]

KeysInv ==
  /\ OfPeers(session) /\ OfPeers(disk) /\ OfPeers(busy) /\ OfPeers(spk) /\ OfPeers(fresh)
  /\ \A p \in Peers :
       /\ fresh[p] \in Nat
       /\ spk[p] \in {p} \X Nat
       /\ \A bundle \in busy[p] : bundle.spk \in {Other(p)} \X Nat
       /\ Ahead(p, session[p]) /\ Ahead(p, disk[p])
  /\ \A m \in sent :
       /\ m.from \in Peers
       /\ m.dh \in {m.from} \X (1 .. fresh[m.from])
       /\ SendsOn(m.from, m.key[1]) /\ m.key[2] \in Nat
  /\ KeysUnique

------------------------------------------------------------------------------
(* The inductive invariants of KeysErased and ReadOnce *)

\* What a session still opens: the keys that it gives for messages it receives.
Opens(s, k) ==
  \/ \E i \in 1 .. Len(s.skipped) : s.skipped[i].key = k
  \/ k[1] = s.recv /\ k[2] >= s.rn

\* c is a chain of s, which has not turned since further than this.
Within(s, c) == c[1] = s.root[1] /\ Len(c) <= Len(s.root)

\* A key that s keeps is of a chain it has received on, and one it has passed there.
Keeps(s, e) ==
  /\ e.key = <<e.key[1], e.n>> /\ e.n \in Nat
  /\ Len(e.key[1]) \in Nat /\ Within(s, e.key[1])
  /\ e.key[1] = s.recv => e.n < s.rn

IsList(c) == Len(c) \in Nat /\ c = [i \in 1 .. Len(c) |-> c[i]]

\* No two keys were kept for one message.
Apart(x) ==
  \A i, j \in 1 .. Len(x) : <<x[i].dh, x[i].n>> = <<x[j].dh, x[j].n>> => i = j

\* A session keeps every key once.
KeepsWell(s) ==
  /\ IsSession(s) /\ IsList(s.root) /\ Len(s.root) > 0
  /\ s.rn \in Nat /\ s.sn \in Nat /\ s.pn \in Nat
  /\ s.recv # NoChain => Len(s.recv) \in Nat /\ Within(s, s.recv)
  /\ IsList(s.skipped) /\ Apart(s.skipped)
  /\ \A i \in 1 .. Len(s.skipped) : Keeps(s, s.skipped[i])
  /\ \A i, j \in 1 .. Len(s.skipped) : s.skipped[i].key = s.skipped[j].key => i = j

\* Every message has an id of its own, and only messages that were sent are read.
NumberInv ==
  /\ IsFiniteSet(sent) /\ \A p \in Peers : IsFiniteSet(busy[p])
  /\ \A p \in Peers :
       Cardinality(sent) + Cardinality(busy[p]) + Cardinality(busy[Other(p)]) <= MaxSent
  /\ \A m \in sent : m.id \in {m.from} \X (1 .. Cardinality({w \in sent : w.from = m.from}))
  /\ \A m, w \in sent : m.id = w.id => m = w
  /\ read \in [Ids -> Nat] /\ \A id \in Ids : read[id] > 0 => \E m \in sent : m.id = id
  /\ OfPeers(pool) /\ count \in [Logins -> Nat]

\* What sessions keep, and what is on the wire; the keys of a handshake are its own.
HandshakeInv ==
  /\ \A p \in Peers : \A s \in {session[p], disk[p]} \ {NoSession} : KeepsWell(s)
  /\ \A m \in sent :
       /\ m.n \in Nat /\ m.pn \in Nat
       /\ m.init =>
            LET x == m.key[1][1]
            IN  /\ m.eph \in {m.from} \X (1 .. fresh[m.from])
                /\ x.from = m.from /\ x.eph = m.eph /\ x.otpk = m.otpk
  /\ \A m, w \in sent : m.init /\ w.init /\ m.eph = w.eph => m = w

\* The handshake with secret x is one that p began, or that p has read.
Begun(p, x) ==
  IF x.from = p
  THEN x.eph \in {p} \X (1 .. fresh[p])
  ELSE \E h \in sent : h.init /\ h.from # p /\ h.eph = x.eph /\ read[h.id] > 0

\* The messages that p has read.
Heard(p) == {m \in sent : m.from # p /\ read[m.id] > 0}

\* s opens none of the messages that p has read, nor turns to one of their chains.
Clear(p, s) ==
  \A m \in Heard(p) :
    /\ ~Opens(s, m.key)
    /\ m.key[1][1] = s.root[1] => Len(m.key[1]) <= Len(s.root)

\* A session of p, in memory or on disk, is past all that p has read.
Past(p, s) == s # NoSession => Begun(p, s.root[1]) /\ Clear(p, s)

Erased ==
  /\ \A p \in Peers : Past(p, session[p]) /\ Past(p, disk[p])
  /\ \A m \in sent : read[m.id] > 0 => read[m.id] = 1 /\ Begun(Other(m.from), m.key[1][1])

EraseInv == ~HandshakeReplayed => Erased

\* Without a login, a handshake that was read has its one-time prekey no more.
SpentInv ==
  (\A e \in Logins : count[e] = 0) =>
    \A m \in sent : m.init /\ read[m.id] > 0 /\ m.otpk # NoKey =>
      read[m.id] = 1 /\ m.otpk \notin pool[Other(m.from)]

------------------------------------------------------------------------------
(* The inductive invariants of KeyStays and FolderIsCurrent *)

\* A bundle that was used is pinned, unless its pin was lost with the client's memory;
\* the file has no pin but those in memory.
PinsKept ==
  /\ \A x \in trusted : x \in unkept \/ (x[1] \in DOMAIN pins /\ pins[x[1]] = x[2])
  /\ \A n \in DOMAIN pinFile : n \in DOMAIN pins /\ pins[n] = pinFile[n]

\* A name is there once, and as long as the relay runs it is there if it was ever
\* pinned, with the bundle it was pinned to.
PinInv ==
  /\ \A e, f \in Holders : e.name = f.name => e = f
  /\ \A x \in owners : \E e \in Holders : e.pinned /\ e.name = x[1] /\ e.bundle = x[2]
  /\ PinsKept

\* A folder was registered with a nonce that is recorded, for the name that has it
\* and by who holds that name; those that were dropped were registered as well.
FolderInv ==
  /\ \A e \in Holders : e.folder # NoFolder =>
       e.folder \in redeemed /\ attempt[e.folder].name = e.name
  /\ dropped \subseteq redeemed \cup {NoFolder}
  /\ FolderIsCurrent

------------------------------------------------------------------------------
(* The table of names *)

NameEntries == [name : Names, bundle : Bundles, pinned : BOOLEAN, folder : Nat]

\* What is in a list after Append.
LEMMA RangeOfAppend ==
  ASSUME NEW S, NEW s \in Seq(S), NEW x \in S
  PROVE  Append(s, x) \in Seq(S) /\ Range(Append(s, x)) = Range(s) \cup {x}
<1> DEFINE r == Append(s, x)
           n == Len(s)
<1>1. /\ r \in Seq(S) /\ Len(r) = n + 1 /\ r[n + 1] = x
      /\ \A i \in 1 .. n : r[i] = s[i]
  BY AppendProperties
<1>2. n \in Nat /\ DOMAIN s = 1 .. n /\ DOMAIN r = 1 .. (n + 1)
  BY <1>1, LenProperties
<1> HIDE DEF r, n
<1>3. DOMAIN r = DOMAIN s \cup {n + 1}
  BY <1>2
<1>4. Range(r) = Range(s) \cup {x}
  BY <1>1, <1>2, <1>3 DEF Range
<1>5. QED
  BY <1>1, <1>4 DEF r

\* What is left when entries go, to make room or for a new one of the same name.
LEMMA FewerNames ==
  ASSUME names \in Seq(NameEntries), NEW n
  PROVE  /\ AllBut(n) \in Seq(NameEntries)
         /\ Range(AllBut(n)) = {e \in Holders : e.name # n}
         /\ \A rest \in WithRoom :
              /\ rest \in Seq(NameEntries) /\ Range(rest) \subseteq Holders
              /\ \A e \in Holders : e.pinned => e \in Range(rest)
<1>1. AllBut(n) \in Seq(NameEntries)
  BY OnlyProperties DEF AllBut
<1>2. Range(AllBut(n)) = Holders \cap (Holders \ EntryOf(n))
  BY OnlyElements DEF AllBut, Holders
<1>3. Range(AllBut(n)) = {e \in Holders : e.name # n}
  BY <1>2 DEF EntryOf
<1>4. ASSUME NEW rest \in WithRoom
      PROVE  /\ rest \in Seq(NameEntries) /\ Range(rest) \subseteq Holders
             /\ \A e \in Holders : e.pinned => e \in Range(rest)
  <2>1. CASE rest = names
    BY <2>1 DEF Holders
  <2>2. CASE Removable # <<>> /\ rest = Only(names, Holders \ {Head(Removable)})
    <3>1. Removable \in Seq(NameEntries) /\ Range(Removable) = Holders \cap {e \in Holders : ~e.pinned}
      BY OnlyProperties, OnlyElements DEF Removable, Holders
    <3>2. Head(Removable) \in Range(Removable)
      <4>1. Head(Removable) = Removable[1] /\ Len(Removable) \in Nat /\ Len(Removable) # 0
        BY <2>2, <3>1, HeadTailProperties, EmptySeq, LenProperties
      <4>2. 1 \in DOMAIN Removable
        BY <3>1, <4>1, LenProperties
      <4>3. QED
        BY <4>1, <4>2 DEF Range
    <3>3. rest \in Seq(NameEntries) /\ Range(rest) = Holders \cap (Holders \ {Head(Removable)})
      BY <2>2, OnlyProperties, OnlyElements DEF Holders
    <3>4. QED
      BY <3>1, <3>2, <3>3
  <2>3. QED
    BY <2>1, <2>2 DEF WithRoom
<1>5. QED
  BY <1>1, <1>3, <1>4

\* The entry that a registration makes, with those that it leaves.
Registration(n, bundle, pinned) ==
  [name |-> n, bundle |-> bundle, pinned |-> pinned, folder |-> NoFolder]

Registers(n, bundle, signed, pinned, rest) ==
  /\ pinned <=> signed /\ \A e \in EntryOf(n) : e.bundle = bundle
  /\ names' \in Seq(NameEntries)
  /\ rest \subseteq {e \in Holders : e.name # n}
  /\ Holders' = rest \cup {Registration(n, bundle, pinned)}
  /\ \A e \in Holders : e.name # n /\ e.pinned => e \in rest
  /\ owners' \subseteq owners \cup {<<n, bundle>>}
  /\ ~pinned => owners' = owners

LEMMA Registered ==
  ASSUME RGTypeOK, NEW n \in Names, NEW bundle \in Bundles, NEW signed \in BOOLEAN,
         RegisterName(n, bundle, signed)
  PROVE  \E pinned \in BOOLEAN, rest \in SUBSET Holders :
            Registers(n, bundle, signed, pinned, rest)
<1> DEFINE known == \A e \in EntryOf(n) : e.bundle = bundle
           new == Registration(n, bundle, signed /\ known)
           old == EntryOf(n)
<1>1. names \in Seq(NameEntries)
  BY DEF RGTypeOK, NameEntries
<1>2. \E rest \in IF old = {} THEN WithRoom ELSE {AllBut(n)} : names' = Append(rest, new)
  BY DEF RegisterName, Registration
<1>3. /\ owners' \subseteq owners \cup {<<n, bundle>>}
      /\ ~(signed /\ known) => owners' = owners
  BY DEF RegisterName
<1>4. PICK pinned \in BOOLEAN : (pinned <=> signed /\ known) /\ pinned = (signed /\ known)
  OBVIOUS
<1>5. new = Registration(n, bundle, pinned)
  BY <1>4
<1>6. new \in NameEntries
  BY <1>5 DEF NameEntries, NoFolder, Registration
<1> HIDE DEF new
<1>7. PICK rest \in IF old = {} THEN WithRoom ELSE {AllBut(n)} : names' = Append(rest, new)
  BY <1>2
<1>8. /\ rest \in Seq(NameEntries)
      /\ Range(rest) \subseteq {e \in Holders : e.name # n}
      /\ \A e \in Holders : e.name # n /\ e.pinned => e \in Range(rest)
  <2>1. CASE old = {}
    BY <1>1, <1>7, <2>1, FewerNames DEF EntryOf
  <2>2. CASE old # {}
    BY <1>1, <1>7, <2>2, FewerNames
  <2>3. QED
    BY <2>1, <2>2
<1>9. names' \in Seq(NameEntries) /\ Holders' = Range(rest) \cup {Registration(n, bundle, pinned)}
  BY <1>5, <1>6, <1>7, <1>8, RangeOfAppend DEF Holders
<1>10. Registers(n, bundle, signed, pinned, Range(rest)) /\ Range(rest) \in SUBSET Holders
  BY <1>3, <1>4, <1>8, <1>9 DEF Registers
<1>11. QED
  BY <1>10

\* One entry of the table is changed in place.
LEMMA EntryChanged ==
  ASSUME names \in Seq(NameEntries), NEW e \in Holders, NEW f \in NameEntries,
         names' = [i \in DOMAIN names |-> IF names[i] = e THEN f ELSE names[i]]
  PROVE  names' \in Seq(NameEntries) /\ Holders' = (Holders \ {e}) \cup {f}
<1>1. /\ Len(names) \in Nat /\ DOMAIN names = 1 .. Len(names)
      /\ \A i \in DOMAIN names : names[i] \in NameEntries
  BY LenProperties
<1>2. names' \in Seq(NameEntries) /\ DOMAIN names' = DOMAIN names
  BY <1>1, IsASeq
<1>3. PICK i \in DOMAIN names : names[i] = e
  BY DEF Holders, Range
<1>4. names'[i] = f
  BY <1>3
<1>5. Holders' = (Holders \ {e}) \cup {f}
  BY <1>2, <1>3, <1>4 DEF Holders, Range
<1>6. QED
  BY <1>2, <1>5

\* The last chunk of a folder's key is accepted, or kept.
LEMMA LastChunkCases ==
  ASSUME RGTypeOK, NEW k \in DOMAIN attempt, LastChunk(k)
  PROVE  LET n == attempt[k].name
         IN  \/ \E e \in EntryOf(n) :
                  /\ e \in NameEntries /\ names' \in Seq(NameEntries)
                  /\ e.bundle.who = attempt[k].who /\ k \notin redeemed
                  /\ Holders' = (Holders \ {e}) \cup {[e EXCEPT !.folder = k]}
                  /\ dropped' = dropped \cup ({e.folder} \ {k})
                  /\ redeemed' = redeemed \cup {k}
                  /\ halves' = [m \in DOMAIN halves \ {n} |-> halves[m]]
             \/ /\ UNCHANGED <<names, dropped, redeemed>>
                /\ \E chunks \in SUBSET ({0, 1} \X DOMAIN attempt) : halves' = Bind(halves, n, chunks)
<1> DEFINE n == attempt[k].name
           had == IF n \in DOMAIN halves THEN halves[n] ELSE {}
           chunks == {c \in had : c[1] = 0} \cup {<<1, k>>}
<1>1. names \in Seq(NameEntries) /\ Holders \subseteq NameEntries /\ k \in Nat
  <2>1. names \in Seq(NameEntries)
    BY DEF RGTypeOK, NameEntries
  <2>2. k \in Nat
    BY LenProperties DEF RGTypeOK
  <2>3. Holders \subseteq NameEntries
    BY <2>1, LenProperties DEF Holders, Range
  <2>4. QED
    BY <2>1, <2>2, <2>3
<1>2. chunks \in SUBSET ({0, 1} \X DOMAIN attempt)
  BY DEF RGTypeOK
<1>3. PICK e \in EntryOf(n) :
        IF Accepts(e, k, chunks)
        THEN /\ names' = [i \in DOMAIN names |->
                            IF names[i] = e THEN [e EXCEPT !.folder = k] ELSE names[i]]
             /\ dropped' = dropped \cup ({e.folder} \ {k})
             /\ halves' = [m \in DOMAIN halves \ {n} |-> halves[m]]
             /\ redeemed' = redeemed \cup {k}
        ELSE /\ halves' = Bind(halves, n, chunks)
             /\ UNCHANGED <<names, dropped, redeemed>>
  BY DEF LastChunk
<1> HIDE DEF chunks
<1>4. CASE Accepts(e, k, chunks)
  <2>1. e \in Holders /\ e \in NameEntries
    BY <1>1 DEF EntryOf
  <2>2. [e EXCEPT !.folder = k] \in NameEntries
    BY <1>1, <2>1 DEF NameEntries
  <2>3. names' = [i \in DOMAIN names |->
                    IF names[i] = e THEN [e EXCEPT !.folder = k] ELSE names[i]]
    BY <1>3, <1>4
  <2>4. names' \in Seq(NameEntries) /\ Holders' = (Holders \ {e}) \cup {[e EXCEPT !.folder = k]}
    BY <1>1, <2>1, <2>2, <2>3, EntryChanged
  <2>5. e.bundle.who = attempt[k].who /\ k \notin redeemed
    BY <1>4 DEF Accepts, Redeemable
  <2>6. QED
    BY <1>3, <1>4, <2>1, <2>4, <2>5
<1>5. CASE ~Accepts(e, k, chunks)
  BY <1>2, <1>3, <1>5
<1>6. QED
  BY <1>4, <1>5

\* The attempts only become more, and of each only the progress changes.
LEMMA AttemptsStay ==
  ASSUME RGTypeOK, [RGNext]_rgVars
  PROVE  /\ attempt' \in Seq([name : Names, who : Persons, at : {"first", "last"}])
         /\ \A k \in DOMAIN attempt :
              /\ k \in DOMAIN attempt' /\ k # NoFolder
              /\ attempt'[k].name = attempt[k].name /\ attempt'[k].who = attempt[k].who
<1> DEFINE A == [name : Names, who : Persons, at : {"first", "last"}]
<1>1. /\ attempt \in Seq(A) /\ Len(attempt) \in Nat /\ DOMAIN attempt = 1 .. Len(attempt)
      /\ \A k \in DOMAIN attempt : attempt[k] \in A
  BY LenProperties DEF RGTypeOK
<1>2. \A k \in DOMAIN attempt : k # NoFolder
  BY <1>1 DEF NoFolder
<1>3. CASE UNCHANGED attempt
  BY <1>1, <1>2, <1>3
<1>4. ASSUME NEW n \in Names, NEW p \in Persons, StartAttempt(n, p)
      PROVE  /\ attempt' \in Seq(A)
             /\ \A k \in DOMAIN attempt : k \in DOMAIN attempt' /\ attempt'[k] = attempt[k]
  <2> DEFINE new == [name |-> n, who |-> p, at |-> "first"]
  <2>1. new \in A /\ attempt' = Append(attempt, new)
    BY <1>4 DEF StartAttempt
  <2> HIDE DEF new, A
  <2>2. /\ attempt' \in Seq(A) /\ Len(attempt') = Len(attempt) + 1
        /\ \A i \in 1 .. Len(attempt) : attempt'[i] = attempt[i]
    BY <1>1, <2>1, AppendProperties
  <2>3. DOMAIN attempt' = 1 .. (Len(attempt) + 1)
    BY <2>2, LenProperties
  <2>4. QED
    BY <1>1, <2>2, <2>3
<1>5. ASSUME NEW j \in DOMAIN attempt, NEW heard \in BOOLEAN, FirstChunk(j, heard)
      PROVE  /\ attempt' \in Seq(A)
             /\ \A k \in DOMAIN attempt :
                  /\ k \in DOMAIN attempt'
                  /\ attempt'[k].name = attempt[k].name /\ attempt'[k].who = attempt[k].who
  <2> DEFINE new == [attempt[j] EXCEPT !.at = "last"]
  <2>1. new \in A /\ new.name = attempt[j].name /\ new.who = attempt[j].who
    BY <1>1
  <2>2. attempt' = attempt \/ attempt' = [attempt EXCEPT ![j] = new]
    BY <1>5 DEF FirstChunk
  <2> HIDE DEF new, A
  <2>3. attempt' = attempt \/ (attempt' = [attempt EXCEPT ![j] = new] /\ attempt' \in Seq(A))
    BY <1>1, <2>1, <2>2, ExceptSeq
  <2>4. QED
    BY <1>1, <2>1, <2>3
<1>6. QED
  <2>1. ASSUME NEW n \in Names, LookUp(n) \/ SweepHalves(n) PROVE UNCHANGED attempt
    BY <2>1 DEF LookUp, SweepHalves, Mishap, diskVars
  <2>2. ASSUME NEW n \in Names, NEW p \in Persons,
               \E full, signed \in BOOLEAN : RegisterName(n, [who |-> p, full |-> full], signed)
        PROVE  UNCHANGED attempt
    BY <2>2 DEF RegisterName, diskVars
  <2>3. ASSUME NEW k \in DOMAIN attempt, LastChunk(k) \/ Age(k) PROVE UNCHANGED attempt
    BY <2>3 DEF LastChunk, Age, Mishap
  <2>4. ClientRestart \/ FetchRegistry \/ RelayRestart \/ UNCHANGED rgVars => UNCHANGED attempt
    BY DEF ClientRestart, FetchRegistry, RelayRestart, Mishap, diskVars, rgVars
  <2>5. QED
    BY <1>2, <1>3, <1>4, <1>5, <2>1, <2>2, <2>3, <2>4 DEF RGNext

------------------------------------------------------------------------------
(* Type correctness *)

LEMMA RegistryTypeStep ==
  ASSUME RGTypeOK, [RGNext]_rgVars
  PROVE  RGTypeOK'
<1> DEFINE D == DOMAIN attempt
           F == D \cup {NoFolder}
           Halves(h) == DOMAIN h \subseteq Names /\ \A n \in DOMAIN h : h[n] \subseteq {0, 1} \X D
           Keys(f) == DOMAIN f \subseteq Names /\ \A n \in DOMAIN f : f[n] \in Bundles
<1>1. /\ names \in Seq(NameEntries) /\ Holders \subseteq NameEntries
      /\ attempt' \in Seq([name : Names, who : Persons, at : {"first", "last"}])
      /\ D \subseteq DOMAIN attempt' /\ D \subseteq Nat
      /\ \A k \in D : attempt[k].name \in Names
  <2>1. names \in Seq(NameEntries)
    BY DEF RGTypeOK, NameEntries
  <2>2. Holders \subseteq NameEntries
    BY <2>1, LenProperties DEF Holders, Range
  <2>3. \A k \in D : attempt[k].name \in Names /\ k \in Nat
    <3>1. attempt \in Seq([name : Names, who : Persons, at : {"first", "last"}])
      BY DEF RGTypeOK
    <3>2. /\ D = 1 .. Len(attempt) /\ Len(attempt) \in Nat
          /\ \A k \in D : attempt[k] \in [name : Names, who : Persons, at : {"first", "last"}]
      BY <3>1, LenProperties, ZenonT(40)
    <3>3. QED
      BY <3>2
  <2>4. QED
    BY <2>1, <2>2, <2>3, AttemptsStay
<1>2. /\ \A e \in Holders : e.folder \in F
      /\ Halves(halves)
      /\ redeemed \subseteq D /\ aged \subseteq D /\ folders \subseteq Names \X D
      /\ Keys(peers) /\ Keys(pins) /\ Keys(pinFile)
      /\ registered \in 0 .. MaxRegistered /\ registryMishaps \in 0 .. MaxRegistryMishaps
      /\ owners \subseteq Names \X Bundles
      /\ trusted \subseteq Names \X Bundles /\ unkept \subseteq Names \X Bundles
      /\ dropped \subseteq F
  BY DEF RGTypeOK
<1>3. ASSUME names' \in Seq(NameEntries), \A e \in Holders' : e.folder \in F, Halves(halves'),
             redeemed' \subseteq D, aged' \subseteq D, folders' \subseteq Names \X D,
             Keys(peers'), Keys(pins'), Keys(pinFile'),
             registered' \in 0 .. MaxRegistered, registryMishaps' \in 0 .. MaxRegistryMishaps,
             owners' \subseteq Names \X Bundles,
             trusted' \subseteq Names \X Bundles, unkept' \subseteq Names \X Bundles,
             dropped' \subseteq F
      PROVE  RGTypeOK'
  BY <1>1, <1>3 DEF RGTypeOK, NameEntries
<1>4. \A n \in Names : Keys(peers) => \A b \in Bundles : Keys(Bind(peers, n, b)) /\ Keys(Bind(pins, n, b))
  BY <1>2 DEF Bind
<1>5. \A n \in Names : \A c \in SUBSET ({0, 1} \X D) : Halves(Bind(halves, n, c))
  BY <1>2 DEF Bind
<1>6. \A n : Halves([m \in DOMAIN halves \ {n} |-> halves[m]])
  BY <1>2
<1> HIDE DEF D, F, Halves, Keys
<1>7. UNCHANGED names => names' \in Seq(NameEntries) /\ \A e \in Holders' : e.folder \in F
  BY <1>1, <1>2 DEF Holders
<1>8. ASSUME NEW n \in Names, NEW bundle \in Bundles, NEW signed \in BOOLEAN,
             RegisterName(n, bundle, signed)
      PROVE  RGTypeOK'
  <2>1. PICK pinned \in BOOLEAN, rest \in SUBSET Holders :
            Registers(n, bundle, signed, pinned, rest)
    BY <1>8, Registered
  <2>2. \A e \in Holders' : e.folder \in F
    BY <1>2, <2>1 DEF Registers, Registration, F
  <2>3. registered' \in 0 .. MaxRegistered
    BY <1>2, <1>8, RegistryAssumption DEF RegisterName
  <2>4. dropped' \subseteq F
    BY <1>2, <1>8 DEF RegisterName, EntryOf
  <2>5. UNCHANGED <<halves, redeemed, attempt, aged, folders, peers, pins, pinFile, trusted, unkept, registryMishaps>>
    BY <1>8 DEF RegisterName, diskVars, clientVars
  <2>6. owners' \subseteq Names \X Bundles /\ names' \in Seq(NameEntries)
    BY <1>2, <2>1 DEF Registers
  <2>7. QED
    BY <1>2, <1>3, <2>2, <2>3, <2>4, <2>5, <2>6
<1>9. ASSUME NEW n \in Names, NEW p \in Persons, StartAttempt(n, p) PROVE RGTypeOK'
  <2>1. UNCHANGED <<names, owners, dropped, halves, redeemed, aged, folders, peers, pins, pinFile, trusted, unkept,
                    registered, registryMishaps>>
    BY <1>9 DEF StartAttempt, namesVars, clientVars
  <2>2. QED
    BY <1>2, <1>3, <1>7, <2>1
<1>10. ASSUME NEW n \in Names, LookUp(n) PROVE RGTypeOK'
  <2>1. PICK e \in EntryOf(n) :
          /\ peers' = Bind(peers, n, Trusted(n, e.bundle))
          /\ pins' \in {pins, Bind(pins, n, e.bundle)}
          /\ pinFile' \in {pins', pinFile, <<>>}
          /\ trusted' = trusted \cup {<<n, Trusted(n, e.bundle)>>}
    BY <1>10 DEF LookUp, SavePins
  <2>2. e.bundle \in Bundles /\ Trusted(n, e.bundle) \in Bundles
    BY <1>1, <1>2 DEF EntryOf, NameEntries, Trusted, Keys
  <2>3. Keys(<<>>)
    BY DEF Keys
  <2>6. Keys(peers') /\ Keys(pins') /\ Keys(pinFile') /\ trusted' \subseteq Names \X Bundles
    BY <1>2, <1>4, <2>1, <2>2, <2>3
  <2>4. UNCHANGED <<names, owners, dropped, halves, redeemed, attempt, aged, folders, unkept,
                    registered, registryMishaps>>
    BY <1>10 DEF LookUp, namesVars, diskVars
  <2>5. QED
    BY <1>2, <1>3, <1>7, <2>4, <2>6
<1>11. CASE ClientRestart
  <2>1. UNCHANGED <<names, owners, dropped, halves, redeemed, attempt, aged, folders, pinFile,
                    trusted, registered, registryMishaps>>
    BY <1>11 DEF ClientRestart, namesVars, diskVars
  <2>2. Keys(peers') /\ Keys(pins') /\ unkept' \subseteq Names \X Bundles
    BY <1>2, <1>11 DEF ClientRestart, Keys
  <2>3. QED
    BY <1>2, <1>3, <1>7, <2>1, <2>2
<1>12. ASSUME NEW k \in D, NEW heard \in BOOLEAN, FirstChunk(k, heard) PROVE RGTypeOK'
  <2>1. halves' = Bind(halves, attempt[k].name, {<<0, k>>})
    BY <1>12 DEF FirstChunk
  <2>2. UNCHANGED <<names, owners, dropped, redeemed, aged, folders, peers, pins, pinFile, trusted, unkept,
                    registered, registryMishaps>>
    BY <1>12 DEF FirstChunk, namesVars, clientVars
  <2>3. Halves(halves')
    BY <1>1, <1>5, <2>1
  <2>4. QED
    BY <1>2, <1>3, <1>7, <2>2, <2>3
<1>13. ASSUME NEW k \in D, LastChunk(k) PROVE RGTypeOK'
  <2> DEFINE n == attempt[k].name
  <2>1. UNCHANGED <<attempt, aged, folders, owners, peers, pins, pinFile, trusted, unkept, registered, registryMishaps>>
    BY <1>13 DEF LastChunk, clientVars
  <2>2. CASE \E e \in EntryOf(n) :
               /\ e \in NameEntries /\ names' \in Seq(NameEntries)
               /\ Holders' = (Holders \ {e}) \cup {[e EXCEPT !.folder = k]}
               /\ dropped' = dropped \cup ({e.folder} \ {k})
               /\ redeemed' = redeemed \cup {k}
               /\ halves' = [m \in DOMAIN halves \ {n} |-> halves[m]]
    <3>1. PICK e \in EntryOf(n) :
               /\ e \in NameEntries /\ names' \in Seq(NameEntries)
               /\ Holders' = (Holders \ {e}) \cup {[e EXCEPT !.folder = k]}
               /\ dropped' = dropped \cup ({e.folder} \ {k})
               /\ redeemed' = redeemed \cup {k}
               /\ halves' = [m \in DOMAIN halves \ {n} |-> halves[m]]
      BY <2>2
    <3>2. e.folder \in F /\ [e EXCEPT !.folder = k].folder = k /\ k \in F
      BY <1>2, <3>1 DEF EntryOf, NameEntries, F
    <3>3. (\A f \in Holders' : f.folder \in F) /\ dropped' \subseteq F /\ redeemed' \subseteq D
      BY <1>2, <3>1, <3>2
    <3>4. Halves(halves')
      BY <1>6, <3>1
    <3>5. QED
      BY <1>2, <1>3, <2>1, <3>1, <3>3, <3>4
  <2>3. CASE /\ UNCHANGED <<names, dropped, redeemed>>
             /\ \E chunks \in SUBSET ({0, 1} \X D) : halves' = Bind(halves, n, chunks)
    <3>1. Halves(halves')
      BY <1>1, <1>5, <2>3
    <3>2. QED
      BY <1>2, <1>3, <1>7, <2>1, <2>3, <3>1
  <2>4. QED
    BY <1>13, <2>2, <2>3, LastChunkCases DEF D
<1>14. CASE FetchRegistry
  <2>1. UNCHANGED <<names, owners, dropped, halves, redeemed, attempt, aged, peers, pins, pinFile, trusted, unkept,
                    registered, registryMishaps>>
    BY <1>14 DEF FetchRegistry, namesVars, clientVars
  <2>2. \A e \in Holders : e.folder # NoFolder => e.folder \in D /\ e.name \in Names
    BY <1>1, <1>2 DEF F, NameEntries
  <2>3. folders' \subseteq Names \X D
    BY <1>14, <2>2 DEF FetchRegistry
  <2>4. QED
    BY <1>2, <1>3, <1>7, <2>1, <2>3
<1>15. ASSUME Mishap
       PROVE  /\ registryMishaps' \in 0 .. MaxRegistryMishaps
              /\ UNCHANGED <<attempt, folders, peers, pins, pinFile, trusted, unkept, registered>>
  BY <1>2, <1>15, RegistryAssumption DEF Mishap, clientVars
<1>16. ASSUME NEW n \in Names, SweepHalves(n) PROVE RGTypeOK'
  <2>1. Mishap /\ Halves(halves') /\ UNCHANGED <<names, owners, dropped, redeemed, aged>>
    BY <1>6, <1>16 DEF SweepHalves, namesVars
  <2>2. QED
    BY <1>2, <1>3, <1>7, <1>15, <2>1
<1>17. ASSUME NEW k \in D, Age(k) PROVE RGTypeOK'
  <2>1. Mishap /\ aged' \subseteq D /\ UNCHANGED <<names, owners, dropped, halves, redeemed>>
    BY <1>2, <1>17 DEF Age, namesVars
  <2>2. QED
    BY <1>2, <1>3, <1>7, <1>15, <2>1
<1>18. CASE RelayRestart
  <2>1. Mishap /\ names' = <<>> /\ halves' = <<>> /\ redeemed' = {} /\ owners' = {} /\ dropped' = {} /\ aged' = aged
    BY <1>18 DEF RelayRestart
  <2>2. names' \in Seq(NameEntries) /\ Holders' = {} /\ Halves(halves')
    BY <2>1 DEF Holders, Range, Halves
  <2>3. QED
    BY <1>2, <1>3, <1>15, <2>1, <2>2
<1>19. CASE UNCHANGED rgVars
  BY <1>2, <1>3, <1>7, <1>19 DEF rgVars, namesVars, diskVars, clientVars
<1>20. QED
  <2>1. ASSUME NEW n \in Names, NEW p \in Persons, NEW full \in BOOLEAN, NEW signed \in BOOLEAN,
               RegisterName(n, [who |-> p, full |-> full], signed)
        PROVE  RGTypeOK'
    BY <1>8, <2>1 DEF Bundles
  <2>2. QED
    BY <1>9, <1>10, <1>11, <1>12, <1>13, <1>14, <1>16, <1>17, <1>18, <1>19, <2>1 DEF RGNext, D

------------------------------------------------------------------------------
(* KeyStays *)

\* Steps of the folders, and all others that leave the names, owners and pins.
LEMMA NamesStay ==
  ASSUME [RGNext]_rgVars
  PROVE  \/ \E n \in Names, bundle \in Bundles, signed \in BOOLEAN : RegisterName(n, bundle, signed)
         \/ \E n \in Names : LookUp(n)
         \/ \E k \in DOMAIN attempt : LastChunk(k)
         \/ RelayRestart
         \/ ClientRestart
         \/ UNCHANGED <<names, owners, dropped, redeemed, pins, pinFile, trusted, unkept>>
<1>1. ASSUME NEW n \in Names, NEW p \in Persons, NEW full \in BOOLEAN, NEW signed \in BOOLEAN,
             RegisterName(n, [who |-> p, full |-> full], signed)
      PROVE  \E m \in Names, bundle \in Bundles, s \in BOOLEAN : RegisterName(m, bundle, s)
  <2>1. [who |-> p, full |-> full] \in Bundles
    BY DEF Bundles
  <2>2. QED
    BY <1>1, <2>1
<1>2. ASSUME NEW n \in Names, NEW p \in Persons, StartAttempt(n, p)
      PROVE  UNCHANGED <<names, owners, dropped, redeemed, pins, pinFile, trusted, unkept>>
  BY <1>2 DEF StartAttempt, namesVars, clientVars
<1>3. ASSUME NEW k \in DOMAIN attempt, NEW heard \in BOOLEAN, FirstChunk(k, heard)
      PROVE  UNCHANGED <<names, owners, dropped, redeemed, pins, pinFile, trusted, unkept>>
  BY <1>3 DEF FirstChunk, namesVars, clientVars
<1>4. ASSUME NEW n \in Names, SweepHalves(n)
      PROVE  UNCHANGED <<names, owners, dropped, redeemed, pins, pinFile, trusted, unkept>>
  BY <1>4 DEF SweepHalves, Mishap, namesVars, clientVars
<1>5. ASSUME NEW k \in DOMAIN attempt, Age(k)
      PROVE  UNCHANGED <<names, owners, dropped, redeemed, pins, pinFile, trusted, unkept>>
  BY <1>5 DEF Age, Mishap, namesVars, clientVars
<1>6. FetchRegistry \/ UNCHANGED rgVars
        => UNCHANGED <<names, owners, dropped, redeemed, pins, pinFile, trusted, unkept>>
  BY DEF FetchRegistry, rgVars, namesVars, diskVars, clientVars
<1>7. QED
  BY <1>1, <1>2, <1>3, <1>4, <1>5, <1>6 DEF RGNext

\* A pinned name is replaced only by its bundle, and never given up.
LEMMA PinStep ==
  ASSUME RGTypeOK, PinInv, [RGNext]_rgVars
  PROVE  PinInv'
<1>1. /\ \A e, f \in Holders : e.name = f.name => e = f
      /\ \A x \in owners : \E e \in Holders : e.pinned /\ e.name = x[1] /\ e.bundle = x[2]
      /\ PinsKept
  BY DEF PinInv
<1>8. UNCHANGED <<pins, pinFile, trusted, unkept>> => PinsKept'
  BY <1>1 DEF PinsKept
<1>2. ASSUME NEW n \in Names, NEW bundle \in Bundles, NEW signed \in BOOLEAN,
             RegisterName(n, bundle, signed)
      PROVE  PinInv'
  <2>1. PICK pinned \in BOOLEAN, rest \in SUBSET Holders :
            Registers(n, bundle, signed, pinned, rest)
    BY <1>2, Registered
  <2> DEFINE new == Registration(n, bundle, pinned)
  <2>2. new.name = n /\ new.bundle = bundle /\ new.pinned = pinned
    BY DEF Registration
  <2>3. Holders' = rest \cup {new} /\ rest \subseteq {e \in Holders : e.name # n}
    BY <2>1 DEF Registers
  <2> HIDE DEF new
  <2>4. \A e, f \in Holders' : e.name = f.name => e = f
    BY <1>1, <2>2, <2>3
  <2>5. ASSUME NEW x \in owners'
        PROVE  \E e \in Holders' : e.pinned /\ e.name = x[1] /\ e.bundle = x[2]
    <3>1. CASE x \notin owners
      BY <2>1, <2>2, <2>3, <3>1 DEF Registers
    <3>2. CASE x \in owners
      <4>1. PICK e \in Holders : e.pinned /\ e.name = x[1] /\ e.bundle = x[2]
        BY <1>1, <3>2
      <4>2. CASE e.name # n
        BY <2>1, <2>3, <4>1, <4>2 DEF Registers
      <4>3. CASE e.name = n
        <5>1. signed /\ e.bundle = bundle /\ e \in EntryOf(n)
          BY <1>2, <4>1, <4>3 DEF RegisterName, MayReplace, EntryOf
        <5>2. \A f \in EntryOf(n) : f = e
          BY <1>1, <4>3 DEF EntryOf
        <5>3. pinned
          BY <2>1, <5>1, <5>2 DEF Registers
        <5>4. QED
          BY <2>2, <2>3, <4>1, <4>3, <5>1, <5>3
      <4>4. QED
        BY <4>2, <4>3
    <3>3. QED
      BY <3>1, <3>2
  <2>6. UNCHANGED <<pins, pinFile, trusted, unkept>>
    BY <1>2 DEF RegisterName, clientVars
  <2>7. QED
    BY <1>8, <2>4, <2>5, <2>6 DEF PinInv
<1>3. ASSUME NEW n \in Names, LookUp(n) PROVE PinInv'
  <2>1. PICK e \in EntryOf(n) :
          /\ IF n \in DOMAIN pins
             THEN UNCHANGED <<pins, pinFile>>
             ELSE pins' = Bind(pins, n, e.bundle) /\ SavePins
          /\ trusted' = trusted \cup {<<n, Trusted(n, e.bundle)>>}
          /\ unkept' = unkept
    BY <1>3 DEF LookUp
  <2>2. UNCHANGED <<names, owners>>
    BY <1>3 DEF LookUp, namesVars
  <2>3. CASE n \in DOMAIN pins
    BY <1>1, <2>1, <2>2, <2>3 DEF PinInv, PinsKept, Trusted, Holders
  <2>4. CASE n \notin DOMAIN pins
    <3>1. /\ DOMAIN pins' = DOMAIN pins \cup {n}
          /\ pins'[n] = e.bundle /\ \A m \in DOMAIN pins : pins'[m] = pins[m]
      BY <2>1, <2>4 DEF Bind
    <3>2. \A x \in trusted' : x \in unkept' \/ (x[1] \in DOMAIN pins' /\ pins'[x[1]] = x[2])
      BY <1>1, <2>1, <2>4, <3>1 DEF PinsKept, Trusted
    <3>3. \A m \in DOMAIN pinFile' : m \in DOMAIN pins' /\ pins'[m] = pinFile'[m]
      BY <1>1, <2>1, <2>4, <3>1 DEF PinsKept, SavePins
    <3>4. QED
      BY <1>1, <2>2, <3>2, <3>3 DEF PinInv, PinsKept, Holders
  <2>5. QED
    BY <2>3, <2>4
<1>9. CASE ClientRestart
  <2>1. /\ pins' = pinFile /\ UNCHANGED <<pinFile, trusted, names, owners>>
        /\ unkept' = unkept \cup {<<n, pins[n]>> : n \in DOMAIN pins \ DOMAIN pinFile}
    BY <1>9 DEF ClientRestart, namesVars
  <2>2. ASSUME NEW x \in trusted, x \notin unkept'
        PROVE  x[1] \in DOMAIN pinFile /\ pinFile[x[1]] = x[2]
    <3>1. x[1] \in DOMAIN pins /\ pins[x[1]] = x[2] /\ x = <<x[1], x[2]>>
      BY <1>1, <2>1, <2>2 DEF PinsKept, RGTypeOK
    <3>2. x[1] \in DOMAIN pinFile
      BY <2>1, <2>2, <3>1
    <3>3. QED
      BY <1>1, <3>1, <3>2 DEF PinsKept
  <2>3. PinsKept'
    BY <2>1, <2>2 DEF PinsKept
  <2>4. QED
    BY <1>1, <2>1, <2>3 DEF PinInv, Holders
<1>4. ASSUME NEW k \in DOMAIN attempt, LastChunk(k) PROVE PinInv'
  <2> DEFINE n == attempt[k].name
  <2>1. UNCHANGED <<owners, pins, pinFile, trusted, unkept>>
    BY <1>4 DEF LastChunk, clientVars
  <2>2. CASE UNCHANGED names
    BY <1>1, <1>8, <2>1, <2>2 DEF PinInv, Holders
  <2>3. ASSUME NEW e \in EntryOf(n), e \in NameEntries,
               Holders' = (Holders \ {e}) \cup {[e EXCEPT !.folder = k]}
        PROVE  PinInv'
    <3> DEFINE new == [e EXCEPT !.folder = k]
    <3>1. new.name = e.name /\ new.bundle = e.bundle /\ new.pinned = e.pinned /\ e \in Holders
      BY <2>3 DEF NameEntries, EntryOf
    <3> HIDE DEF new
    <3>2. Holders' = (Holders \ {e}) \cup {new}
      BY <2>3 DEF new
    <3>3. \A f, g \in Holders' : f.name = g.name => f = g
      BY <1>1, <3>1, <3>2
    <3>4. ASSUME NEW x \in owners'
          PROVE  \E f \in Holders' : f.pinned /\ f.name = x[1] /\ f.bundle = x[2]
      <4>1. PICK f \in Holders : f.pinned /\ f.name = x[1] /\ f.bundle = x[2]
        BY <1>1, <2>1
      <4>2. QED
        BY <3>1, <3>2, <4>1
    <3>5. QED
      BY <1>8, <2>1, <3>3, <3>4 DEF PinInv
  <2>4. QED
    BY <1>4, <2>2, <2>3, LastChunkCases
<1>5. CASE RelayRestart
  <2>1. names' = <<>> /\ owners' = {} /\ UNCHANGED <<pins, pinFile, trusted, unkept>>
    BY <1>5 DEF RelayRestart, Mishap, clientVars
  <2>2. Holders' = {}
    BY <2>1 DEF Holders, Range
  <2>3. QED
    BY <1>8, <2>1, <2>2 DEF PinInv
<1>6. CASE UNCHANGED <<names, owners, dropped, redeemed, pins, pinFile, trusted, unkept>>
  BY <1>1, <1>6, <1>8 DEF PinInv, Holders
<1>7. QED
  BY <1>2, <1>3, <1>4, <1>5, <1>6, <1>9, NamesStay

------------------------------------------------------------------------------
(* FolderIsCurrent *)

\* A folder belongs to one name, so that what is dropped with an entry of a name
\* is of no other name.
LEMMA FolderStep ==
  ASSUME RGTypeOK, PinInv, FolderInv, [RGNext]_rgVars
  PROVE  FolderInv'
<1> DEFINE Current(e) ==
      /\ e.folder \in redeemed /\ attempt[e.folder].name = e.name
      /\ e.folder \notin dropped /\ e.bundle.who = attempt[e.folder].who
<1>1. /\ \A e \in Holders : e.folder # NoFolder => Current(e) /\ e.folder \in DOMAIN attempt
      /\ dropped \subseteq redeemed \cup {NoFolder}
      /\ \A e, f \in Holders : e.name = f.name => e = f
  BY DEF FolderInv, FolderIsCurrent, PinInv, RGTypeOK
<1>2. ASSUME \A e \in Holders' : e.folder # NoFolder => Current(e)',
             dropped' \subseteq redeemed' \cup {NoFolder}
      PROVE  FolderInv'
  BY <1>2 DEF FolderInv, FolderIsCurrent
<1>3. \A k \in DOMAIN attempt :
        k # NoFolder /\ attempt'[k].name = attempt[k].name /\ attempt'[k].who = attempt[k].who
  BY AttemptsStay
<1>4. ASSUME redeemed \subseteq redeemed', NEW e \in Holders, e.folder # NoFolder,
             e.folder \notin dropped'
      PROVE  Current(e)'
  BY <1>1, <1>3, <1>4
<1> HIDE DEF Current
<1>5. ASSUME NEW n \in Names, NEW bundle \in Bundles, NEW signed \in BOOLEAN,
             RegisterName(n, bundle, signed)
      PROVE  FolderInv'
  <2>1. PICK pinned \in BOOLEAN, rest \in SUBSET Holders :
            Registers(n, bundle, signed, pinned, rest)
    BY <1>5, Registered
  <2>2. /\ dropped' = dropped \cup {e.folder : e \in EntryOf(n)} /\ redeemed' = redeemed
    BY <1>5 DEF RegisterName, diskVars
  <2>3. ASSUME NEW e \in Holders', e.folder # NoFolder PROVE Current(e)'
    <3>1. e \in Holders /\ e.name # n
      BY <2>1, <2>3 DEF Registers, Registration
    <3>2. \A f \in EntryOf(n) : f.folder # e.folder
      BY <1>1, <2>3, <3>1 DEF EntryOf, Current
    <3>3. e.folder \notin dropped'
      BY <1>1, <2>2, <2>3, <3>1, <3>2 DEF Current
    <3>4. QED
      BY <1>4, <2>2, <2>3, <3>1, <3>3
  <2>4. dropped' \subseteq redeemed' \cup {NoFolder}
    BY <1>1, <2>2 DEF EntryOf, Current
  <2>5. QED
    BY <1>2, <2>3, <2>4
<1>6. ASSUME UNCHANGED <<names, dropped, redeemed>> PROVE FolderInv'
  <2>1. Holders' = Holders
    BY <1>6 DEF Holders
  <2>2. ASSUME NEW e \in Holders', e.folder # NoFolder PROVE Current(e)'
    BY <1>1, <1>4, <1>6, <2>1, <2>2 DEF Current
  <2>3. QED
    BY <1>1, <1>2, <1>6, <2>2
<1>7. ASSUME ClientRestart \/ \E n \in Names : LookUp(n) PROVE FolderInv'
  BY <1>6, <1>7 DEF ClientRestart, LookUp, namesVars, diskVars
<1>8. ASSUME NEW k \in DOMAIN attempt, LastChunk(k) PROVE FolderInv'
  <2> DEFINE n == attempt[k].name
  <2>1. ASSUME NEW e \in EntryOf(n), e \in NameEntries,
               e.bundle.who = attempt[k].who, k \notin redeemed,
               Holders' = (Holders \ {e}) \cup {[e EXCEPT !.folder = k]},
               dropped' = dropped \cup ({e.folder} \ {k}), redeemed' = redeemed \cup {k}
        PROVE  FolderInv'
    <3> DEFINE new == [e EXCEPT !.folder = k]
    <3>1. new.name = n /\ new.bundle = e.bundle /\ new.folder = k /\ e \in Holders /\ e.name = n
      BY <2>1 DEF NameEntries, EntryOf
    <3> HIDE DEF new
    <3>2. Holders' = (Holders \ {e}) \cup {new}
      BY <2>1 DEF new
    <3>3. ASSUME NEW f \in Holders \ {e}, f.folder # NoFolder PROVE Current(f)'
      <4>1. f.name # n
        BY <1>1, <3>1, <3>3
      <4>2. f.folder # e.folder
        BY <1>1, <3>1, <3>3, <4>1 DEF Current
      <4>3. f.folder \notin dropped'
        BY <1>1, <2>1, <3>3, <4>2 DEF Current
      <4>4. QED
        BY <1>4, <2>1, <3>3, <4>3
    <3>4. Current(new)'
      <4>1. k \notin dropped'
        BY <1>1, <1>3, <2>1
      <4>2. attempt'[k].name = n /\ attempt'[k].who = e.bundle.who
        BY <1>3, <2>1
      <4>3. QED
        BY <2>1, <3>1, <4>1, <4>2 DEF Current
    <3>5. dropped' \subseteq redeemed' \cup {NoFolder}
      BY <1>1, <2>1, <3>1 DEF Current
    <3>6. QED
      BY <1>2, <3>2, <3>3, <3>4, <3>5
  <2>2. QED
    BY <1>6, <1>8, <2>1, LastChunkCases
<1>9. CASE RelayRestart
  <2>1. names' = <<>> /\ dropped' = {}
    BY <1>9 DEF RelayRestart
  <2>2. Holders' = {}
    BY <2>1 DEF Holders, Range
  <2>3. QED
    BY <1>2, <2>1, <2>2
<1>10. QED
  BY <1>5, <1>6, <1>7, <1>8, <1>9, NamesStay

------------------------------------------------------------------------------
(* The theorems *)

RegistryInv == RGTypeOK /\ PinInv /\ FolderInv

LEMMA RegistryInductive == RGSpec => []RegistryInv
<1>1. RGInit => RegistryInv
  <2>1. RGInit => Holders = {} /\ DOMAIN halves = {} /\ DOMAIN peers = {}
                 /\ DOMAIN pins = {} /\ DOMAIN pinFile = {}
    BY DEF RGInit, Holders, Range
  <2>2. RGInit => RGTypeOK
    BY <2>1, RegistryAssumption DEF RGInit, RGTypeOK
  <2>3. QED
    BY <2>1, <2>2 DEF RGInit, RegistryInv, PinInv, PinsKept, FolderInv, FolderIsCurrent
<1>2. RegistryInv /\ [RGNext]_rgVars => RegistryInv'
  BY RegistryTypeStep, PinStep, FolderStep DEF RegistryInv
<1>3. QED
  BY <1>1, <1>2, PTL DEF RGSpec

\* The variables keep their types.
THEOREM RegistryTypes == RGSpec => []RGTypeOK
<1>1. RegistryInv => RGTypeOK
  BY DEF RegistryInv
<1>2. QED
  BY <1>1, RegistryInductive, PTL

\* A pinned name stays with its bundle while the relay runs, and a client uses another
\* key for a name only after it ended with a pin that was not in its file
\* (_h_register, _remember_peer).
THEOREM KeysStay == RGSpec => []KeyStays
<1>1. RegistryInv => KeyStays
  <2> SUFFICES ASSUME RGTypeOK, PinInv PROVE KeyStays
    BY DEF RegistryInv
  <2>1. ASSUME NEW x \in owners, NEW y \in owners, x[1] = y[1] PROVE x = y
    <3>1. PICK e \in Holders : e.name = x[1] /\ e.bundle = x[2]
      BY DEF PinInv
    <3>2. PICK f \in Holders : f.name = y[1] /\ f.bundle = y[2]
      BY DEF PinInv
    <3>3. e = f
      BY <2>1, <3>1, <3>2 DEF PinInv
    <3>4. x \in Names \X Bundles /\ y \in Names \X Bundles
      BY DEF RGTypeOK
    <3>5. QED
      BY <2>1, <3>1, <3>2, <3>3, <3>4
  <2>2. ASSUME NEW x \in trusted, NEW y \in trusted, x[1] = y[1], {x, y} \cap unkept = {}
        PROVE  x = y
    <3>1. x \in Names \X Bundles /\ y \in Names \X Bundles
      BY DEF RGTypeOK
    <3>2. pins[x[1]] = x[2] /\ pins[y[1]] = y[2]
      BY <2>2 DEF PinInv, PinsKept
    <3>3. QED
      BY <2>2, <3>1, <3>2
  <2>3. QED
    BY <2>1, <2>2 DEF KeyStays
<1>2. QED
  BY <1>1, RegistryInductive, PTL

\* The folder of a name was registered as a whole by who holds the name, and one
\* that was replaced or dropped does not come back (_h_diskreg).
THEOREM FoldersAreCurrent == RGSpec => []FolderIsCurrent
<1>1. RegistryInv => FolderIsCurrent
  BY DEF RegistryInv, FolderInv
<1>2. QED
  BY <1>1, RegistryInductive, PTL

------------------------------------------------------------------------------
(* The two users, and the chains of the ratchet *)

LEMMA OtherIs ==
  ASSUME NEW p \in Peers
  PROVE  Other(p) \in Peers /\ Other(p) # p /\ \A q \in Peers : q # p => q = Other(p)
<1>1. PICK a \in Peers, b \in Peers : a # b /\ Peers = {a, b}
  BY PeersAssumption
<1>2. \E q \in Peers : q # p
  BY <1>1
<1>3. Other(p) \in Peers /\ Other(p) # p
  BY <1>2 DEF Other
<1>4. QED
  BY <1>1, <1>3

\* Something more is mixed into a root key.
LEMMA MixedIs ==
  ASSUME NEW c, IsList(c), NEW a, NEW b
  PROVE  /\ IsList(Mixed(c, a, b)) /\ Len(Mixed(c, a, b)) = Len(c) + 1
         /\ \A i \in 1 .. Len(c) : Mixed(c, a, b)[i] = c[i]
         /\ Mixed(c, a, b)[Len(c) + 1] = {a, b}
<1> DEFINE S == {c[i] : i \in 1 .. Len(c)} \cup {{a, b}}
           n == Len(c)
<1>1. c \in [1 .. n -> S] /\ n \in Nat
  BY DEF IsList
<1>2. c \in Seq(S)
  BY <1>1
<1>3. {a, b} \in S
  OBVIOUS
<1> HIDE DEF S
<1>4. /\ Append(c, {a, b}) \in Seq(S) /\ Len(Append(c, {a, b})) = n + 1
      /\ \A i \in 1 .. n : Append(c, {a, b})[i] = c[i]
      /\ Append(c, {a, b})[n + 1] = {a, b}
  BY <1>2, <1>3
<1>5. IsList(Append(c, {a, b}))
  BY <1>4 DEF IsList
<1>6. QED
  BY <1>4, <1>5 DEF Mixed

LEMMA FirstMixed ==
  ASSUME NEW x, NEW a, NEW b
  PROVE  LET c == Mixed(<<x>>, a, b) IN IsList(c) /\ Len(c) = 2 /\ c[1] = x /\ c[2] = {a, b}
<1>1. PICK l : l = <<x>>
  OBVIOUS
<1>2. IsList(l) /\ Len(l) = 1 /\ l[1] = x
  BY <1>1 DEF IsList
<1>3. /\ IsList(Mixed(l, a, b)) /\ Len(Mixed(l, a, b)) = Len(l) + 1
      /\ \A i \in 1 .. Len(l) : Mixed(l, a, b)[i] = l[i]
      /\ Mixed(l, a, b)[Len(l) + 1] = {a, b}
  <2>1. IsList(l)
    BY <1>2
  <2>2. QED
    BY <2>1, MixedIs
<1>4. QED
  BY <1>1, <1>2, <1>3

------------------------------------------------------------------------------
(* What becomes of a session when a message is opened *)

\* t sends where s does.
SendsAs(s, t) ==
  IsSession(t) /\ t.root = s.root /\ t.dhs = s.dhs /\ t.send = s.send /\ t.sn = s.sn

\* t sends on the chain that s turns to with its new key pair.
SendsAnew(s, t, dh, key) ==
  /\ IsSession(t) /\ t.dhs = key /\ t.sn = 0 /\ t.send = t.root
  /\ t.root = Mixed(Mixed(s.root, s.dhs, dh), key, dh)

LEMMA SkipIs ==
  ASSUME NEW s, IsSession(s), NEW until
  PROVE  SendsAs(s, Skip(s, until))
<1>1. ASSUME NEW x
      PROVE  SendsAs(s, [s EXCEPT !.skipped = x, !.rn = until])
  <2> DEFINE t == [s EXCEPT !.skipped = x, !.rn = until]
  <2>1. t = [[s EXCEPT !.skipped = x] EXCEPT !.rn = until]
    BY DEF IsSession
  <2>2. t = [root |-> s.root, dhs |-> s.dhs, dhr |-> s.dhr, send |-> s.send, recv |-> s.recv,
             sn |-> s.sn, rn |-> until, pn |-> s.pn, skipped |-> x]
    <3> DEFINE v == [s EXCEPT !.skipped = x]
    <3>1. v = [root |-> s.root, dhs |-> s.dhs, dhr |-> s.dhr, send |-> s.send, recv |-> s.recv,
               sn |-> s.sn, rn |-> s.rn, pn |-> s.pn, skipped |-> x]
      BY DEF IsSession
    <3>2. t = [v EXCEPT !.rn = until]
      BY <2>1
    <3> HIDE DEF v, t
    <3>3. QED
      BY <3>1, <3>2
  <2> HIDE DEF t
  <2>3. SendsAs(s, t)
    BY <2>2 DEF SendsAs, IsSession
  <2>4. QED
    BY <2>3 DEF t
<1>2. SendsAs(s, s)
  BY DEF SendsAs
<1>3. QED
  BY <1>1, <1>2 DEF Skip

LEMMA TurnedIs ==
  ASSUME NEW s, IsSession(s), NEW m, NEW key
  PROVE  SendsAs(s, Turned(s, m, key)) \/ SendsAnew(s, Turned(s, m, key), m.dh, key)
<1>1. SendsAs(s, s)
  BY DEF SendsAs
<1>2. ASSUME NEW t, SendsAs(s, t) PROVE SendsAnew(s, Step(t, m.dh, key), m.dh, key)
  <2> DEFINE u == Step(t, m.dh, key)
             received == Mixed(t.root, t.dhs, m.dh)
             root == Mixed(received, key, m.dh)
  <2>1. u = [root |-> root, dhs |-> key, dhr |-> m.dh, send |-> root, recv |-> received,
             sn |-> 0, rn |-> 0, pn |-> t.sn, skipped |-> t.skipped]
    BY DEF Step
  <2>2. root = Mixed(Mixed(s.root, s.dhs, m.dh), key, m.dh)
    BY <1>2 DEF SendsAs
  <2> HIDE DEF u, root, received
  <2>3. SendsAnew(s, u, m.dh, key)
    BY <2>1, <2>2 DEF SendsAnew, IsSession
  <2>4. QED
    BY <2>3 DEF u
<1>3. QED
  BY <1>1, <1>2, SkipIs DEF Turned

LEMMA PassedIs ==
  ASSUME NEW t, IsSession(t), NEW until, NEW rn
  PROVE  SendsAs(t, [Skip(t, until) EXCEPT !.rn = rn])
<1> DEFINE v == Skip(t, until)
           u == [v EXCEPT !.rn = rn]
<1>1. SendsAs(t, v)
  BY SkipIs
<1>2. u = [root |-> v.root, dhs |-> v.dhs, dhr |-> v.dhr, send |-> v.send, recv |-> v.recv,
           sn |-> v.sn, rn |-> rn, pn |-> v.pn, skipped |-> v.skipped]
  <2> HIDE DEF v
  <2>1. QED
    BY <1>1 DEF SendsAs, IsSession
<1> HIDE DEF v, u
<1>3. SendsAs(t, u)
  BY <1>1, <1>2 DEF SendsAs, IsSession
<1>4. QED
  BY <1>3 DEF u, v

LEMMA OpenedIs ==
  ASSUME NEW s, IsSession(s), NEW m, NEW key
  PROVE  LET t == Opened(s, m, key).s IN SendsAs(s, t) \/ SendsAnew(s, t, m.dh, key)
<1>1. ASSUME NEW x PROVE SendsAs(s, [s EXCEPT !.skipped = x])
  <2> DEFINE t == [s EXCEPT !.skipped = x]
  <2>1. t = [root |-> s.root, dhs |-> s.dhs, dhr |-> s.dhr, send |-> s.send, recv |-> s.recv,
             sn |-> s.sn, rn |-> s.rn, pn |-> s.pn, skipped |-> x]
    BY DEF IsSession
  <2> HIDE DEF t
  <2>2. SendsAs(s, t)
    BY <2>1 DEF SendsAs, IsSession
  <2>3. QED
    BY <2>2 DEF t
<1>2. SendsAs(s, OpenKept(s, m).s)
  BY <1>1 DEF OpenKept
<1>3. ASSUME NEW t, SendsAs(s, t) \/ SendsAnew(s, t, m.dh, key), NEW x, NEW y
      PROVE  LET u == [Skip(t, x) EXCEPT !.rn = y] IN SendsAs(s, u) \/ SendsAnew(s, u, m.dh, key)
  BY <1>3, PassedIs, ZenonT(40) DEF SendsAs, SendsAnew
<1>4. SendsAs(s, s)
  BY DEF SendsAs
<1>5. LET t == OpenNext(s, m, key).s IN SendsAs(s, t) \/ SendsAnew(s, t, m.dh, key)
  BY <1>3, <1>4, TurnedIs DEF OpenNext
<1>6. QED
  BY <1>2, <1>5 DEF Opened

------------------------------------------------------------------------------
(* What becomes of a chain *)

\* p generates key pairs, and perhaps sends nothing.
Grows(p) == fresh[p] \in Nat /\ fresh'[p] \in Nat /\ fresh[p] <= fresh'[p]

LEMMA ChainStays ==
  ASSUME NEW p, Grows(p), NEW c, SendsOn(p, c)
  PROVE  SendsOn(p, c)'
<1>1. \A i : i \in 1 .. fresh[p] => i \in 1 .. fresh'[p]
  BY DEF Grows
<1>2. QED
  BY <1>1 DEF SendsOn

LEMMA AheadStays ==
  ASSUME NEW p, Grows(p), NEW s, Ahead(p, s), \A m \in sent' : m.from = p => m \in sent
  PROVE  Ahead(p, s)'
<1> SUFFICES ASSUME s # NoSession PROVE Ahead(p, s)'
  BY DEF Ahead
<1>1. SendsOn(p, s.send)'
  BY ChainStays DEF Ahead
<1>2. s.dhs \in {p} \X (1 .. fresh'[p])
  BY DEF Ahead, Grows
<1>3. QED
  BY <1>1, <1>2 DEF Ahead

\* The chain that p turns to with a new key pair k is one it sends on.
LEMMA ChainTurns ==
  ASSUME NEW p, NEW c, IsList(c), Len(c) > 0, c[1].from \in Peers,
         Len(c) % 2 = (IF c[1].from = p THEN 0 ELSE 1),
         NEW a, NEW b, b[1] # p, NEW k, k[1] = p => k[2] \in 1 .. fresh'[p]
  PROVE  SendsOn(p, Mixed(Mixed(c, a, b), k, b))'
<1> DEFINE n == Len(c)
           d == Mixed(c, a, b)
           e == Mixed(d, k, b)
<1>1. IsList(d) /\ Len(d) = n + 1 /\ n \in Nat /\ d[1] = c[1]
  BY MixedIs, SMTT(30) DEF IsList
<1>2. IsList(e) /\ Len(e) = n + 2 /\ e[1] = c[1] /\ e[Len(e)] = {k, b}
  <2> HIDE DEF d
  <2>1. IsList(e) /\ Len(e) = Len(d) + 1 /\ e[1] = d[1] /\ e[Len(d) + 1] = {k, b}
    BY <1>1, MixedIs, SMTT(30)
  <2>2. QED
    BY <1>1, <2>1
<1> HIDE DEF d, e
<1>3. Len(e) % 2 = (IF e[1].from = p THEN 0 ELSE 1)
  BY <1>1, <1>2
<1>4. SendsOn(p, e)'
  BY <1>1, <1>2, <1>3 DEF SendsOn, IsList
<1>5. QED
  BY <1>4 DEF d, e

\* And it is none of those p has sent on before.
LEMMA ChainIsNew ==
  ASSUME NEW p, fresh[p] \in Nat, NEW c, IsList(c), NEW a, NEW b, NEW i \in Nat \ {0},
         NEW d, SendsOn(p, d)
  PROVE  d # Mixed(c, <<p, fresh[p] + i>>, b)
<1> DEFINE k == <<p, fresh[p] + i>>
           e == Mixed(c, k, b)
<1>1. Len(c) \in Nat /\ Len(e) = Len(c) + 1 /\ e[Len(c) + 1] = {k, b}
  BY MixedIs DEF IsList
<1>2. k \in e[Len(e)] /\ k[1] = p /\ k[2] = fresh[p] + i
  BY <1>1
<1>3. \A l \in d[Len(d)] : l[1] = p => l[2] \in 1 .. fresh[p]
  BY DEF SendsOn
<1> HIDE DEF e, k
<1>4. d # e
  BY <1>2, <1>3
<1>5. QED
  BY <1>4 DEF e, k

LEMMA FirstIsNew ==
  ASSUME NEW p, fresh[p] \in Nat, NEW x, NEW b, NEW i \in Nat \ {0}, NEW d, SendsOn(p, d)
  PROVE  d # Mixed(<<x>>, <<p, fresh[p] + i>>, b)
<1>1. PICK l : l = <<x>>
  OBVIOUS
<1>2. IsList(l)
  BY <1>1 DEF IsList
<1>3. d # Mixed(l, <<p, fresh[p] + i>>, b)
  BY <1>2, ChainIsNew
<1>4. QED
  BY <1>1, <1>3

\* p turns its session s and has a new key pair.
LEMMA AheadTurns ==
  ASSUME KeysInv, NEW p \in Peers, fresh'[p] = fresh[p] + 1, sent' = sent,
         NEW s, IsList(s.root), Len(s.root) > 0, s.root[1].from \in Peers,
         Len(s.root) % 2 = (IF s.root[1].from = p THEN 0 ELSE 1),
         NEW t, NEW dh, dh[1] # p, SendsAnew(s, t, dh, Pair(p, 1))
  PROVE  Ahead(p, t)'
<1>1. fresh[p] \in Nat /\ \A m \in sent : m.from = p => SendsOn(p, m.key[1])
  BY DEF KeysInv
<1>2. IsSession(t) /\ t.dhs = Pair(p, 1) /\ t.sn = 0 /\ t.send = t.root
      /\ t.send = Mixed(Mixed(s.root, s.dhs, dh), Pair(p, 1), dh)
  BY DEF SendsAnew
<1>3. t.dhs \in {p} \X (1 .. fresh'[p]) /\ Pair(p, 1)[2] \in 1 .. fresh'[p]
  BY <1>1, <1>2 DEF Pair
<1>4. SendsOn(p, t.send)'
  BY <1>2, <1>3, ChainTurns
<1>5. IsList(Mixed(s.root, s.dhs, dh))
  BY MixedIs
<1>6. \A m \in sent : m.from = p => m.key[1] # t.send
  BY <1>1, <1>2, <1>5, ChainIsNew DEF Pair
<1>7. QED
  BY <1>2, <1>3, <1>4, <1>6 DEF Ahead

\* What a session of p is after a message of the other was opened, or was not.
LEMMA AheadOpens ==
  ASSUME KeysInv, NEW p \in Peers, NEW s, s # NoSession, Ahead(p, s), sent' = sent,
         NEW m \in sent, m.from = Other(p),
         NEW t, t = Opened(s, m, Pair(p, 1)).s,
         fresh' = IF t.dhs = Pair(p, 1) THEN [fresh EXCEPT ![p] = @ + 1] ELSE fresh
  PROVE  Ahead(p, t)'
<1>1. OfPeers(fresh) /\ fresh[p] \in Nat
  BY DEF KeysInv
<1>2. fresh'[p] = (IF t.dhs = Pair(p, 1) THEN fresh[p] + 1 ELSE fresh[p])
  BY <1>1 DEF OfPeers
<1>3. Grows(p)
  BY <1>1, <1>2 DEF Grows
<1>4. IsSession(s) /\ s.root = s.send /\ SendsOn(p, s.send)
  BY DEF Ahead
<1>5. CASE SendsAs(s, t)
  <2>1. Ahead(p, t)
    BY <1>5 DEF Ahead, SendsAs
  <2>2. QED
    BY <1>3, <2>1, AheadStays
<1>6. CASE SendsAnew(s, t, m.dh, Pair(p, 1))
  <2>1. m.dh[1] # p
    BY OtherIs DEF KeysInv
  <2>2. fresh'[p] = fresh[p] + 1
    BY <1>2, <1>6 DEF SendsAnew
  <2>3. /\ IsList(s.root) /\ Len(s.root) > 0 /\ s.root[1].from \in Peers
        /\ Len(s.root) % 2 = (IF s.root[1].from = p THEN 0 ELSE 1)
    <3>1. ASSUME NEW c, SendsOn(p, c)
          PROVE  /\ IsList(c) /\ Len(c) > 0 /\ c[1].from \in Peers
                 /\ Len(c) % 2 = (IF c[1].from = p THEN 0 ELSE 1)
      BY <3>1 DEF SendsOn, IsList
    <3>2. SendsOn(p, s.root)
      BY <1>4
    <3>3. QED
      BY <3>1, <3>2
  <2>4. QED
    BY <1>6, <2>1, <2>2, <2>3, AheadTurns
<1>7. QED
  BY <1>4, <1>5, <1>6, OpenedIs

\* The first message of a handshake turns the responder.
LEMMA ResponderTurns ==
  ASSUME NEW secret, NEW spk0, NEW m, m.dh # NoKey, NEW key
  PROVE  LET s == InitResponder(secret, spk0) IN SendsAnew(s, Opened(s, m, key).s, m.dh, key)
<1> DEFINE s == InitResponder(secret, spk0)
<1>1. IsSession(s) /\ s.skipped = <<>> /\ s.recv = NoChain /\ s.dhr = NoKey
  BY DEF InitResponder, IsSession
<1> HIDE DEF s
<1>2. Kept(s, m) = {}
  BY <1>1 DEF Kept
<1>3. Skip(s, m.pn) = s
  BY <1>1 DEF Skip
<1>4. Turned(s, m, key) = Step(s, m.dh, key) /\ Turned(s, m, key) # s
  <2>1. Turned(s, m, key) = Step(s, m.dh, key)
    BY <1>1, <1>3 DEF Turned
  <2>2. Step(s, m.dh, key).dhr = m.dh
    BY DEF Step
  <2>3. QED
    BY <1>1, <2>1, <2>2
<1>5. SendsAnew(s, Turned(s, m, key), m.dh, key)
  <2> DEFINE received == Mixed(s.root, s.dhs, m.dh)
             root == Mixed(received, key, m.dh)
             u == Step(s, m.dh, key)
  <2>1. u = [root |-> root, dhs |-> key, dhr |-> m.dh, send |-> root, recv |-> received,
             sn |-> 0, rn |-> 0, pn |-> s.sn, skipped |-> s.skipped]
    BY DEF Step
  <2>2. root = Mixed(Mixed(s.root, s.dhs, m.dh), key, m.dh)
    OBVIOUS
  <2> HIDE DEF u, root, received
  <2>3. SendsAnew(s, u, m.dh, key)
    BY <2>1, <2>2 DEF SendsAnew, IsSession
  <2>4. QED
    BY <1>4, <2>3 DEF u
<1>6. ~TooFar(s, m.pn)
  BY <1>1 DEF TooFar
<1>7. ASSUME NEW t, SendsAnew(s, t, m.dh, key), NEW x, NEW y
      PROVE  SendsAnew(s, [Skip(t, x) EXCEPT !.rn = y], m.dh, key)
  BY <1>7, PassedIs DEF SendsAs, SendsAnew
<1>8. SendsAnew(s, OpenNext(s, m, key).s, m.dh, key)
  BY <1>5, <1>6, <1>7 DEF OpenNext
<1>9. SendsAnew(s, Opened(s, m, key).s, m.dh, key)
  BY <1>2, <1>8 DEF Opened
<1>10. QED
  BY <1>9 DEF s

------------------------------------------------------------------------------
(* Keys are never used twice *)

\* A step of p.
LEMMA KeysMove ==
  ASSUME KeysInv, NEW p \in Peers, Grows(p),
         OfPeers(session)', OfPeers(disk)', OfPeers(busy)', OfPeers(spk)', OfPeers(fresh)',
         \A q \in Peers : q # p =>
           fresh'[q] = fresh[q] /\ session'[q] = session[q] /\ disk'[q] = disk[q],
         \A q \in Peers : spk'[q] \in {q} \X Nat,
         \A q \in Peers : \A bundle \in busy'[q] : bundle.spk \in {Other(q)} \X Nat,
         Ahead(p, session[p])', Ahead(p, disk[p])',
         \A m \in sent' :
           \/ m \in sent
           \/ /\ m.from = p /\ m.dh \in {p} \X (1 .. fresh'[p])
              /\ SendsOn(p, m.key[1])' /\ m.key[2] \in Nat,
         KeysUnique'
  PROVE  KeysInv'
<1>1. ASSUME NEW q \in Peers PROVE Grows(q)
  BY <1>1 DEF KeysInv, Grows
<1>2. ASSUME NEW q \in Peers PROVE Ahead(q, session[q])' /\ Ahead(q, disk[q])'
  <2>1. CASE q = p
    BY <2>1
  <2>2. CASE q # p
    <3>1. PICK s, d : s = session[q] /\ d = disk[q]
      OBVIOUS
    <3>2. Ahead(q, s) /\ Ahead(q, d) /\ session'[q] = s /\ disk'[q] = d
      BY <2>2, <3>1 DEF KeysInv
    <3>3. \A m \in sent' : m.from = q => m \in sent
      BY <2>2
    <3>4. Ahead(q, s)' /\ Ahead(q, d)'
      BY <1>1, <3>2, <3>3, AheadStays
    <3>5. QED
      BY <3>2, <3>4
  <2>3. QED
    BY <2>1, <2>2
<1>3. ASSUME NEW m \in sent'
      PROVE  /\ m.from \in Peers
             /\ m.dh \in {m.from} \X (1 .. fresh'[m.from])
             /\ SendsOn(m.from, m.key[1])' /\ m.key[2] \in Nat
  <2>1. CASE m \in sent
    <3>1. PICK q, c : q = m.from /\ c = m.key[1]
      OBVIOUS
    <3>2. q \in Peers /\ Grows(q) /\ SendsOn(q, c) /\ m.dh \in {q} \X (1 .. fresh[q])
          /\ m.key[2] \in Nat
      BY <1>1, <2>1, <3>1 DEF KeysInv
    <3>3. SendsOn(q, c)' /\ m.dh \in {q} \X (1 .. fresh'[q])
      BY <3>2, ChainStays DEF Grows
    <3>4. QED
      BY <3>1, <3>2, <3>3
  <2>2. CASE m \notin sent
    BY <1>3, <2>2
  <2>3. QED
    BY <2>1, <2>2
<1>4. \A q \in Peers : fresh'[q] \in Nat
  BY <1>1 DEF Grows
<1>5. QED
  BY <1>2, <1>3, <1>4 DEF KeysInv

\* The key of a new message.
LEMMA KeyIsNew ==
  ASSUME KeysInv, NEW p \in Peers, NEW m, sent' = sent \cup {m},
         NEW c, NEW n \in Nat, m.key = <<c, n>>,
         c[1].from \in Peers, Len(c) % 2 = (IF c[1].from = p THEN 0 ELSE 1),
         \A w \in sent : w.from = p /\ w.key[1] = c => w.key[2] < n
  PROVE  KeysUnique'
<1>1. ASSUME NEW w \in sent PROVE w.key # <<c, n>>
  <2>1. CASE w.from = p
    BY <2>1 DEF KeysInv
  <2>2. CASE w.from # p
    <3>1. w.from = Other(p) /\ Other(p) # p /\ (c[1].from = p \/ c[1].from = Other(p))
      BY <2>2, OtherIs DEF KeysInv
    <3>2. Len(w.key[1]) % 2 = (IF w.key[1][1].from = Other(p) THEN 0 ELSE 1)
      BY <3>1, ZenonT(40) DEF KeysInv, SendsOn
    <3>3. SUFFICES ASSUME w.key = <<c, n>> PROVE FALSE
      OBVIOUS
    <3>4. w.key[1] = c
      BY <3>3
    <3>5. Len(c) % 2 = (IF c[1].from = Other(p) THEN 0 ELSE 1)
      BY <3>2, <3>4
    <3>6. QED
      BY <3>1, <3>5
  <2>3. QED
    BY <2>1, <2>2
<1>2. QED
  BY <1>1 DEF KeysInv, KeysUnique

\* A step that leaves sessions, messages and key pairs as they were.
LEMMA KeysKept ==
  ASSUME KeysInv, UNCHANGED <<spk, session, disk, fresh, sent>>, OfPeers(busy)',
         \A q \in Peers : \A bundle \in busy'[q] : bundle.spk \in {Other(q)} \X Nat
  PROVE  KeysInv'
<1>1. PICK p \in Peers : TRUE
  BY PeersAssumption
<1>2. /\ OfPeers(session)' /\ OfPeers(disk)' /\ OfPeers(spk)' /\ OfPeers(fresh)'
      /\ \A q \in Peers : spk'[q] \in {q} \X Nat
  BY DEF KeysInv, OfPeers
<1>3. Grows(p) /\ Ahead(p, session[p]) /\ Ahead(p, disk[p])
  BY DEF KeysInv, Grows
<1>4. Ahead(p, session[p])' /\ Ahead(p, disk[p])'
  <2>1. PICK s, d : s = session[p] /\ d = disk[p]
    OBVIOUS
  <2>2. Ahead(p, s)' /\ Ahead(p, d)'
    BY <1>3, <2>1, AheadStays
  <2>3. session'[p] = s /\ disk'[p] = d
    BY <2>1
  <2>4. QED
    BY <2>2, <2>3
<1>5. KeysUnique'
  BY DEF KeysInv, KeysUnique
<1>6. QED
  BY <1>2, <1>3, <1>4, <1>5, KeysMove

LEMMA KeysSendInit ==
  ASSUME KeysInv, NEW p \in Peers, NEW bundle \in busy[p], SendInit(p, bundle)
  PROVE  KeysInv'
<1>0. /\ OfPeers(session) /\ OfPeers(disk) /\ OfPeers(busy) /\ OfPeers(spk) /\ OfPeers(fresh)
      /\ \A q \in Peers : fresh[q] \in Nat /\ spk[q] \in {q} \X Nat
      /\ \A q \in Peers : \A b \in busy[q] : b.spk \in {Other(q)} \X Nat
  BY DEF KeysInv
<1>1. PICK secret, hello :
        LET s == InitInitiator(secret, bundle.spk, Pair(p, 2))
        IN  /\ secret.from = p
            /\ Persist(p, AfterSeal(s))
            /\ sent' = sent \cup {Message(p, hello, s)}
  <2> DEFINE eph == Pair(p, 1)
             secret == [from |-> p, eph |-> eph, spk |-> bundle.spk, otpk |-> bundle.otpk]
             hello == [init |-> TRUE, eph |-> eph, otpk |-> bundle.otpk]
  <2>1. secret.from = p
    OBVIOUS
  <2>2. LET s == InitInitiator(secret, bundle.spk, Pair(p, 2))
        IN  /\ Persist(p, AfterSeal(s))
            /\ sent' = sent \cup {Message(p, hello, s)}
    BY DEF SendInit
  <2>3. QED
    BY <2>1, <2>2
<1>2. /\ UNCHANGED spk /\ fresh' = [fresh EXCEPT ![p] = @ + 2]
      /\ busy' = [busy EXCEPT ![p] = @ \ {bundle}]
  BY DEF SendInit, prekeyVars
<1>3. PICK c, k : c = Mixed(<<secret>>, k, bundle.spk) /\ k = Pair(p, 2)
  OBVIOUS
<1>4. PICK s, t, m : /\ s = InitInitiator(secret, bundle.spk, k) /\ t = AfterSeal(s)
                     /\ m = Message(p, hello, s)
  OBVIOUS
<1>5. IsList(c) /\ Len(c) = 2 /\ c[1] = secret /\ c[2] = {k, bundle.spk}
  BY <1>3, FirstMixed
<1>6. /\ t = [root |-> c, dhs |-> k, dhr |-> bundle.spk, send |-> c, recv |-> NoChain,
              sn |-> 1, rn |-> 0, pn |-> 0, skipped |-> <<>>]
      /\ m.from = p /\ m.dh = k /\ m.key = <<c, 0>>
  <2>1. s = [root |-> c, dhs |-> k, dhr |-> bundle.spk, send |-> c, recv |-> NoChain,
             sn |-> 0, rn |-> 0, pn |-> 0, skipped |-> <<>>]
    BY <1>3, <1>4 DEF InitInitiator
  <2>2. QED
    BY <1>4, <2>1 DEF AfterSeal, Message, Sealed
<1>8. \A w \in sent : w.from = p => w.key[1] # c
  BY <1>0, <1>3, FirstIsNew DEF KeysInv, Pair
<1>9. sent' = sent \cup {m} /\ session' = [session EXCEPT ![p] = t] /\ disk' = [disk EXCEPT ![p] = t]
  BY <1>1, <1>3, <1>4 DEF Persist
<1>10. fresh'[p] = fresh[p] + 2 /\ fresh[p] \in Nat /\ k \in {p} \X (1 .. fresh'[p])
       /\ k[1] = p /\ k[2] \in 1 .. fresh'[p]
  BY <1>0, <1>2, <1>3 DEF OfPeers, Pair
<1>11. bundle.spk[1] # p
  BY <1>0, OtherIs
<1>12. SendsOn(p, c)'
  BY <1>1, <1>5, <1>10, <1>11 DEF SendsOn, IsList
<1>13. Ahead(p, t)'
  <2>1. IsSession(t) /\ t.root = c /\ t.send = c /\ t.dhs = k /\ t.sn = 1
    BY <1>6 DEF IsSession
  <2>2. \A w \in sent' : w.from = p /\ w.key[1] = c => w.key[2] < 1
    BY <1>6, <1>8, <1>9
  <2>3. QED
    BY <1>10, <1>12, <2>1, <2>2 DEF Ahead
<1>14. KeysUnique'
  <2>1. c[1].from \in Peers /\ Len(c) % 2 = (IF c[1].from = p THEN 0 ELSE 1)
    BY <1>1, <1>5
  <2>2. \A w \in sent : w.from = p /\ w.key[1] = c => w.key[2] < 0
    BY <1>8
  <2>3. 0 \in Nat /\ sent' = sent \cup {m} /\ m.key = <<c, 0>>
    BY <1>6, <1>9
  <2>4. QED
    BY <2>1, <2>2, <2>3, KeyIsNew
<1>15. /\ OfPeers(session)' /\ OfPeers(disk)' /\ OfPeers(busy)' /\ OfPeers(spk)' /\ OfPeers(fresh)'
       /\ \A q \in Peers : q # p =>
            fresh'[q] = fresh[q] /\ session'[q] = session[q] /\ disk'[q] = disk[q]
       /\ session'[p] = t /\ disk'[p] = t
  BY <1>0, <1>2, <1>9 DEF OfPeers
<1>16. \A q \in Peers : \A b \in busy'[q] : b.spk \in {Other(q)} \X Nat
  BY <1>0, <1>2 DEF OfPeers
<1>17. \A w \in sent' :
         \/ w \in sent
         \/ /\ w.from = p /\ w.dh \in {p} \X (1 .. fresh'[p])
            /\ SendsOn(p, w.key[1])' /\ w.key[2] \in Nat
  BY <1>6, <1>9, <1>10, <1>12
<1>18. Grows(p) /\ Ahead(p, session[p])' /\ Ahead(p, disk[p])'
  BY <1>10, <1>13, <1>15 DEF Grows
<1>19. QED
  BY <1>0, <1>2, <1>14, <1>15, <1>16, <1>17, <1>18, KeysMove

LEMMA KeysSendCont ==
  ASSUME KeysInv, NEW p \in Peers, SendCont(p)
  PROVE  KeysInv'
<1>0. /\ OfPeers(session) /\ OfPeers(disk) /\ OfPeers(busy) /\ OfPeers(spk) /\ OfPeers(fresh)
      /\ \A q \in Peers : fresh[q] \in Nat /\ spk[q] \in {q} \X Nat
      /\ \A q \in Peers : \A b \in busy[q] : b.spk \in {Other(q)} \X Nat
  BY DEF KeysInv
<1>1. PICK s : s = session[p]
  OBVIOUS
<1> DEFINE t == AfterSeal(s)
           m == Message(p, Plain, s)
<1>2. /\ s # NoSession /\ UNCHANGED <<spk, busy, fresh>>
      /\ sent' = sent \cup {m} /\ session' = [session EXCEPT ![p] = t] /\ disk' = [disk EXCEPT ![p] = t]
  BY <1>1 DEF SendCont, Persist, prekeyVars
<1>3. /\ IsSession(s) /\ s.root = s.send /\ SendsOn(p, s.send) /\ s.dhs \in {p} \X (1 .. fresh[p])
      /\ s.sn \in Nat
      /\ \A w \in sent : w.from = p /\ w.key[1] = s.send => w.key[2] < s.sn
  BY <1>1, <1>2 DEF KeysInv, Ahead
<1>4. t = [root |-> s.root, dhs |-> s.dhs, dhr |-> s.dhr, send |-> s.send, recv |-> s.recv,
           sn |-> s.sn + 1, rn |-> s.rn, pn |-> s.pn, skipped |-> s.skipped]
  BY <1>3 DEF AfterSeal, IsSession
<1>5. m.from = p /\ m.dh = s.dhs /\ m.key = <<s.send, s.sn>>
  BY DEF Message, Sealed
<1> HIDE DEF t, m
<1>6. Grows(p)
  BY <1>0, <1>2 DEF Grows
<1>7. SendsOn(p, s.send)'
  BY <1>3, <1>6, ChainStays
<1>8. Ahead(p, t)'
  <2>1. IsSession(t) /\ t.root = t.send /\ t.send = s.send /\ t.dhs = s.dhs /\ t.sn = s.sn + 1
    BY <1>3, <1>4 DEF IsSession
  <2>2. \A w \in sent' : w.from = p /\ w.key[1] = s.send => w.key[2] < s.sn + 1
    <3>1. \A w \in sent : w.key[2] \in Nat
      BY DEF KeysInv
    <3>2. QED
      BY <1>2, <1>3, <1>5, <3>1
  <2>3. QED
    BY <1>2, <1>3, <1>7, <2>1, <2>2 DEF Ahead
<1>9. KeysUnique'
  <2>1. PICK c, n : c = s.send /\ n = s.sn
    OBVIOUS
  <2>2. c[1].from \in Peers /\ Len(c) % 2 = (IF c[1].from = p THEN 0 ELSE 1)
    BY <1>3, <2>1 DEF SendsOn
  <2>3. \A w \in sent : w.from = p /\ w.key[1] = c => w.key[2] < n
    BY <1>3, <2>1
  <2>4. n \in Nat /\ sent' = sent \cup {m} /\ m.key = <<c, n>>
    BY <1>2, <1>3, <1>5, <2>1
  <2>5. QED
    BY <2>2, <2>3, <2>4, KeyIsNew
<1>10. /\ OfPeers(session)' /\ OfPeers(disk)' /\ OfPeers(busy)' /\ OfPeers(spk)' /\ OfPeers(fresh)'
       /\ \A q \in Peers : q # p =>
            fresh'[q] = fresh[q] /\ session'[q] = session[q] /\ disk'[q] = disk[q]
       /\ session'[p] = t /\ disk'[p] = t
  BY <1>0, <1>2 DEF OfPeers
<1>11. \A w \in sent' :
         \/ w \in sent
         \/ /\ w.from = p /\ w.dh \in {p} \X (1 .. fresh'[p])
            /\ SendsOn(p, w.key[1])' /\ w.key[2] \in Nat
  BY <1>2, <1>3, <1>5, <1>7
<1>12. Ahead(p, session[p])' /\ Ahead(p, disk[p])'
  BY <1>8, <1>10
<1>13. QED
  BY <1>0, <1>2, <1>6, <1>9, <1>10, <1>11, <1>12, KeysMove

LEMMA KeysLogin ==
  ASSUME KeysInv, NEW p \in Peers, LoginAgain(p) \/ LoginRotates(p) \/ LoginTorn(p)
  PROVE  KeysInv'
<1>0. /\ OfPeers(session) /\ OfPeers(disk) /\ OfPeers(busy) /\ OfPeers(spk) /\ OfPeers(fresh)
      /\ \A q \in Peers : fresh[q] \in Nat /\ spk[q] \in {q} \X Nat
      /\ \A q \in Peers : \A b \in busy[q] : b.spk \in {Other(q)} \X Nat
  BY DEF KeysInv
<1>1. PICK stored \in {disk[p], NoSession}, signed \in {spk[p], Pair(p, 1)} : Login(p, stored, signed)
  BY DEF LoginAgain, LoginRotates, LoginTorn
<1>2. /\ spk' = [spk EXCEPT ![p] = signed]
      /\ session' = [session EXCEPT ![p] = stored]
      /\ disk' = [disk EXCEPT ![p] = stored]
      /\ busy' = [busy EXCEPT ![p] = {}]
      /\ fresh' = [fresh EXCEPT ![p] = @ + 1 + PoolTarget]
      /\ sent' = sent
  BY <1>1 DEF Login
<1>3. signed \in {p} \X Nat
  BY <1>0 DEF Pair
<1>4. fresh'[p] = fresh[p] + 1 + PoolTarget
  BY <1>0, <1>2 DEF OfPeers
<1>5. Grows(p)
  BY <1>0, <1>4, PoolAssumption DEF Grows
<1>6. Ahead(p, stored)
  BY DEF KeysInv, Ahead
<1>7. Ahead(p, stored)'
  BY <1>2, <1>5, <1>6, AheadStays
<1>8. /\ OfPeers(session)' /\ OfPeers(disk)' /\ OfPeers(busy)' /\ OfPeers(spk)' /\ OfPeers(fresh)'
      /\ \A q \in Peers : q # p =>
           fresh'[q] = fresh[q] /\ session'[q] = session[q] /\ disk'[q] = disk[q]
      /\ session'[p] = stored /\ disk'[p] = stored
  BY <1>0, <1>2 DEF OfPeers
<1>9. /\ \A q \in Peers : spk'[q] \in {q} \X Nat
      /\ \A q \in Peers : \A b \in busy'[q] : b.spk \in {Other(q)} \X Nat
  BY <1>0, <1>2, <1>3 DEF OfPeers
<1>10. KeysUnique'
  BY <1>2 DEF KeysInv, KeysUnique
<1>11. Ahead(p, session[p])' /\ Ahead(p, disk[p])'
  BY <1>7, <1>8
<1>12. QED
  BY <1>2, <1>5, <1>8, <1>9, <1>10, <1>11, KeysMove

\* A message of the other arrives, and opens or does not.
LEMMA KeysReceive ==
  ASSUME KeysInv, NEW m \in sent, ReceiveCont(Other(m.from), m) \/ ReceiveInit(Other(m.from), m)
  PROVE  KeysInv'
<1>0. /\ OfPeers(session) /\ OfPeers(disk) /\ OfPeers(busy) /\ OfPeers(spk) /\ OfPeers(fresh)
      /\ \A q \in Peers : fresh[q] \in Nat /\ spk[q] \in {q} \X Nat
      /\ \A q \in Peers : \A b \in busy[q] : b.spk \in {Other(q)} \X Nat
  BY DEF KeysInv
<1>1. PICK p \in Peers : p = Other(m.from) /\ p # m.from /\ m.from = Other(p)
  BY OtherIs DEF KeysInv
<1>2. UNCHANGED <<spk, busy, sent>>
  BY DEF ReceiveCont, ReceiveInit, prekeyVars
<1>3. PICK s, d : s = session[p] /\ d = disk[p]
  OBVIOUS
<1>4. Ahead(p, s) /\ Ahead(p, d)
  BY <1>3 DEF KeysInv
<1>5. ASSUME NEW t, fresh' = IF t.dhs = Pair(p, 1) THEN [fresh EXCEPT ![p] = @ + 1] ELSE fresh,
                 session' = session \/ (session' = [session EXCEPT ![p] = t] /\ Ahead(p, t)'),
             disk' = disk \/ (disk' = [disk EXCEPT ![p] = t] /\ Ahead(p, t)')
      PROVE  KeysInv'
  <2>1. fresh'[p] = (IF t.dhs = Pair(p, 1) THEN fresh[p] + 1 ELSE fresh[p])
    BY <1>0, <1>5 DEF OfPeers
  <2>2. Grows(p)
    BY <1>0, <2>1 DEF Grows
  <2>3. /\ OfPeers(session)' /\ OfPeers(disk)' /\ OfPeers(busy)' /\ OfPeers(spk)' /\ OfPeers(fresh)'
        /\ \A q \in Peers : q # p =>
             fresh'[q] = fresh[q] /\ session'[q] = session[q] /\ disk'[q] = disk[q]
    BY <1>0, <1>2, <1>5 DEF OfPeers
  <2>4. /\ session'[p] = s \/ (session'[p] = t /\ Ahead(p, t)')
        /\ disk'[p] = d \/ (disk'[p] = t /\ Ahead(p, t)')
    BY <1>0, <1>3, <1>5 DEF OfPeers
  <2>5. Ahead(p, s)' /\ Ahead(p, d)'
    BY <1>2, <1>4, <2>2, AheadStays
  <2>6. Ahead(p, session[p])' /\ Ahead(p, disk[p])'
    BY <2>4, <2>5
  <2>7. KeysUnique'
    BY <1>2 DEF KeysInv, KeysUnique
  <2>8. /\ \A q \in Peers : spk'[q] \in {q} \X Nat
        /\ \A q \in Peers : \A b \in busy'[q] : b.spk \in {Other(q)} \X Nat
    BY <1>0, <1>2
  <2>9. QED
    BY <1>2, <2>2, <2>3, <2>6, <2>7, <2>8, KeysMove
<1>6. CASE ReceiveCont(p, m)
  <2> DEFINE result == Opened(s, m, Pair(p, 1))
  <2>1. /\ s # NoSession
        /\ session' = [session EXCEPT ![p] = result.s]
        /\ disk' = disk \/ disk' = [disk EXCEPT ![p] = result.s]
        /\ fresh' = IF result.s.dhs = Pair(p, 1) THEN [fresh EXCEPT ![p] = @ + 1] ELSE fresh
    BY <1>3, <1>6 DEF ReceiveCont, Persist, Note
  <2>2. PICK t : t = result.s
    OBVIOUS
  <2> HIDE DEF result
  <2>3. fresh' = IF t.dhs = Pair(p, 1) THEN [fresh EXCEPT ![p] = @ + 1] ELSE fresh
    BY <2>1, <2>2
  <2>4. t = Opened(s, m, Pair(p, 1)).s
    BY <2>2 DEF result
  <2>5. Ahead(p, t)'
    BY <1>1, <1>2, <1>4, <2>1, <2>3, <2>4, AheadOpens
  <2>6. QED
    BY <1>5, <2>1, <2>2, <2>3, <2>5
<1>7. CASE ReceiveInit(p, m)
  <2>1. PICK secret, result :
          /\ secret.from = m.from
          /\ result = Opened(InitResponder(secret, spk[p]), m, Pair(p, 1))
          /\ \/ session' = [session EXCEPT ![p] = result.s] /\ disk' = [disk EXCEPT ![p] = result.s]
             \/ UNCHANGED <<session, disk>>
          /\ fresh' = IF result.s.dhs = Pair(p, 1) THEN [fresh EXCEPT ![p] = @ + 1] ELSE fresh
    <3> DEFINE otpk == IF m.otpk \in pool[p] THEN m.otpk ELSE NoKey
               secret == [from |-> m.from, eph |-> m.eph, spk |-> spk[p], otpk |-> otpk]
               result == Opened(InitResponder(secret, spk[p]), m, Pair(p, 1))
    <3>1. secret.from = m.from
      OBVIOUS
    <3>2. /\ \/ session' = [session EXCEPT ![p] = result.s] /\ disk' = [disk EXCEPT ![p] = result.s]
             \/ UNCHANGED <<session, disk>>
          /\ fresh' = IF result.s.dhs = Pair(p, 1) THEN [fresh EXCEPT ![p] = @ + 1] ELSE fresh
      BY <1>7 DEF ReceiveInit, Persist, Note
    <3> HIDE DEF otpk, secret
    <3>3. QED
      BY <3>1, <3>2
  <2>2. PICK i, t, dh : i = InitResponder(secret, spk[p]) /\ t = result.s /\ dh = m.dh
    OBVIOUS
  <2>3. dh # NoKey /\ dh[1] # p
    BY <1>1, <2>2 DEF KeysInv, NoKey
  <2>4. SendsAnew(i, t, dh, Pair(p, 1))
    BY <2>1, <2>2, <2>3, ResponderTurns
  <2>5. fresh' = [fresh EXCEPT ![p] = @ + 1] /\ fresh'[p] = fresh[p] + 1
    BY <1>0, <2>1, <2>2, <2>4 DEF SendsAnew, OfPeers
  <2>6. i.root = <<secret>>
    BY <2>2 DEF InitResponder
  <2>7. IsList(i.root) /\ Len(i.root) = 1 /\ i.root[1] = secret
    BY <2>6 DEF IsList
  <2>8. i.root[1].from \in Peers /\ Len(i.root) % 2 = (IF i.root[1].from = p THEN 0 ELSE 1)
    <3>1. i.root[1].from \in Peers /\ i.root[1].from # p
      BY <1>1, <2>1, <2>7 DEF KeysInv
    <3>2. Len(i.root) % 2 = 1
      BY <2>7
    <3>3. QED
      BY <3>1, <3>2
  <2>9. Ahead(p, t)'
    <3>1. Len(i.root) > 0 /\ IsList(i.root) /\ fresh'[p] = fresh[p] + 1 /\ dh[1] # p
      BY <2>3, <2>5, <2>7
    <3>2. QED
      BY <1>2, <2>4, <2>8, <3>1, AheadTurns
  <2>10. QED
    BY <1>5, <2>1, <2>2, <2>9
<1>8. QED
  BY <1>1, <1>6, <1>7

LEMMA KeysInit == DSInit => KeysInv
<1> SUFFICES ASSUME DSInit PROVE KeysInv
  OBVIOUS
<1>1. /\ OfPeers(session) /\ OfPeers(disk) /\ OfPeers(busy) /\ OfPeers(spk) /\ OfPeers(fresh)
  BY DEF DSInit, OfPeers
<1>2. ASSUME NEW p \in Peers
      PROVE  /\ fresh[p] \in Nat /\ spk[p] \in {p} \X Nat /\ busy[p] = {}
             /\ session[p] = NoSession /\ disk[p] = NoSession
  BY PoolAssumption DEF DSInit
<1>3. sent = {}
  BY DEF DSInit
<1>4. QED
  BY <1>1, <1>2, <1>3 DEF KeysInv, KeysUnique, Ahead

LEMMA KeysStep ==
  ASSUME KeysInv, [DSNext]_dsVars
  PROVE  KeysInv'
<1>0. /\ OfPeers(session) /\ OfPeers(disk) /\ OfPeers(busy) /\ OfPeers(spk) /\ OfPeers(fresh)
      /\ \A q \in Peers : fresh[q] \in Nat /\ spk[q] \in {q} \X Nat
      /\ \A q \in Peers : \A bundle \in busy[q] : bundle.spk \in {Other(q)} \X Nat
  BY DEF KeysInv
<1>1. ASSUME NEW p \in Peers, TakeBundle(p) PROVE KeysInv'
  <2>1. UNCHANGED <<spk, session, disk, fresh, sent>>
    BY <1>1 DEF TakeBundle, dsHistory
  <2>2. PICK otpk : busy' = [busy EXCEPT ![p] = @ \cup {[spk |-> spk[Other(p)], otpk |-> otpk]}]
    BY <1>1 DEF TakeBundle
  <2>3. OfPeers(busy)'
    BY <1>0, <2>2 DEF OfPeers
  <2>4. \A q \in Peers : \A bundle \in busy'[q] : bundle.spk \in {Other(q)} \X Nat
    BY <1>0, <2>2, OtherIs DEF OfPeers
  <2>5. QED
    BY <1>0, <2>1, <2>3, <2>4, KeysKept
<1>2. ASSUME NEW p \in Peers, NEW bundle \in busy[p], SendInit(p, bundle) PROVE KeysInv'
  BY <1>2, KeysSendInit
<1>3. ASSUME NEW p \in Peers, SendCont(p) PROVE KeysInv'
  BY <1>3, KeysSendCont
<1>4. ASSUME NEW p \in Peers, LoginAgain(p) \/ LoginRotates(p) \/ LoginTorn(p) PROVE KeysInv'
  BY <1>4, KeysLogin
<1>5. ASSUME NEW m \in sent, ReceiveUnknown(Other(m.from), m) PROVE KeysInv'
  <2>1. UNCHANGED <<spk, busy, session, disk, fresh, sent>>
    BY <1>5 DEF ReceiveUnknown, prekeyVars, sessionVars
  <2>2. QED
    BY <1>0, <2>1, KeysKept
<1>6. ASSUME NEW m \in sent, ReceiveCont(Other(m.from), m) \/ ReceiveInit(Other(m.from), m)
      PROVE  KeysInv'
  BY <1>6, KeysReceive
<1>7. CASE UNCHANGED dsVars
  <2>1. UNCHANGED <<spk, busy, session, disk, fresh, sent>>
    BY <1>7 DEF dsVars, prekeyVars, sessionVars, dsHistory
  <2>2. QED
    BY <1>0, <2>1, KeysKept
<1>8. QED
  BY <1>1, <1>2, <1>3, <1>4, <1>5, <1>6, <1>7 DEF DSNext

\* No two messages are ever sealed with the same key, for any number of messages,
\* handshakes, logins and torn files and any size of the pool: _persist_ratchet
\* comes before the message is on the wire.
THEOREM NoKeyTwice == DSSpec => []KeysUnique
<1>1. KeysInv => KeysUnique
  BY DEF KeysInv
<1>2. QED
  BY <1>1, KeysInit, KeysStep, PTL DEF DSSpec

------------------------------------------------------------------------------
(* The store of skipped keys *)

\* A set of numbers has a least one.
LEMMA LeastElement ==
  ASSUME NEW T, T \subseteq Nat, T # {}
  PROVE  \E x \in T : \A y \in T : x <= y
<1> DEFINE Below(x) == 0 .. x
           F == {Below(x) : x \in T}
<1>1. F \subseteq FiniteSubsetsOf(Nat) /\ F # {}
  <2>1. ASSUME NEW x \in T PROVE Below(x) \in FiniteSubsetsOf(Nat)
    <3>1. 0 \in Int /\ x \in Int /\ 0 .. x \subseteq Nat
      OBVIOUS
    <3>2. IsFiniteSet(0 .. x)
      BY <3>1, FS_Interval
    <3>3. QED
      BY <3>1, <3>2 DEF FiniteSubsetsOf
  <2> HIDE DEF Below
  <2>2. QED
    BY <2>1
<1>2. IsWellFoundedOn(StrictSubsetOrdering(Nat), FiniteSubsetsOf(Nat))
  BY FS_StrictSubsetOrderingWellFounded
<1>3. PICK B \in F : \A C \in F : <<C, B>> \notin StrictSubsetOrdering(Nat)
  <2> HIDE DEF F
  <2>1. QED
    BY <1>1, <1>2, WFMin
<1>4. PICK x \in T : B = Below(x)
  BY <1>3
<1>5. ASSUME NEW y \in T, y < x PROVE FALSE
  <2>1. Below(y) \in F /\ Below(y) \subseteq B /\ Below(y) # B /\ B \subseteq Nat
    BY <1>4, <1>5
  <2>2. <<Below(y), B>> \in StrictSubsetOrdering(Nat)
    BY <2>1 DEF StrictSubsetOrdering
  <2>3. QED
    BY <1>3, <2>1, <2>2
<1>6. QED
  BY <1>5

\* The store, key by key: each of its states is in S.
StoredWithin(S, skipped, keys) ==
  \E put \in [0 .. Len(keys) -> S] :
    /\ put[0] = skipped /\ Stored(skipped, keys) = put[Len(keys)]
    /\ \A i \in 1 .. Len(keys) : put[i] = Store(put[i - 1], keys[i])

LEMMA StoredSteps ==
  ASSUME NEW S, NEW skipped \in S, NEW keys, Len(keys) \in Nat,
         \A x \in S : \A i \in 1 .. Len(keys) : Store(x, keys[i]) \in S
  PROVE  StoredWithin(S, skipped, keys)
<1> DEFINE N == Len(keys)
           Puts(f, n) == /\ f \in [0 .. n -> S] /\ f[0] = skipped
                         /\ \A i \in 1 .. n : f[i] = Store(f[i - 1], keys[i])
           Bad == {n \in 0 .. N : ~\E f : Puts(f, n)}
<1>1. Bad = {}
  <2>1. SUFFICES ASSUME Bad # {} PROVE FALSE
    OBVIOUS
  <2>2. PICK n \in Bad : \A k \in Bad : n <= k
    <3>1. Bad \subseteq Nat
      OBVIOUS
    <3> HIDE DEF Bad
    <3>2. QED
      BY <2>1, <3>1, LeastElement
  <2>3. n # 0
    <3>1. Puts([i \in 0 .. 0 |-> skipped], 0)
      OBVIOUS
    <3>2. QED
      BY <2>2, <3>1
  <2>4. n - 1 \in 0 .. N /\ n - 1 \notin Bad /\ n \in Nat
    <3>1. n \in 0 .. N /\ \A k \in Bad : n <= k
      BY <2>2
    <3> HIDE DEF Bad
    <3>2. n - 1 \in 0 .. N /\ n \in Nat /\ ~(n <= n - 1)
      BY <2>3, <3>1
    <3>3. QED
      BY <3>1, <3>2
  <2>5. PICK f : Puts(f, n - 1)
    BY <2>4
  <2>6. PICK g : g = [i \in 0 .. n |-> IF i = n THEN Store(f[n - 1], keys[n]) ELSE f[i]]
    OBVIOUS
  <2>7. f[n - 1] \in S /\ Store(f[n - 1], keys[n]) \in S
    BY <2>2, <2>4, <2>5
  <2>8. g \in [0 .. n -> S]
    BY <2>4, <2>5, <2>6, <2>7
  <2>9. ASSUME NEW i \in 1 .. n PROVE g[i] = Store(g[i - 1], keys[i])
    BY <2>4, <2>5, <2>6, <2>9
  <2>10. Puts(g, n)
    BY <2>3, <2>4, <2>5, <2>6, <2>8, <2>9
  <2>11. QED
    BY <2>2, <2>10
<1>2. PICK f : Puts(f, N)
  BY <1>1
<1> DEFINE Rec(g) == g = [i \in 0 .. N |-> IF i = 0 THEN skipped ELSE Store(g[i - 1], keys[i])]
<1>3. Rec(f)
  <2>1. \A i \in 0 .. N : f[i] = IF i = 0 THEN skipped ELSE Store(f[i - 1], keys[i])
    BY <1>2
  <2>2. f = [i \in 0 .. N |-> f[i]]
    BY <1>2
  <2>3. QED
    BY <2>1, <2>2
<1> DEFINE put == CHOOSE g : Rec(g)
<1>4. Rec(put)
  BY <1>3
<1>5. Stored(skipped, keys) = put[N]
  BY DEF Stored
<1>6. ASSUME NEW i \in 1 .. N PROVE put[i] = Store(put[i - 1], keys[i])
  <2> HIDE DEF put
  <2>1. QED
    BY <1>4, <1>6
<1>7. put[0] = skipped
  <2> HIDE DEF put
  <2>1. QED
    BY <1>4
<1>8. PICK g : g = put
  OBVIOUS
<1> HIDE DEF put
<1>9. DOMAIN g = 0 .. N /\ g = [i \in 0 .. N |-> g[i]]
  BY <1>4, <1>8
<1> DEFINE Out == {n \in 0 .. N : g[n] \notin S}
<1>10. Out = {}
  <2>1. SUFFICES ASSUME Out # {} PROVE FALSE
    OBVIOUS
  <2>2. PICK n \in Out : \A k \in Out : n <= k
    <3>1. Out \subseteq Nat
      OBVIOUS
    <3> HIDE DEF Out
    <3>2. QED
      BY <2>1, <3>1, LeastElement
  <2>3. n # 0 /\ n \in 0 .. N
    BY <1>7, <1>8, <2>2
  <2>4. n - 1 \in 0 .. N /\ n - 1 \notin Out
    BY <2>2, <2>3
  <2>5. g[n - 1] \in S /\ g[n] = Store(g[n - 1], keys[n]) /\ n \in 1 .. N
    BY <1>6, <1>8, <2>3, <2>4
  <2>6. QED
    BY <2>2, <2>5
<1>11. g \in [0 .. N -> S]
  BY <1>9, <1>10
<1>12. QED
  BY <1>5, <1>6, <1>7, <1>8, <1>11 DEF StoredWithin

\* What is true of a store stays true when keys are put into it one after the other.
LEMMA StoredIn ==
  ASSUME NEW S, NEW skipped \in S, NEW keys, Len(keys) \in Nat,
         \A x \in S : \A i \in 1 .. Len(keys) : Store(x, keys[i]) \in S
  PROVE  Stored(skipped, keys) \in S
BY StoredSteps DEF StoredWithin

LEMMA StoreKeeps ==
  ASSUME NEW E, NEW x \in Seq(E), Apart(x), NEW e \in E
  PROVE  Store(x, e) \in Seq(E) /\ Apart(Store(x, e))
<1>0. DOMAIN x = 1 .. Len(x) /\ Len(x) \in Nat /\ \A i \in 1 .. Len(x) : x[i] \in E
  OBVIOUS
<1>1. CASE \E i \in DOMAIN x : <<x[i].dh, x[i].n>> = <<e.dh, e.n>>
  <2>1. PICK y : y = [i \in DOMAIN x |-> IF <<x[i].dh, x[i].n>> = <<e.dh, e.n>> THEN e ELSE x[i]]
    OBVIOUS
  <2>2. y \in [1 .. Len(x) -> E]
    BY <1>0, <2>1
  <2>3. y \in Seq(E) /\ Len(y) = Len(x)
    BY <1>0, <2>2
  <2>4. \A i \in 1 .. Len(x) : <<y[i].dh, y[i].n>> = <<x[i].dh, x[i].n>>
    BY <1>0, <2>1
  <2>5. Apart(y)
    BY <2>3, <2>4 DEF Apart
  <2>6. Store(x, e) = y
    BY <1>1, <2>1 DEF Store
  <2>7. QED
    BY <2>3, <2>5, <2>6
<1>2. CASE ~\E i \in DOMAIN x : <<x[i].dh, x[i].n>> = <<e.dh, e.n>>
  <2>1. PICK all : all = Append(x, e)
    OBVIOUS
  <2>2. /\ all \in Seq(E) /\ Len(all) = Len(x) + 1 /\ all[Len(x) + 1] = e
        /\ \A i \in 1 .. Len(x) : all[i] = x[i]
    BY <1>0, <2>1
  <2>3. Apart(all)
    <3>1. ASSUME NEW i \in 1 .. Len(x), <<x[i].dh, x[i].n>> = <<e.dh, e.n>> PROVE FALSE
      BY <1>0, <1>2, <3>1
    <3>2. ASSUME NEW i \in 1 .. Len(all), NEW j \in 1 .. Len(all),
                 <<all[i].dh, all[i].n>> = <<all[j].dh, all[j].n>>
          PROVE  i = j
      <4>1. CASE i = Len(x) + 1 \/ j = Len(x) + 1
        BY <1>0, <2>2, <3>1, <3>2, <4>1
      <4>2. CASE i # Len(x) + 1 /\ j # Len(x) + 1
        <5>1. i \in 1 .. Len(x) /\ j \in 1 .. Len(x)
          BY <1>0, <2>2, <4>2
        <5>2. QED
          BY <2>2, <3>2, <5>1 DEF Apart
      <4>3. QED
        BY <4>1, <4>2
    <3>3. QED
      BY <3>2 DEF Apart
  <2>4. PICK y : y = Tail(all)
    OBVIOUS
  <2>5. /\ y \in Seq(E) /\ Len(y) = Len(x)
        /\ \A i \in 1 .. Len(x) : y[i] = all[i + 1]
    BY <1>0, <2>2, <2>4
  <2>6. Apart(y)
    <3>1. ASSUME NEW i \in 1 .. Len(y), NEW j \in 1 .. Len(y),
                 <<y[i].dh, y[i].n>> = <<y[j].dh, y[j].n>>
          PROVE  i = j
      <4>1. i + 1 \in 1 .. Len(all) /\ j + 1 \in 1 .. Len(all)
        BY <1>0, <2>2, <2>5
      <4>2. y[i] = all[i + 1] /\ y[j] = all[j + 1]
        BY <2>5
      <4>3. i + 1 = j + 1
        BY <2>3, <3>1, <4>1, <4>2 DEF Apart
      <4>4. QED
        BY <2>5, <4>3
    <3>2. QED
      BY <3>1 DEF Apart
  <2>7. Store(x, e) \in {all, y}
    BY <1>2, <2>1, <2>4 DEF Store
  <2>8. QED
    BY <2>2, <2>3, <2>5, <2>6, <2>7
<1>3. QED
  BY <1>1, <1>2

LEMMA StoredKeeps ==
  ASSUME NEW E, NEW x \in Seq(E), Apart(x),
         NEW keys, Len(keys) \in Nat, \A i \in 1 .. Len(keys) : keys[i] \in E
  PROVE  Stored(x, keys) \in Seq(E) /\ Apart(Stored(x, keys))
<1>1. PICK S : S = {y \in Seq(E) : Apart(y)}
  OBVIOUS
<1>2. \A y \in S : \A i \in 1 .. Len(keys) : Store(y, keys[i]) \in S
  BY <1>1, StoreKeeps
<1>3. Stored(x, keys) \in S
  BY <1>1, <1>2, StoredIn
<1>4. QED
  BY <1>1, <1>3

LEMMA RemovedAt ==
  ASSUME NEW x, IsList(x), NEW i \in 1 .. Len(x)
  PROVE  /\ IsList(RemoveAt(x, i)) /\ Len(RemoveAt(x, i)) = Len(x) - 1
         /\ \A j \in 1 .. Len(x) - 1 : RemoveAt(x, i)[j] = x[IF j < i THEN j ELSE j + 1]
<1> DEFINE E == {x[j] : j \in 1 .. Len(x)}
<1>1. x \in Seq(E) /\ Len(x) \in Nat
  <2>1. PICK n \in Nat : n = Len(x) /\ x = [j \in 1 .. n |-> x[j]]
    BY DEF IsList
  <2>2. \A j \in 1 .. n : x[j] \in E
    BY <2>1
  <2> HIDE DEF E
  <2>3. [j \in 1 .. n |-> x[j]] \in Seq(E)
    BY <2>2, IsASeq
  <2>4. QED
    BY <2>1, <2>3
<1> HIDE DEF E
<1>2. PICK a, b : a = SubSeq(x, 1, i - 1) /\ b = SubSeq(x, i + 1, Len(x))
  OBVIOUS
<1>3. /\ a \in Seq(E) /\ Len(a) = i - 1 /\ \A j \in 1 .. i - 1 : a[j] = x[j]
      /\ b \in Seq(E) /\ Len(b) = Len(x) - i /\ \A j \in 1 .. Len(x) - i : b[j] = x[i + j]
  BY <1>1, <1>2
<1>4. PICK y : y = a \o b
  OBVIOUS
<1>5. /\ y \in Seq(E) /\ Len(y) = Len(x) - 1
      /\ \A j \in 1 .. i - 1 : y[j] = a[j]
      /\ \A j \in i .. Len(x) - 1 : y[j] = b[j - (i - 1)]
  BY <1>1, <1>3, <1>4
<1>6. ASSUME NEW j \in 1 .. Len(x) - 1 PROVE y[j] = x[IF j < i THEN j ELSE j + 1]
  <2>1. CASE j < i
    BY <1>1, <1>3, <1>5, <2>1
  <2>2. CASE ~(j < i)
    <3>1. j \in i .. Len(x) - 1 /\ j - (i - 1) \in 1 .. Len(x) - i /\ i + (j - (i - 1)) = j + 1
      BY <1>1, <2>2
    <3>2. QED
      BY <1>3, <1>5, <2>2, <3>1
  <2>3. QED
    BY <2>1, <2>2
<1>7. RemoveAt(x, i) = y
  BY <1>2, <1>4 DEF RemoveAt
<1>8. IsList(y)
  BY <1>5 DEF IsList
<1>9. QED
  BY <1>5, <1>6, <1>7, <1>8

------------------------------------------------------------------------------
(* What a session opens *)

\* A key of the session s that is of no chain so far.
Beyond(s, k) == k[1][1] = s.root[1] /\ Len(k[1]) > Len(s.root)

\* What becomes of s gives no key that s did not give, but of chains further on.
OpensNoMore(s, t) ==
  /\ KeepsWell(t) /\ t.root[1] = s.root[1] /\ Len(s.root) <= Len(t.root)
  /\ \A k : k[2] \in Nat /\ Opens(t, k) => Opens(s, k) \/ Beyond(s, k)

LEMMA ListIsSeq ==
  ASSUME NEW x, IsList(x), NEW E, \A i \in 1 .. Len(x) : x[i] \in E
  PROVE  x \in Seq(E)
<1>1. x \in [1 .. Len(x) -> E] /\ Len(x) \in Nat
  BY DEF IsList
<1>2. QED
  BY <1>1

LEMMA SkipKeeps ==
  ASSUME NEW s, KeepsWell(s), NEW until \in Nat
  PROVE  LET t == Skip(s, until)
         IN  /\ KeepsWell(t) /\ t.root = s.root /\ t.recv = s.recv /\ t.dhr = s.dhr
             /\ t.dhs = s.dhs /\ t.rn >= s.rn
             /\ \A k : k[2] \in Nat /\ Opens(t, k) => Opens(s, k)
<1>1. CASE s.recv = NoChain \/ until <= s.rn
  <2>1. Skip(s, until) = s /\ s.rn >= s.rn
    BY <1>1 DEF Skip, KeepsWell
  <2>2. QED
    BY <2>1
<1>2. CASE ~(s.recv = NoChain \/ until <= s.rn)
  <2>0. /\ s.rn \in Nat /\ s.rn < until /\ s.recv # NoChain /\ IsSession(s)
        /\ IsList(s.skipped) /\ Apart(s.skipped)
        /\ Len(s.recv) \in Nat /\ Within(s, s.recv)
    BY <1>2 DEF KeepsWell
  <2>1. PICK keys, x : keys = Passed(s, until) /\ x = Stored(s.skipped, keys)
    OBVIOUS
  <2>2. PICK t : t = Skip(s, until)
    OBVIOUS
  <2>3. t = [root |-> s.root, dhs |-> s.dhs, dhr |-> s.dhr, send |-> s.send, recv |-> s.recv,
             sn |-> s.sn, rn |-> until, pn |-> s.pn, skipped |-> x]
    <3> DEFINE v == [s EXCEPT !.skipped = x]
    <3>1. v = [root |-> s.root, dhs |-> s.dhs, dhr |-> s.dhr, send |-> s.send, recv |-> s.recv,
               sn |-> s.sn, rn |-> s.rn, pn |-> s.pn, skipped |-> x]
      BY <2>0 DEF IsSession
    <3>2. t = [v EXCEPT !.rn = until]
      BY <1>2, <2>1, <2>2 DEF Skip
    <3> HIDE DEF v
    <3>3. QED
      BY <3>1, <3>2
  <2>4. /\ Len(keys) = until - s.rn /\ Len(keys) \in Nat
        /\ \A i \in 1 .. Len(keys) :
             keys[i] = [dh |-> s.dhr, n |-> s.rn + i - 1, key |-> <<s.recv, s.rn + i - 1>>]
    BY <2>0, <2>1 DEF Passed
  <2>5. PICK New : New = {keys[i] : i \in 1 .. Len(keys)}
    OBVIOUS
  <2>6. PICK Old : Old = {s.skipped[i] : i \in 1 .. Len(s.skipped)}
    OBVIOUS
  <2>7. x \in Seq(Old \cup New) /\ Apart(x)
    <3>1. s.skipped \in Seq(Old \cup New)
      BY <2>0, <2>6, ListIsSeq
    <3>2. \A i \in 1 .. Len(keys) : keys[i] \in Old \cup New
      BY <2>5
    <3>3. QED
      BY <2>0, <2>1, <2>4, <3>1, <3>2, StoredKeeps
  <2>8. ASSUME NEW e \in New
        PROVE  /\ e.dh = s.dhr /\ e.n \in Nat /\ s.rn <= e.n /\ e.n < until
               /\ e.key = <<s.recv, e.n>>
    <3>1. PICK i \in 1 .. Len(keys) : e = keys[i]
      BY <2>5
    <3>2. PICK j : j = s.rn + i - 1
      OBVIOUS
    <3>3. j \in Nat /\ s.rn <= j /\ j < until
      BY <2>0, <2>4, <3>1, <3>2
    <3>4. e = [dh |-> s.dhr, n |-> j, key |-> <<s.recv, j>>]
      BY <2>4, <3>1, <3>2
    <3>5. QED
      BY <3>3, <3>4
  <2>9. \A e \in Old : Keeps(s, e)
    BY <2>6 DEF KeepsWell
  <2>10. ASSUME NEW e \in Old, NEW f \in New PROVE e.key # f.key
    BY <2>0, <2>8, <2>9, <2>10 DEF Keeps
  <2>11. ASSUME NEW e \in Old \cup New, NEW f \in Old \cup New, e.key = f.key
         PROVE  <<e.dh, e.n>> = <<f.dh, f.n>>
    <3>1. CASE e \in Old /\ f \in Old
      <4>1. PICK i \in 1 .. Len(s.skipped) : e = s.skipped[i]
        BY <2>6, <3>1
      <4>2. PICK j \in 1 .. Len(s.skipped) : f = s.skipped[j]
        BY <2>6, <3>1
      <4>3. i = j
        BY <2>11, <4>1, <4>2 DEF KeepsWell
      <4>4. QED
        BY <4>1, <4>2, <4>3
    <3>2. CASE e \in New /\ f \in New
      <4>1. e.key = <<s.recv, e.n>> /\ f.key = <<s.recv, f.n>> /\ e.dh = f.dh
        BY <2>8, <3>2
      <4>2. QED
        <5>1. <<s.recv, e.n>> = <<s.recv, f.n>>
          BY <2>11, <4>1
        <5>2. e.n = f.n
          BY <5>1
        <5>3. QED
          BY <4>1, <5>2
    <3>3. QED
      BY <2>10, <2>11, <3>1, <3>2
  <2>12. ASSUME NEW e \in Old \cup New PROVE Keeps(t, e)
    <3>1. CASE e \in Old
      BY <2>0, <2>3, <2>9, <3>1 DEF Keeps, Within
    <3>2. CASE e \in New
      BY <2>0, <2>3, <2>8, <3>2 DEF Keeps, Within
    <3>3. QED
      BY <3>1, <3>2
  <2>13. IsList(x) /\ Len(x) \in Nat /\ \A i \in 1 .. Len(x) : x[i] \in Old \cup New
    BY <2>7 DEF IsList
  <2>14. \A i, j \in 1 .. Len(x) : x[i].key = x[j].key => i = j
    BY <2>7, <2>11, <2>13 DEF Apart
  <2>15. KeepsWell(t)
    <3>1. /\ IsSession(t) /\ t.root = s.root /\ t.recv = s.recv /\ t.rn = until /\ t.sn = s.sn
          /\ t.pn = s.pn /\ t.skipped = x
      BY <2>3 DEF IsSession
    <3>2. QED
      BY <2>7, <2>12, <2>13, <2>14, <3>1 DEF KeepsWell, Within
  <2>16. ASSUME NEW k, k[2] \in Nat, Opens(t, k) PROVE Opens(s, k)
    <3>1. CASE k[1] = t.recv /\ k[2] >= t.rn
      BY <2>0, <2>3, <2>16, <3>1 DEF Opens
    <3>2. ASSUME NEW e \in Old \cup New, e.key = k PROVE Opens(s, k)
      <4>1. CASE e \in Old
        BY <2>6, <3>2, <4>1 DEF Opens
      <4>2. CASE e \in New
        <5>1. k = <<s.recv, e.n>> /\ e.n >= s.rn
          BY <2>0, <2>8, <3>2, <4>2
        <5>2. QED
          BY <5>1 DEF Opens
      <4>3. QED
        BY <3>2, <4>1, <4>2
    <3>3. QED
      BY <2>3, <2>13, <2>16, <3>1, <3>2 DEF Opens
  <2>17. t.root = s.root /\ t.recv = s.recv /\ t.dhr = s.dhr /\ t.dhs = s.dhs /\ t.rn >= s.rn
    BY <2>0, <2>3
  <2>18. QED
    BY <2>2, <2>15, <2>16, <2>17
<1>3. QED
  BY <1>1, <1>2

LEMMA StepKeeps ==
  ASSUME NEW s, KeepsWell(s), NEW dh, NEW key
  PROVE  OpensNoMore(s, Step(s, dh, key))
<1>1. PICK c, r : c = Mixed(s.root, s.dhs, dh) /\ r = Mixed(c, key, dh)
  OBVIOUS
<1>2. PICK t : t = Step(s, dh, key)
  OBVIOUS
<1>3. t = [root |-> r, dhs |-> key, dhr |-> dh, send |-> r, recv |-> c,
           sn |-> 0, rn |-> 0, pn |-> s.sn, skipped |-> s.skipped]
  BY <1>1, <1>2 DEF Step
<1>4. IsList(s.root) /\ Len(s.root) > 0 /\ Len(s.root) \in Nat
  BY DEF KeepsWell, IsList
<1>5. IsList(c) /\ Len(c) = Len(s.root) + 1 /\ c[1] = s.root[1]
  BY <1>1, <1>4, MixedIs
<1>6. IsList(r) /\ Len(r) = Len(s.root) + 2 /\ r[1] = s.root[1]
  BY <1>1, <1>4, <1>5, MixedIs
<1>7. \A i \in 1 .. Len(s.skipped) : Keeps(s, s.skipped[i])
  BY DEF KeepsWell
<1>8. \A i \in 1 .. Len(s.skipped) : Keeps(t, s.skipped[i])
  <2>1. ASSUME NEW e, Keeps(s, e) PROVE Keeps(t, e)
    <3>1. e.key[1] # c
      BY <1>4, <1>5, <2>1 DEF Keeps, Within
    <3>2. Within(t, e.key[1])
      BY <1>3, <1>4, <1>6, <2>1 DEF Keeps, Within
    <3>3. t.recv = c
      BY <1>3
    <3>4. QED
      BY <2>1, <3>1, <3>2, <3>3 DEF Keeps
  <2>2. QED
    BY <1>7, <2>1
<1>9. KeepsWell(t)
  <2>1. /\ IsSession(t) /\ t.root = r /\ t.recv = c /\ t.rn = 0 /\ t.sn = 0 /\ t.pn = s.sn
        /\ t.skipped = s.skipped
    BY <1>3 DEF IsSession
  <2>2. Len(c) \in Nat /\ Within(t, c)
    BY <1>4, <1>5, <1>6, <2>1 DEF Within
  <2>3. /\ s.sn \in Nat /\ IsList(s.skipped) /\ Apart(s.skipped)
        /\ \A i, j \in 1 .. Len(s.skipped) : s.skipped[i].key = s.skipped[j].key => i = j
    BY DEF KeepsWell
  <2>4. IsList(t.root) /\ Len(t.root) > 0
    BY <1>4, <1>6, <2>1
  <2>5. \A i \in 1 .. Len(t.skipped) : Keeps(t, t.skipped[i])
    BY <1>8, <2>1
  <2>6. QED
    BY <2>1, <2>2, <2>3, <2>4, <2>5 DEF KeepsWell
<1>10. ASSUME NEW k, Opens(t, k) PROVE Opens(s, k) \/ Beyond(s, k)
  <2>1. k[1] = c => Beyond(s, k)
    BY <1>4, <1>5 DEF Beyond
  <2>2. QED
    BY <1>3, <1>10, <2>1 DEF Opens
<1>11. t.root[1] = s.root[1] /\ Len(s.root) <= Len(t.root)
  BY <1>3, <1>4, <1>6
<1>12. QED
  BY <1>2, <1>9, <1>10, <1>11 DEF OpensNoMore

LEMMA TurnedKeeps ==
  ASSUME NEW s, KeepsWell(s), NEW m, m.pn \in Nat, NEW key
  PROVE  OpensNoMore(s, Turned(s, m, key))
<1>1. OpensNoMore(s, s)
  BY DEF OpensNoMore, KeepsWell, IsList
<1>2. PICK t : t = Skip(s, m.pn)
  OBVIOUS
<1>3. /\ KeepsWell(t) /\ t.root = s.root
      /\ \A k : k[2] \in Nat /\ Opens(t, k) => Opens(s, k)
  BY <1>2, SkipKeeps
<1>4. OpensNoMore(t, Step(t, m.dh, key))
  BY <1>3, StepKeeps
<1>5. OpensNoMore(s, Step(t, m.dh, key))
  BY <1>3, <1>4 DEF OpensNoMore, Beyond
<1>6. QED
  BY <1>1, <1>2, <1>5 DEF Turned

\* What decrypt leaves of a session s that it was to open m with: r opens nothing
\* more, and not m, if m did open.
WellOpened(s, m, r) ==
  /\ OpensNoMore(s, r.s)
  /\ r.ok => /\ Within(r.s, m.key[1]) /\ ~Opens(r.s, m.key)
             /\ Opens(s, m.key) \/ Beyond(s, m.key)

LEMMA KeptKeeps ==
  ASSUME NEW s, KeepsWell(s), NEW m, Kept(s, m) # {}
  PROVE  WellOpened(s, m, OpenKept(s, m))
<1>0. IsSession(s) /\ IsList(s.skipped) /\ Len(s.skipped) \in Nat /\ IsList(s.root) /\ s.rn \in Nat
      /\ DOMAIN s.skipped = 1 .. Len(s.skipped)
  BY DEF KeepsWell, IsList
<1>1. PICK i : i = CHOOSE j \in Kept(s, m) : TRUE
  OBVIOUS
<1>2. i \in 1 .. Len(s.skipped)
  BY <1>0, <1>1 DEF Kept
<1>3. PICK x : x = RemoveAt(s.skipped, i)
  OBVIOUS
<1>4. /\ IsList(x) /\ Len(x) = Len(s.skipped) - 1
      /\ \A j \in 1 .. Len(s.skipped) - 1 : x[j] = s.skipped[IF j < i THEN j ELSE j + 1]
  BY <1>0, <1>2, <1>3, RemovedAt
<1>5. PICK t : t = [s EXCEPT !.skipped = x]
  OBVIOUS
<1>6. t = [root |-> s.root, dhs |-> s.dhs, dhr |-> s.dhr, send |-> s.send, recv |-> s.recv,
           sn |-> s.sn, rn |-> s.rn, pn |-> s.pn, skipped |-> x]
  BY <1>0, <1>5 DEF IsSession
<1>7. ASSUME NEW j \in 1 .. Len(x)
      PROVE  \E l \in 1 .. Len(s.skipped) : l # i /\ x[j] = s.skipped[l] /\ (j < i => l = j) /\ (j >= i => l = j + 1)
  <2>1. PICK l : l = IF j < i THEN j ELSE j + 1
    OBVIOUS
  <2>2. l \in 1 .. Len(s.skipped) /\ l # i /\ (j < i => l = j) /\ (j >= i => l = j + 1)
    BY <1>0, <1>2, <1>4, <2>1
  <2>3. x[j] = s.skipped[l]
    BY <1>4, <2>1
  <2>4. QED
    BY <2>2, <2>3
<1>8. ASSUME NEW j \in 1 .. Len(x), NEW k \in 1 .. Len(x)
      PROVE  /\ <<x[j].dh, x[j].n>> = <<x[k].dh, x[k].n>> => j = k
             /\ x[j].key = x[k].key => j = k
  <2>1. PICK a \in 1 .. Len(s.skipped) :
          x[j] = s.skipped[a] /\ (j < i => a = j) /\ (j >= i => a = j + 1)
    BY <1>7
  <2>2. PICK b \in 1 .. Len(s.skipped) :
          x[k] = s.skipped[b] /\ (k < i => b = k) /\ (k >= i => b = k + 1)
    BY <1>7
  <2>3. /\ <<x[j].dh, x[j].n>> = <<x[k].dh, x[k].n>> => a = b
        /\ x[j].key = x[k].key => a = b
    BY <2>1, <2>2 DEF KeepsWell, Apart
  <2>4. a = b => j = k
    BY <1>2, <1>4, <2>1, <2>2
  <2>5. QED
    BY <2>3, <2>4
<1>9. ASSUME NEW j \in 1 .. Len(x) PROVE Keeps(t, x[j])
  <2>1. PICK a \in 1 .. Len(s.skipped) : x[j] = s.skipped[a]
    BY <1>7
  <2>2. Keeps(s, s.skipped[a])
    BY DEF KeepsWell
  <2>3. t.root = s.root /\ t.recv = s.recv /\ t.rn = s.rn
    BY <1>6
  <2>4. QED
    BY <2>1, <2>2, <2>3 DEF Keeps, Within
<1>10. KeepsWell(t)
  <2>1. /\ IsSession(t) /\ t.root = s.root /\ t.recv = s.recv /\ t.rn = s.rn /\ t.sn = s.sn
        /\ t.pn = s.pn /\ t.skipped = x
    BY <1>6 DEF IsSession
  <2>2. Apart(x)
    BY <1>8 DEF Apart
  <2>3. QED
    BY <1>4, <1>8, <1>9, <2>1, <2>2 DEF KeepsWell, Within
<1>11. ASSUME NEW k, Opens(t, k) PROVE Opens(s, k)
  <2>1. CASE k[1] = t.recv /\ k[2] >= t.rn
    BY <1>6, <2>1 DEF Opens
  <2>2. CASE \E j \in 1 .. Len(x) : x[j].key = k
    BY <1>7, <2>2 DEF Opens
  <2>3. QED
    BY <1>6, <1>11, <2>1, <2>2 DEF Opens
<1>12. ASSUME s.skipped[i].key = m.key
       PROVE  Within(t, m.key[1]) /\ ~Opens(t, m.key) /\ Opens(s, m.key)
  <2>1. PICK e : e = s.skipped[i]
    OBVIOUS
  <2>2. Keeps(s, e) /\ e.key = m.key
    BY <1>2, <1>12, <2>1 DEF KeepsWell
  <2>3. m.key = <<m.key[1], e.n>> /\ e.n \in Nat /\ Within(s, m.key[1])
        /\ (m.key[1] = s.recv => e.n < s.rn)
    BY <2>2 DEF Keeps
  <2>4. ~(m.key[1] = s.recv /\ m.key[2] >= s.rn)
    BY <1>0, <2>3
  <2>5. ASSUME NEW j \in 1 .. Len(x), x[j].key = m.key PROVE FALSE
    <3>1. PICK l \in 1 .. Len(s.skipped) : l # i /\ x[j] = s.skipped[l]
      BY <1>7
    <3>2. QED
      BY <1>2, <1>12, <2>5, <3>1 DEF KeepsWell
  <2>6. ~Opens(t, m.key)
    BY <1>6, <2>4, <2>5 DEF Opens
  <2>7. Within(t, m.key[1])
    BY <1>6, <2>3 DEF Within
  <2>8. Opens(s, m.key)
    BY <1>2, <1>12 DEF Opens
  <2>9. QED
    BY <2>6, <2>7, <2>8
<1>13. OpensNoMore(s, t)
  BY <1>0, <1>6, <1>10, <1>11 DEF OpensNoMore, IsList
<1>14. OpenKept(s, m).s = t /\ OpenKept(s, m).ok = (s.skipped[i].key = m.key)
  BY <1>1, <1>3, <1>5 DEF OpenKept
<1>15. QED
  BY <1>12, <1>13, <1>14 DEF WellOpened

LEMMA NextKeeps ==
  ASSUME NEW s, KeepsWell(s), NEW m, m.n \in Nat, m.pn \in Nat, m.key[1] # NoChain, NEW key
  PROVE  WellOpened(s, m, OpenNext(s, m, key))
<1>1. PICK r : r = OpenNext(s, m, key)
  OBVIOUS
<1>2. PICK u : u = Turned(s, m, key)
  OBVIOUS
<1>3. OpensNoMore(s, s) /\ OpensNoMore(s, u)
  <2>1. OpensNoMore(s, s)
    BY DEF OpensNoMore, KeepsWell, IsList
  <2>2. OpensNoMore(s, u)
    BY <1>2, TurnedKeeps
  <2>3. QED
    BY <2>1, <2>2
<1>4. CASE ~r.ok /\ r.s \in {s, u}
  BY <1>1, <1>3, <1>4 DEF WellOpened
<1>5. CASE ~(m.dh # s.dhr /\ TooFar(s, m.pn)) /\ ~TooFar(u, m.n)
  <2>1. PICK at : at = Skip(u, m.n)
    OBVIOUS
  <2>2. KeepsWell(u) /\ u.root[1] = s.root[1] /\ Len(s.root) <= Len(u.root)
        /\ \A k : k[2] \in Nat /\ Opens(u, k) => Opens(s, k) \/ Beyond(s, k)
    BY <1>3 DEF OpensNoMore
  <2>3. /\ KeepsWell(at) /\ at.root = u.root
        /\ \A k : k[2] \in Nat /\ Opens(at, k) => Opens(u, k)
    BY <2>1, <2>2, SkipKeeps
  <2>4. PICK t : t = [at EXCEPT !.rn = @ + 1]
    OBVIOUS
  <2>5. IsSession(at) /\ at.rn \in Nat /\ at.rn + 1 \in Nat
    BY <2>3 DEF KeepsWell
  <2>6. t = [root |-> at.root, dhs |-> at.dhs, dhr |-> at.dhr, send |-> at.send, recv |-> at.recv,
             sn |-> at.sn, rn |-> at.rn + 1, pn |-> at.pn, skipped |-> at.skipped]
    BY <2>4, <2>5 DEF IsSession
  <2>7. ASSUME NEW e, Keeps(at, e) PROVE Keeps(t, e)
    BY <2>5, <2>6, <2>7 DEF Keeps, Within
  <2>8. KeepsWell(t)
    <3>1. /\ IsSession(t) /\ t.root = at.root /\ t.recv = at.recv /\ t.rn = at.rn + 1
          /\ t.sn = at.sn /\ t.pn = at.pn /\ t.skipped = at.skipped
      BY <2>6 DEF IsSession
    <3>2. QED
      BY <2>3, <2>5, <2>7, <3>1 DEF KeepsWell, Within
  <2>9. ASSUME NEW k, k[2] \in Nat, Opens(t, k) PROVE Opens(at, k)
    BY <2>5, <2>6, <2>9 DEF Opens
  <2>10. OpensNoMore(s, t)
    BY <2>2, <2>3, <2>6, <2>8, <2>9 DEF OpensNoMore
  <2>11. r.s = t /\ r.ok = (m.key = <<at.recv, at.rn>>)
    BY <1>1, <1>2, <1>5, <2>1, <2>4 DEF OpenNext
  <2>12. ASSUME m.key = <<at.recv, at.rn>>
         PROVE  Within(t, m.key[1]) /\ ~Opens(t, m.key) /\ (Opens(s, m.key) \/ Beyond(s, m.key))
    <3>1. m.key[1] = at.recv /\ m.key[2] = at.rn
      BY <2>12
    <3>2. Opens(at, m.key)
      BY <2>5, <3>1 DEF Opens
    <3>3. Opens(s, m.key) \/ Beyond(s, m.key)
      BY <2>2, <2>3, <2>5, <3>1, <3>2
    <3>4. Within(t, m.key[1])
      BY <2>3, <2>6, <3>1 DEF KeepsWell, Within
    <3>5. ASSUME NEW j \in 1 .. Len(at.skipped), at.skipped[j].key = m.key PROVE FALSE
      <4>1. PICK e : e = at.skipped[j]
        OBVIOUS
      <4>2. Keeps(at, e) /\ e.key = m.key
        BY <2>3, <3>5, <4>1 DEF KeepsWell
      <4>3. m.key = <<m.key[1], e.n>> /\ e.n \in Nat /\ e.n < at.rn
        BY <3>1, <4>2 DEF Keeps
      <4>4. m.key[2] = e.n
        BY <4>3
      <4>5. QED
        BY <2>5, <3>1, <4>3, <4>4
    <3>6. ~(m.key[2] >= t.rn)
      BY <2>5, <2>6, <3>1
    <3>7. ~Opens(t, m.key)
      BY <2>6, <3>5, <3>6 DEF Opens
    <3>8. QED
      BY <3>3, <3>4, <3>7
  <2>13. QED
    BY <1>1, <2>10, <2>11, <2>12 DEF WellOpened
<1>6. QED
  BY <1>1, <1>2, <1>4, <1>5 DEF OpenNext

LEMMA OpenedKeeps ==
  ASSUME NEW s, KeepsWell(s), NEW m, m.n \in Nat, m.pn \in Nat, m.key[1] # NoChain, NEW key
  PROVE  WellOpened(s, m, Opened(s, m, key))
BY KeptKeeps, NextKeeps DEF Opened

------------------------------------------------------------------------------
(* Messages and their ids *)

From(p) == {w \in sent : w.from = p}

LEMMA FromIs ==
  ASSUME NumberInv, NEW p
  PROVE  /\ IsFiniteSet(From(p)) /\ Cardinality(From(p)) \in Nat /\ Cardinality(sent) \in Nat
         /\ Cardinality(From(p)) <= Cardinality(sent)
<1>1. IsFiniteSet(sent) /\ From(p) \subseteq sent
  BY DEF NumberInv, From
<1>2. QED
  BY <1>1, FS_Subset, FS_CardinalityType

LEMMA BusyIs ==
  ASSUME NumberInv, NEW p \in Peers
  PROVE  /\ Cardinality(busy[p]) \in Nat /\ Cardinality(busy[Other(p)]) \in Nat
         /\ Cardinality(sent) + Cardinality(busy[p]) + Cardinality(busy[Other(p)]) <= MaxSent
<1>1. IsFiniteSet(busy[p]) /\ IsFiniteSet(busy[Other(p)])
  BY OtherIs DEF NumberInv
<1>2. QED
  BY <1>1, FS_CardinalityType DEF NumberInv

\* The ids in use.
LEMMA IdsIn ==
  ASSUME NumberInv, NEW m \in sent, m.from \in Peers
  PROVE  m.id \in Ids /\ read[m.id] \in Nat
<1>1. Cardinality(From(m.from)) <= Cardinality(sent) /\ Cardinality(From(m.from)) \in Nat
      /\ Cardinality(sent) \in Nat
  BY FromIs
<1>2. Cardinality(sent) <= MaxSent
  BY <1>1, BusyIs, PoolAssumption
<1>3. m.id \in {m.from} \X (1 .. Cardinality(From(m.from)))
  BY DEF NumberInv, From
<1>4. m.id \in Ids
  BY <1>1, <1>2, <1>3, PoolAssumption DEF Ids
<1>5. QED
  BY <1>4 DEF NumberInv

\* A message may be delivered again, and a bundle taken.
LEMMA NumberRests ==
  ASSUME KeysInv, NumberInv, sent' = sent, OfPeers(pool)', count' \in [Logins -> Nat],
         read' = read \/ \E m \in sent : read' = [read EXCEPT ![m.id] = @ + 1],
         \A q \in Peers :
           /\ IsFiniteSet(busy'[q])
           /\ Cardinality(sent) + Cardinality(busy'[q]) + Cardinality(busy'[Other(q)]) <= MaxSent
  PROVE  NumberInv'
<1>1. read' \in [Ids -> Nat] /\ \A id \in Ids : read'[id] > 0 => \E m \in sent : m.id = id
  <2>1. read \in [Ids -> Nat] /\ \A id \in Ids : read[id] > 0 => \E m \in sent : m.id = id
    BY DEF NumberInv
  <2>2. ASSUME NEW m \in sent, read' = [read EXCEPT ![m.id] = @ + 1]
        PROVE  read' \in [Ids -> Nat] /\ \A id \in Ids : read'[id] > 0 => \E w \in sent : w.id = id
    <3>1. m.from \in Peers
      BY DEF KeysInv
    <3>2. m.id \in Ids /\ read[m.id] \in Nat
      BY <3>1, IdsIn
    <3>3. read' \in [Ids -> Nat]
      BY <2>1, <2>2, <3>2
    <3>4. \A id \in Ids : id # m.id => read'[id] = read[id]
      BY <2>1, <2>2
    <3>5. QED
      BY <2>1, <3>3, <3>4
  <2>3. QED
    BY <2>1, <2>2
<1>2. QED
  BY <1>1 DEF NumberInv

\* A new message has an id that was not used.
LEMMA NumberSends ==
  ASSUME KeysInv, NumberInv, NEW p \in Peers, NEW m, sent' = sent \cup {m}, m.from = p,
         m.id = <<p, Cardinality(From(p)) + 1>>,
         UNCHANGED <<read, pool, count>>,
         \A q \in Peers :
           /\ IsFiniteSet(busy'[q])
           /\ Cardinality(sent) + 1 + Cardinality(busy'[q]) + Cardinality(busy'[Other(q)]) <= MaxSent
  PROVE  NumberInv' /\ m.id \in Ids /\ read[m.id] = 0 /\ \A w \in sent : w.id # m.id
<1>1. PICK n : n = Cardinality(From(p))
  OBVIOUS
<1>2. IsFiniteSet(From(p)) /\ n \in Nat /\ Cardinality(sent) \in Nat /\ n <= Cardinality(sent)
      /\ IsFiniteSet(sent)
  BY <1>1, FromIs DEF NumberInv
<1>3. ASSUME NEW w \in sent PROVE w.id # m.id
  <2>1. w.id \in {w.from} \X (1 .. Cardinality(From(w.from)))
    BY DEF NumberInv, From
  <2>2. QED
    BY <1>1, <1>2, <2>1
<1>4. m \notin sent
  BY <1>3
<1>5. Cardinality(sent') = Cardinality(sent) + 1 /\ IsFiniteSet(sent')
  BY <1>2, <1>4, FS_AddElement
<1>6. From(p)' = From(p) \cup {m} /\ \A q : q # p => From(q)' = From(q)
  BY DEF From
<1>7. Cardinality(From(p)') = n + 1
  BY <1>1, <1>2, <1>4, <1>6, FS_AddElement DEF From
<1>8. m.id \in Ids
  <2>1. \A q \in Peers : Cardinality(busy'[q]) \in Nat
    BY FS_CardinalityType
  <2>2. Cardinality(sent) + 1 + Cardinality(busy'[p]) + Cardinality(busy'[Other(p)]) <= MaxSent
    OBVIOUS
  <2>3. Cardinality(busy'[p]) \in Nat /\ Cardinality(busy'[Other(p)]) \in Nat
    BY <2>1, OtherIs
  <2>4. Cardinality(sent) + 1 <= MaxSent
    BY <1>2, <2>2, <2>3, PoolAssumption
  <2>5. n + 1 \in 1 .. MaxSent
    BY <1>2, <2>4, PoolAssumption
  <2>6. QED
    BY <1>1, <2>5 DEF Ids
<1>9. read[m.id] = 0
  <2>1. read[m.id] \in Nat /\ (read[m.id] > 0 => \E w \in sent : w.id = m.id)
    BY <1>8 DEF NumberInv
  <2>2. QED
    BY <1>3, <2>1
<1>10. \A w \in sent' : w.id \in {w.from} \X (1 .. Cardinality(From(w.from)'))
  <2>1. ASSUME NEW w \in sent PROVE w.id \in {w.from} \X (1 .. Cardinality(From(w.from)'))
    <3>1. w.id \in {w.from} \X (1 .. Cardinality(From(w.from)))
      BY DEF NumberInv, From
    <3>2. CASE w.from = p
      BY <1>1, <1>2, <1>7, <3>1, <3>2
    <3>3. CASE w.from # p
      BY <1>6, <3>1, <3>3
    <3>4. QED
      BY <3>2, <3>3
  <2>2. m.id \in {m.from} \X (1 .. Cardinality(From(m.from)'))
    BY <1>1, <1>2, <1>7
  <2>3. QED
    BY <2>1, <2>2
<1>11. \A w \in sent' : w.id \in {w.from} \X (1 .. Cardinality({v \in sent' : v.from = w.from}))
  BY <1>10 DEF From
<1>12. \A v, w \in sent' : v.id = w.id => v = w
  BY <1>3 DEF NumberInv
<1>13. \A id \in Ids : read'[id] > 0 => \E w \in sent' : w.id = id
  BY DEF NumberInv
<1>14. \A q \in Peers :
          Cardinality(sent') + Cardinality(busy'[q]) + Cardinality(busy'[Other(q)]) <= MaxSent
  BY <1>5
<1>15. OfPeers(pool)' /\ count' \in [Logins -> Nat] /\ read' \in [Ids -> Nat]
  BY DEF NumberInv, OfPeers
<1>16. NumberInv'
  BY <1>5, <1>11, <1>12, <1>13, <1>14, <1>15 DEF NumberInv
<1>17. QED
  BY <1>3, <1>8, <1>9, <1>16

------------------------------------------------------------------------------
(* What is read, is read once *)

\* Time goes on: key pairs are made, messages sent and read.
GoesOn ==
  /\ \A q \in Peers : Grows(q)
  /\ sent \subseteq sent'
  /\ \A m \in sent : read[m.id] \in Nat /\ read'[m.id] \in Nat /\ read[m.id] <= read'[m.id]

LEMMA BegunStays ==
  ASSUME GoesOn, NEW p \in Peers, NEW x, Begun(p, x)
  PROVE  Begun(p, x)'
<1>1. CASE x.from = p
  <2>1. Grows(p)
    BY DEF GoesOn
  <2>2. x.eph \in {p} \X (1 .. fresh'[p])
    BY <1>1, <2>1 DEF Begun, Grows
  <2>3. QED
    BY <1>1, <2>2 DEF Begun
<1>2. CASE x.from # p
  <2>1. PICK h \in sent : h.init /\ h.from # p /\ h.eph = x.eph /\ read[h.id] > 0
    BY <1>2 DEF Begun
  <2>2. h \in sent' /\ read'[h.id] > 0
    BY <2>1 DEF GoesOn
  <2>3. QED
    BY <1>2, <2>1, <2>2 DEF Begun
<1>3. QED
  BY <1>1, <1>2

LEMMA PastStays ==
  ASSUME GoesOn, NEW p \in Peers, NEW s, Past(p, s), Heard(p)' \subseteq Heard(p)
  PROVE  Past(p, s)'
<1> SUFFICES ASSUME s # NoSession PROVE Past(p, s)'
  BY DEF Past
<1>1. Begun(p, s.root[1])'
  BY BegunStays DEF Past
<1>2. Clear(p, s)'
  BY DEF Past, Clear
<1>3. QED
  BY <1>1, <1>2 DEF Past

LEMMA ReplayStays ==
  ASSUME GoesOn, HandshakeReplayed
  PROVE  HandshakeReplayed'
<1>1. PICK m \in sent : m.init /\ read[m.id] > 1
  BY DEF HandshakeReplayed
<1>2. m \in sent' /\ read'[m.id] > 1
  BY <1>1 DEF GoesOn
<1>3. QED
  BY <1>1, <1>2 DEF HandshakeReplayed

\* A step in which nothing is read.
LEMMA ErasedRests ==
  ASSUME KeysInv, GoesOn, Erased, read' = read, NEW p \in Peers,
         \A m \in sent' : m \in sent \/ ~(read[m.id] > 0),
         \A q \in Peers : q # p => session'[q] = session[q] /\ disk'[q] = disk[q],
         \A s : s \in {session'[p], disk'[p]} =>
           s \in {session[p], disk[p], NoSession} \/ Past(p, s)'
  PROVE  Erased'
<1>1. ASSUME NEW q \in Peers PROVE Heard(q)' \subseteq Heard(q)
  BY DEF Heard
<1>2. ASSUME NEW q \in Peers PROVE Past(q, session[q])' /\ Past(q, disk[q])'
  <2>1. PICK s, d : s = session'[q] /\ d = disk'[q]
    OBVIOUS
  <2>2. ASSUME NEW x, x \in {session[q], disk[q], NoSession} PROVE Past(q, x)'
    <3>1. Past(q, x)
      BY <2>2 DEF Erased, Past
    <3>2. QED
      BY <1>1, <3>1, PastStays
  <2>3. ASSUME NEW x, x \in {s, d} PROVE Past(q, x)'
    <3>1. CASE q = p
      BY <2>1, <2>2, <2>3, <3>1
    <3>2. CASE q # p
      BY <2>1, <2>2, <2>3, <3>2
    <3>3. QED
      BY <3>1, <3>2
  <2>4. Past(q, s)' /\ Past(q, d)'
    BY <2>3
  <2>5. QED
    BY <2>1, <2>4
<1>3. ASSUME NEW m \in sent', read'[m.id] > 0
      PROVE  read'[m.id] = 1 /\ Begun(Other(m.from), m.key[1][1])'
  <2>1. m \in sent /\ m.from \in Peers
    BY <1>3 DEF KeysInv
  <2>2. read[m.id] = 1 /\ Begun(Other(m.from), m.key[1][1])
    BY <1>3, <2>1 DEF Erased
  <2>3. PICK q, x : q = Other(m.from) /\ x = m.key[1][1]
    OBVIOUS
  <2>4. Begun(q, x)'
    BY <2>1, <2>2, <2>3, OtherIs, BegunStays
  <2>5. QED
    BY <2>2, <2>3, <2>4
<1>4. QED
  BY <1>2, <1>3 DEF Erased

------------------------------------------------------------------------------
(* What is read, step by step *)

\* p makes n key pairs.
LEMMA FreshGrows ==
  ASSUME KeysInv, NEW p \in Peers, NEW n \in Nat, fresh' = [fresh EXCEPT ![p] = @ + n]
  PROVE  /\ \A q \in Peers : Grows(q)
         /\ fresh'[p] = fresh[p] + n /\ \A q \in Peers : q # p => fresh'[q] = fresh[q]
<1>1. OfPeers(fresh) /\ \A q \in Peers : fresh[q] \in Nat
  BY DEF KeysInv
<1>2. fresh'[p] = fresh[p] + n /\ \A q \in Peers : q # p => fresh'[q] = fresh[q]
  BY <1>1 DEF OfPeers
<1>3. ASSUME NEW q \in Peers PROVE Grows(q)
  <2>1. fresh[q] \in Nat
    BY <1>1
  <2>2. QED
    BY <1>2, <2>1 DEF Grows
<1>4. QED
  BY <1>2, <1>3

\* n is the number of messages, f has the bundles of both users.
LEMMA BothFit ==
  ASSUME NEW p \in Peers, NEW n \in Nat, NEW f, IsFiniteSet(f[p]), IsFiniteSet(f[Other(p)]),
         n + Cardinality(f[p]) + Cardinality(f[Other(p)]) <= MaxSent
  PROVE  \A q \in Peers :
           IsFiniteSet(f[q]) /\ n + Cardinality(f[q]) + Cardinality(f[Other(q)]) <= MaxSent
<1>1. Cardinality(f[p]) \in Nat /\ Cardinality(f[Other(p)]) \in Nat
  BY FS_CardinalityType
<1>2. Other(p) \in Peers /\ Other(Other(p)) = p /\ \A q \in Peers : q = p \/ q = Other(p)
  BY OtherIs
<1>3. n + Cardinality(f[Other(p)]) + Cardinality(f[p]) <= MaxSent
  BY <1>1, PoolAssumption
<1>4. QED
  BY <1>2, <1>3

\* What sessions keep and what is on the wire, after a step of p that may send m.
LEMMA HandshakeStays ==
  ASSUME HandshakeInv, \A q \in Peers : Grows(q), \A w \in sent : w.from \in Peers,
         NEW p \in Peers, NEW m, \A w \in sent' : w \in sent \/ w = m,
         m \in sent' =>
           \/ m \in sent
           \/ /\ m.from = p /\ m.n \in Nat /\ m.pn \in Nat
              /\ m.init => /\ m.eph = <<p, fresh[p] + 1>> /\ fresh[p] + 1 <= fresh'[p]
                           /\ m.key[1][1].from = p /\ m.key[1][1].eph = m.eph
                           /\ m.key[1][1].otpk = m.otpk,
         \A q \in Peers : q # p => session'[q] = session[q] /\ disk'[q] = disk[q],
         \A s : s \in {session'[p], disk'[p]} =>
           s \in {session[p], disk[p], NoSession} \/ KeepsWell(s)
  PROVE  HandshakeInv'
<1>1. ASSUME NEW q \in Peers, NEW s \in {session'[q], disk'[q]} \ {NoSession} PROVE KeepsWell(s)
  BY <1>1 DEF HandshakeInv
<1>2. ASSUME NEW w \in sent
      PROVE  /\ w.n \in Nat /\ w.pn \in Nat
             /\ w.init =>
                  LET x == w.key[1][1]
                  IN  /\ w.eph \in {w.from} \X (1 .. fresh'[w.from])
                      /\ x.from = w.from /\ x.eph = w.eph /\ x.otpk = w.otpk
  <2>1. PICK q : q = w.from
    OBVIOUS
  <2>2. Grows(q) /\ (w.init => w.eph \in {q} \X (1 .. fresh[q]))
    BY <2>1 DEF HandshakeInv
  <2>3. w.init => w.eph \in {q} \X (1 .. fresh'[q])
    BY <2>2 DEF Grows
  <2>4. QED
    BY <2>1, <2>3 DEF HandshakeInv
<1>3. ASSUME m \in sent', m \notin sent
      PROVE  /\ m.n \in Nat /\ m.pn \in Nat
             /\ m.init =>
                  LET x == m.key[1][1]
                  IN  /\ m.eph \in {m.from} \X (1 .. fresh'[m.from])
                      /\ x.from = m.from /\ x.eph = m.eph /\ x.otpk = m.otpk
  <2>1. m.from = p /\ Grows(p)
    BY <1>3
  <2>2. m.init => m.eph \in {p} \X (1 .. fresh'[p])
    <3> SUFFICES ASSUME m.init PROVE m.eph \in {p} \X (1 .. fresh'[p])
      OBVIOUS
    <3>1. m.eph = <<p, fresh[p] + 1>> /\ fresh[p] + 1 <= fresh'[p]
      BY <1>3
    <3>2. fresh[p] \in Nat /\ fresh'[p] \in Nat
      BY <2>1 DEF Grows
    <3>3. fresh[p] + 1 \in 1 .. fresh'[p]
      BY <3>1, <3>2
    <3>4. QED
      BY <3>1, <3>3
  <2>3. QED
    BY <1>3, <2>1, <2>2
<1>4. ASSUME NEW w \in sent, w.init, m \in sent', m \notin sent, m.init PROVE w.eph # m.eph
  <2>1. w.eph \in {w.from} \X (1 .. fresh[w.from])
    BY <1>4 DEF HandshakeInv
  <2>2. m.eph = <<p, fresh[p] + 1>> /\ Grows(p)
    BY <1>4
  <2>3. QED
    BY <2>1, <2>2 DEF Grows
<1>5. \A v, w \in sent : v.init /\ w.init /\ v.eph = w.eph => v = w
  BY DEF HandshakeInv
<1>6. \A v, w \in sent' : v.init /\ w.init /\ v.eph = w.eph => v = w
  BY <1>4, <1>5
<1>7. QED
  BY <1>1, <1>2, <1>3, <1>6 DEF HandshakeInv

\* Some step in which nothing is read and no one-time prekey is made.
LEMMA SpentStays ==
  ASSUME SpentInv, count' = count,
         \A w : w \in sent' /\ w.init /\ read'[w.id] > 0 /\ w.otpk # NoKey =>
           \/ /\ w \in sent /\ read'[w.id] = read[w.id]
              /\ pool'[Other(w.from)] \subseteq pool[Other(w.from)]
           \/ read'[w.id] = 1 /\ w.otpk \notin pool'[Other(w.from)]
  PROVE  SpentInv'
BY DEF SpentInv

WireInv == KeysInv /\ NumberInv /\ HandshakeInv

\* Every message that is on the wire.
LEMMA OnWire ==
  ASSUME WireInv, NEW m \in sent
  PROVE  /\ m.from \in Peers /\ m.id \in Ids /\ read[m.id] \in Nat
         /\ m.n \in Nat /\ m.pn \in Nat /\ m.key[2] \in Nat
         /\ m.key[1] # NoChain /\ Len(m.key[1]) \in Nat
<1>1. m.from \in Peers /\ SendsOn(m.from, m.key[1]) /\ m.key[2] \in Nat
  BY DEF WireInv, KeysInv
<1>2. m.id \in Ids /\ read[m.id] \in Nat
  BY <1>1, IdsIn DEF WireInv
<1>3. Len(m.key[1]) \in Nat \ {0, 1}
  BY <1>1 DEF SendsOn
<1>4. m.key[1] # NoChain
  <2>1. Len(NoChain) = 0
    BY DEF NoChain
  <2>2. QED
    BY <1>3, <2>1
<1>5. QED
  BY <1>1, <1>2, <1>3, <1>4 DEF WireInv, HandshakeInv

\* What a step that reads nothing leaves as it should be.
Rests ==
  NumberInv' /\ HandshakeInv' /\ GoesOn /\ (Erased => Erased') /\ (SpentInv => SpentInv')

\* A step of p that reads nothing, sends nothing and makes no session.
LEMMA NothingRead ==
  ASSUME WireInv, NEW p \in Peers, sent' = sent, read' = read, \A q \in Peers : Grows(q),
         OfPeers(pool)', count' \in [Logins -> Nat],
         \A q \in Peers :
           /\ IsFiniteSet(busy'[q])
           /\ Cardinality(sent) + Cardinality(busy'[q]) + Cardinality(busy'[Other(q)]) <= MaxSent,
         \A q \in Peers : q # p => session'[q] = session[q] /\ disk'[q] = disk[q],
         \A s : s \in {session'[p], disk'[p]} => s \in {session[p], disk[p], NoSession},
         \/ \E e \in Logins : count'[e] > 0
         \/ count' = count /\ \A q \in Peers : pool'[q] \subseteq pool[q]
  PROVE  Rests
<1>1. NumberInv'
  BY NumberRests DEF WireInv
<1>2. \A m \in sent : m.from \in Peers /\ read[m.id] \in Nat
  BY OnWire
<1>3. HandshakeInv'
  <2>1. PICK m : m = NoKey
    OBVIOUS
  <2>2. /\ \A w \in sent' : w \in sent \/ w = m
        /\ m \in sent' => m \in sent
    OBVIOUS
  <2>3. QED
    BY <1>2, <2>2, HandshakeStays DEF WireInv
<1>4. GoesOn
  BY <1>2 DEF GoesOn
<1>5. ASSUME Erased PROVE Erased'
  BY <1>4, <1>5, ErasedRests DEF WireInv
<1>6. ASSUME SpentInv PROVE SpentInv'
  <2>1. CASE \E e \in Logins : count'[e] > 0
    <3>1. ~(\A e \in Logins : count'[e] = 0)
      BY <2>1
    <3>2. QED
      BY <3>1 DEF SpentInv
  <2>2. CASE count' = count /\ \A q \in Peers : pool'[q] \subseteq pool[q]
    <3>1. \A w \in sent : pool'[Other(w.from)] \subseteq pool[Other(w.from)]
      BY <1>2, <2>2, OtherIs
    <3>2. QED
      BY <1>6, <2>2, <3>1, SpentStays
  <2>3. QED
    BY <2>1, <2>2
<1>7. QED
  BY <1>1, <1>3, <1>4, <1>5, <1>6 DEF Rests

\* Where the bundles are not touched.
LEMMA BusyFits ==
  ASSUME NumberInv, busy' = busy
  PROVE  \A q \in Peers :
           /\ IsFiniteSet(busy'[q])
           /\ Cardinality(sent) + Cardinality(busy'[q]) + Cardinality(busy'[Other(q)]) <= MaxSent
BY DEF NumberInv

LEMMA StillGrows ==
  ASSUME KeysInv, fresh' = fresh
  PROVE  \A q \in Peers : Grows(q)
BY DEF KeysInv, Grows

LEMMA TakeBundleRests ==
  ASSUME WireInv, NEW p \in Peers, TakeBundle(p)
  PROVE  Rests
<1>1. /\ UNCHANGED <<pool, session, disk, fresh, sent, read, count>>
      /\ Cardinality(sent) + Cardinality(busy[p]) + Cardinality(busy[Other(p)]) < MaxSent
  BY DEF TakeBundle, dsHistory
<1>2. PICK otpk : busy' = [busy EXCEPT ![p] = @ \cup {[spk |-> spk[Other(p)], otpk |-> otpk]}]
  BY DEF TakeBundle
<1>3. PICK b : b = [spk |-> spk[Other(p)], otpk |-> otpk]
  OBVIOUS
<1>5. busy'[p] = busy[p] \cup {b} /\ busy'[Other(p)] = busy[Other(p)]
  <2>1. OfPeers(busy)
    BY DEF WireInv, KeysInv
  <2>2. Other(p) \in Peers /\ Other(p) # p
    BY OtherIs
  <2>3. QED
    BY <1>2, <1>3, <2>1, <2>2 DEF OfPeers
<1>6. IsFiniteSet(busy[p]) /\ IsFiniteSet(busy[Other(p)])
  BY OtherIs DEF WireInv, NumberInv
<1>7. /\ IsFiniteSet(busy'[p]) /\ IsFiniteSet(busy'[Other(p)])
      /\ Cardinality(busy'[p]) <= Cardinality(busy[p]) + 1 /\ Cardinality(busy'[p]) \in Nat
  <2>1. /\ IsFiniteSet(busy[p] \cup {b})
        /\ Cardinality(busy[p] \cup {b}) =
             IF b \in busy[p] THEN Cardinality(busy[p]) ELSE Cardinality(busy[p]) + 1
    BY <1>6, FS_AddElement
  <2>2. Cardinality(busy[p]) \in Nat
    BY <1>6, FS_CardinalityType
  <2>3. QED
    BY <1>5, <1>6, <2>1, <2>2
<1>8. Cardinality(sent) \in Nat /\ Cardinality(busy[p]) \in Nat /\ Cardinality(busy[Other(p)]) \in Nat
  BY FromIs, BusyIs DEF WireInv
<1>9. Cardinality(sent) + Cardinality(busy'[p]) + Cardinality(busy'[Other(p)]) <= MaxSent
  BY <1>1, <1>5, <1>7, <1>8, PoolAssumption
<1>10. \A q \in Peers :
         /\ IsFiniteSet(busy'[q])
         /\ Cardinality(sent) + Cardinality(busy'[q]) + Cardinality(busy'[Other(q)]) <= MaxSent
  BY <1>7, <1>8, <1>9, BothFit
<1>11. \A q \in Peers : Grows(q)
  BY <1>1, StillGrows DEF WireInv
<1>12. OfPeers(pool)' /\ count' \in [Logins -> Nat]
  BY <1>1 DEF WireInv, NumberInv, OfPeers
<1>13. QED
  BY <1>1, <1>10, <1>11, <1>12, NothingRead

LEMMA LoginRests ==
  ASSUME WireInv, NEW p \in Peers, LoginAgain(p) \/ LoginRotates(p) \/ LoginTorn(p)
  PROVE  Rests
<1>1. PICK stored \in {disk[p], NoSession}, signed \in {spk[p], Pair(p, 1)} : Login(p, stored, signed)
  BY DEF LoginAgain, LoginRotates, LoginTorn
<1>2. /\ UNCHANGED <<sent, read>>
      /\ session' = [session EXCEPT ![p] = stored] /\ disk' = [disk EXCEPT ![p] = stored]
      /\ busy' = [busy EXCEPT ![p] = {}]
      /\ fresh' = [fresh EXCEPT ![p] = @ + 1 + PoolTarget]
      /\ \E all : pool' = [pool EXCEPT ![p] = all]
  BY <1>1 DEF Login
<1>3. PICK e \in Logins : count' = [count EXCEPT ![e] = @ + 1]
  BY DEF LoginAgain, LoginRotates, LoginTorn, Happens, Logins
<1>4. count \in [Logins -> Nat] /\ OfPeers(pool) /\ OfPeers(busy) /\ OfPeers(session) /\ OfPeers(disk)
      /\ OfPeers(fresh) /\ fresh[p] \in Nat
  BY DEF WireInv, NumberInv, KeysInv
<1>5. count' \in [Logins -> Nat] /\ count'[e] > 0
  BY <1>3, <1>4
<1>6. OfPeers(pool)'
  BY <1>2, <1>4 DEF OfPeers
<1>7. \A q \in Peers : Grows(q)
  <2>1. fresh'[p] = fresh[p] + 1 + PoolTarget /\ \A q \in Peers : q # p => fresh'[q] = fresh[q]
    BY <1>2, <1>4 DEF OfPeers
  <2>2. \A q \in Peers : fresh[q] \in Nat
    BY DEF WireInv, KeysInv
  <2>3. QED
    BY <2>1, <2>2, PoolAssumption DEF Grows
<1>8. /\ \A q \in Peers : q # p => session'[q] = session[q] /\ disk'[q] = disk[q]
      /\ session'[p] = stored /\ disk'[p] = stored
      /\ busy'[p] = {} /\ \A q \in Peers : q # p => busy'[q] = busy[q]
  BY <1>2, <1>4 DEF OfPeers
<1>9. \A q \in Peers :
        /\ IsFiniteSet(busy'[q])
        /\ Cardinality(sent) + Cardinality(busy'[q]) + Cardinality(busy'[Other(q)]) <= MaxSent
  <2>1. Other(p) \in Peers /\ busy'[Other(p)] = busy[Other(p)]
    BY <1>8, OtherIs
  <2>2. /\ Cardinality(sent) \in Nat /\ Cardinality(busy[p]) \in Nat
        /\ Cardinality(busy[Other(p)]) \in Nat
        /\ Cardinality(sent) + Cardinality(busy[p]) + Cardinality(busy[Other(p)]) <= MaxSent
    BY FromIs, BusyIs DEF WireInv
  <2>3. IsFiniteSet(busy'[p]) /\ Cardinality(busy'[p]) = 0 /\ IsFiniteSet(busy'[Other(p)])
    BY <1>8, <2>1, FS_EmptySet DEF WireInv, NumberInv
  <2>4. Cardinality(sent) + Cardinality(busy'[p]) + Cardinality(busy'[Other(p)]) <= MaxSent
    BY <2>1, <2>2, <2>3, PoolAssumption
  <2>5. QED
    BY <2>2, <2>3, <2>4, BothFit
<1>10. \A s : s \in {session'[p], disk'[p]} => s \in {session[p], disk[p], NoSession}
  BY <1>1, <1>8
<1>11. QED
  BY <1>2, <1>5, <1>6, <1>7, <1>8, <1>9, <1>10, NothingRead

LEMMA UnknownRests ==
  ASSUME WireInv, NEW m, ReceiveUnknown(Other(m.from), m) \/ UNCHANGED dsVars
  PROVE  Rests
<1>1. UNCHANGED <<pool, session, disk, busy, fresh, sent, read, count>>
  BY DEF ReceiveUnknown, dsVars, prekeyVars, sessionVars, dsHistory
<1>2. \A q \in Peers : Grows(q)
  BY <1>1, StillGrows DEF WireInv
<1>3. \A q \in Peers :
        /\ IsFiniteSet(busy'[q])
        /\ Cardinality(sent) + Cardinality(busy'[q]) + Cardinality(busy'[Other(q)]) <= MaxSent
  BY <1>1, BusyFits DEF WireInv
<1>4. OfPeers(pool)' /\ count' \in [Logins -> Nat]
  BY <1>1 DEF WireInv, NumberInv, OfPeers
<1>5. PICK p \in Peers : TRUE
  BY PeersAssumption
<1>6. QED
  BY <1>1, <1>2, <1>3, <1>4, <1>5, NothingRead

\* p sends message m in the state s, on a session that becomes t.
LEMMA SomethingSent ==
  ASSUME WireInv, NEW p \in Peers, NEW m, NEW t, sent' = sent \cup {m}, m.from = p,
         m.id = <<p, Cardinality(From(p)) + 1>>, m.n \in Nat, m.pn \in Nat,
         m.init => /\ m.eph = <<p, fresh[p] + 1>> /\ fresh[p] + 1 <= fresh'[p]
                   /\ m.key[1][1].from = p /\ m.key[1][1].eph = m.eph
                   /\ m.key[1][1].otpk = m.otpk,
         UNCHANGED <<read, pool, count>>, \A q \in Peers : Grows(q),
         \A q \in Peers :
           /\ IsFiniteSet(busy'[q])
           /\ Cardinality(sent) + 1 + Cardinality(busy'[q]) + Cardinality(busy'[Other(q)]) <= MaxSent,
         \A q \in Peers : q # p => session'[q] = session[q] /\ disk'[q] = disk[q],
         session'[p] = t, disk'[p] = t, KeepsWell(t),
         Erased => Begun(p, t.root[1])' /\ Clear(p, t)
  PROVE  Rests
<1>1. NumberInv' /\ m.id \in Ids /\ read[m.id] = 0 /\ \A w \in sent : w.id # m.id
  BY NumberSends DEF WireInv
<1>2. \A w \in sent : w.from \in Peers /\ read[w.id] \in Nat
  BY OnWire
<1>3. HandshakeInv'
  BY <1>2, HandshakeStays DEF WireInv
<1>4. GoesOn
  BY <1>2 DEF GoesOn
<1>5. \A w \in sent' : w \in sent \/ ~(read[w.id] > 0)
  BY <1>1
<1>6. ASSUME Erased PROVE Erased'
  <2>1. Heard(p)' \subseteq Heard(p)
    BY <1>5 DEF Heard
  <2>2. Clear(p, t)'
    BY <1>6, <2>1 DEF Clear
  <2>3. Past(p, t)'
    BY <1>6, <2>2 DEF Past
  <2>4. \A s : s \in {session'[p], disk'[p]} => s \in {session[p], disk[p], NoSession} \/ Past(p, s)'
    BY <2>3
  <2>5. QED
    BY <1>4, <1>5, <1>6, <2>4, ErasedRests DEF WireInv
<1>7. ASSUME SpentInv PROVE SpentInv'
  BY <1>5, <1>7, SpentStays
<1>8. QED
  BY <1>1, <1>3, <1>4, <1>6, <1>7 DEF Rests

LEMMA SendInitRests ==
  ASSUME WireInv, NEW p \in Peers, NEW bundle \in busy[p], SendInit(p, bundle)
  PROVE  Rests
<1>1. PICK secret, hello :
        LET s == InitInitiator(secret, bundle.spk, Pair(p, 2))
        IN  /\ secret.from = p /\ secret.eph = Pair(p, 1) /\ secret.otpk = hello.otpk
            /\ hello.eph = Pair(p, 1)
            /\ Persist(p, AfterSeal(s))
            /\ sent' = sent \cup {Message(p, hello, s)}
  <2> DEFINE eph == Pair(p, 1)
             secret == [from |-> p, eph |-> eph, spk |-> bundle.spk, otpk |-> bundle.otpk]
             hello == [init |-> TRUE, eph |-> eph, otpk |-> bundle.otpk]
  <2>1. /\ secret.from = p /\ secret.eph = Pair(p, 1) /\ secret.otpk = hello.otpk
        /\ hello.eph = Pair(p, 1)
    OBVIOUS
  <2>2. LET s == InitInitiator(secret, bundle.spk, Pair(p, 2))
        IN  /\ Persist(p, AfterSeal(s))
            /\ sent' = sent \cup {Message(p, hello, s)}
    BY DEF SendInit
  <2>3. QED
    BY <2>1, <2>2
<1>2. /\ fresh' = [fresh EXCEPT ![p] = @ + 2] /\ busy' = [busy EXCEPT ![p] = @ \ {bundle}]
      /\ UNCHANGED <<read, pool, count>>
  BY DEF SendInit, prekeyVars
<1>3. PICK c, k : c = Mixed(<<secret>>, k, bundle.spk) /\ k = Pair(p, 2)
  OBVIOUS
<1>4. PICK s, t, m : /\ s = InitInitiator(secret, bundle.spk, k) /\ t = AfterSeal(s)
                     /\ m = Message(p, hello, s)
  OBVIOUS
<1>5. IsList(c) /\ Len(c) = 2 /\ c[1] = secret
  BY <1>3, FirstMixed
<1>6. /\ t = [root |-> c, dhs |-> k, dhr |-> bundle.spk, send |-> c, recv |-> NoChain,
              sn |-> 1, rn |-> 0, pn |-> 0, skipped |-> <<>>]
      /\ m.from = p /\ m.key = <<c, 0>> /\ m.n = 0 /\ m.pn = 0
      /\ m.eph = hello.eph /\ m.otpk = hello.otpk
      /\ m.id = <<p, Cardinality(From(p)) + 1>>
  <2>1. s = [root |-> c, dhs |-> k, dhr |-> bundle.spk, send |-> c, recv |-> NoChain,
             sn |-> 0, rn |-> 0, pn |-> 0, skipped |-> <<>>]
    BY <1>3, <1>4 DEF InitInitiator
  <2>2. t = [root |-> c, dhs |-> k, dhr |-> bundle.spk, send |-> c, recv |-> NoChain,
             sn |-> 1, rn |-> 0, pn |-> 0, skipped |-> <<>>]
    BY <1>4, <2>1 DEF AfterSeal
  <2>3. QED
    BY <1>4, <2>1, <2>2 DEF Message, Sealed, From
<1>7. OfPeers(session) /\ OfPeers(disk) /\ OfPeers(busy) /\ OfPeers(fresh) /\ fresh[p] \in Nat
  BY DEF WireInv, KeysInv
<1>8. /\ sent' = sent \cup {m}
      /\ session'[p] = t /\ disk'[p] = t
      /\ \A q \in Peers : q # p => session'[q] = session[q] /\ disk'[q] = disk[q]
  BY <1>1, <1>3, <1>4, <1>7 DEF Persist, OfPeers
<1>9. (\A q \in Peers : Grows(q)) /\ fresh'[p] = fresh[p] + 2
  BY <1>2, FreshGrows DEF WireInv
<1>10. secret.eph = <<p, fresh[p] + 1>> /\ m.key[1] = c /\ m.eph = secret.eph /\ m.otpk = secret.otpk
  BY <1>1, <1>6 DEF Pair
<1>11. \A q \in Peers :
         /\ IsFiniteSet(busy'[q])
         /\ Cardinality(sent) + 1 + Cardinality(busy'[q]) + Cardinality(busy'[Other(q)]) <= MaxSent
  <2>1. busy'[p] = busy[p] \ {bundle} /\ busy'[Other(p)] = busy[Other(p)] /\ Other(p) \in Peers
    BY <1>2, <1>7, OtherIs DEF OfPeers
  <2>2. IsFiniteSet(busy[p]) /\ IsFiniteSet(busy[Other(p)])
    BY <2>1 DEF WireInv, NumberInv
  <2>3. IsFiniteSet(busy'[p]) /\ Cardinality(busy'[p]) = Cardinality(busy[p]) - 1
    BY <2>1, <2>2, FS_RemoveElement
  <2>4. /\ Cardinality(sent) \in Nat /\ Cardinality(busy[p]) \in Nat
        /\ Cardinality(busy[Other(p)]) \in Nat
        /\ Cardinality(sent) + Cardinality(busy[p]) + Cardinality(busy[Other(p)]) <= MaxSent
    BY FromIs, BusyIs DEF WireInv
  <2>5. PICK n : n = Cardinality(sent) + 1
    OBVIOUS
  <2>6. n \in Nat /\ n + Cardinality(busy'[p]) + Cardinality(busy'[Other(p)]) <= MaxSent
    BY <2>1, <2>3, <2>4, <2>5, PoolAssumption
  <2>7. IsFiniteSet(busy'[Other(p)])
    BY <2>1, <2>2
  <2>8. \A q \in Peers :
          IsFiniteSet(busy'[q]) /\ n + Cardinality(busy'[q]) + Cardinality(busy'[Other(q)]) <= MaxSent
    BY <2>3, <2>6, <2>7, BothFit
  <2>9. QED
    BY <2>5, <2>8
<1>12. KeepsWell(t)
  <2>1. /\ t.root = c /\ t.recv = NoChain /\ t.rn = 0 /\ t.sn = 1 /\ t.pn = 0
        /\ t.skipped = <<>> /\ IsSession(t)
    BY <1>6 DEF IsSession
  <2>2. Len(t.skipped) = 0 /\ IsList(t.skipped)
    BY <2>1 DEF IsList
  <2>3. IsList(t.root) /\ Len(t.root) > 0
    <3>1. t.root = c
      BY <2>1
    <3>2. Len(c) > 0
      BY <1>5
    <3>3. QED
      BY <1>5, <3>1, <3>2, Zenon
  <2>4. \A i \in 1 .. Len(t.skipped) : FALSE
    BY <2>2
  <2>5. t.rn \in Nat /\ t.sn \in Nat /\ t.pn \in Nat
    BY <2>1
  <2>6. QED
    BY <2>1, <2>2, <2>3, <2>4, <2>5 DEF KeepsWell, Apart
<1>13. ASSUME Erased PROVE Begun(p, t.root[1])' /\ Clear(p, t)
  <2>1. /\ t.root = c /\ t.recv = NoChain /\ t.skipped = <<>> /\ Len(t.skipped) = 0
        /\ t.root[1] = secret
    BY <1>5, <1>6
  <2>2. Begun(p, secret)'
    <3>1. fresh[p] + 1 \in 1 .. fresh'[p]
      BY <1>7, <1>9
    <3>2. secret.from = p /\ secret.eph = <<p, fresh[p] + 1>>
      BY <1>1, <1>10
    <3>3. secret.eph \in {p} \X (1 .. fresh'[p])
      BY <3>1, <3>2
    <3>4. QED
      BY <3>2, <3>3 DEF Begun
  <2>3. ASSUME NEW w \in Heard(p) PROVE ~Opens(t, w.key) /\ w.key[1][1] # secret
    <3>1. w \in sent /\ w.from # p /\ read[w.id] > 0
      BY <2>3 DEF Heard
    <3>2. w.key[1] # NoChain /\ w.from \in Peers
      BY <3>1, OnWire
    <3>3. ~Opens(t, w.key)
      BY <2>1, <3>2 DEF Opens
    <3>4. Other(w.from) = p
      BY <3>1, <3>2, OtherIs
    <3>5. Begun(p, w.key[1][1])
      BY <1>13, <3>1, <3>4 DEF Erased
    <3>6. w.key[1][1] # secret
      <4> SUFFICES ASSUME w.key[1][1] = secret PROVE FALSE
        OBVIOUS
      <4>1. Begun(p, secret)
        BY <3>5
      <4>2. secret.eph \in {p} \X (1 .. fresh[p])
        BY <1>1, <4>1 DEF Begun
      <4>3. QED
        BY <1>7, <1>10, <4>2
    <3>7. QED
      BY <3>3, <3>6
  <2>4. Clear(p, t)
    BY <2>1, <2>3 DEF Clear
  <2>5. Begun(p, t.root[1])'
    BY <2>1, <2>2
  <2>6. QED
    BY <2>4, <2>5
<1>14. m.init => /\ m.eph = <<p, fresh[p] + 1>> /\ fresh[p] + 1 <= fresh'[p]
                 /\ m.key[1][1].from = p /\ m.key[1][1].eph = m.eph
                 /\ m.key[1][1].otpk = m.otpk
  <2>1. m.key[1][1] = secret
    BY <1>5, <1>10
  <2>2. fresh[p] + 1 <= fresh'[p]
    BY <1>7, <1>9
  <2>3. QED
    BY <1>1, <1>10, <2>1, <2>2
<1>15. m.n \in Nat /\ m.pn \in Nat /\ m.from = p /\ m.id = <<p, Cardinality(From(p)) + 1>>
  BY <1>6
<1>16. QED
  BY <1>2, <1>8, <1>9, <1>11, <1>12, <1>13, <1>14, <1>15, SomethingSent

LEMMA SendContRests ==
  ASSUME WireInv, NEW p \in Peers, SendCont(p)
  PROVE  Rests
<1>1. PICK s : s = session[p]
  OBVIOUS
<1>2. PICK t, m : t = AfterSeal(s) /\ m = Message(p, Plain, s)
  OBVIOUS
<1>3. /\ s # NoSession /\ UNCHANGED <<pool, busy, fresh, read, count>>
      /\ sent' = sent \cup {m} /\ session' = [session EXCEPT ![p] = t] /\ disk' = [disk EXCEPT ![p] = t]
      /\ Cardinality(sent) + Cardinality(busy[p]) + Cardinality(busy[Other(p)]) < MaxSent
  BY <1>1, <1>2 DEF SendCont, Persist, prekeyVars
<1>4. KeepsWell(s)
  BY <1>1, <1>3 DEF WireInv, HandshakeInv
<1>5. /\ IsSession(s) /\ IsList(s.root) /\ Len(s.root) > 0
      /\ s.rn \in Nat /\ s.sn \in Nat /\ s.pn \in Nat
  BY <1>4 DEF KeepsWell
<1>6. t = [root |-> s.root, dhs |-> s.dhs, dhr |-> s.dhr, send |-> s.send, recv |-> s.recv,
           sn |-> s.sn + 1, rn |-> s.rn, pn |-> s.pn, skipped |-> s.skipped]
  BY <1>2, <1>5 DEF AfterSeal, IsSession
<1>7. /\ t.root = s.root /\ t.recv = s.recv /\ t.rn = s.rn /\ t.pn = s.pn /\ t.skipped = s.skipped
      /\ t.sn \in Nat /\ IsSession(t)
  BY <1>5, <1>6 DEF IsSession
<1>8. KeepsWell(t)
  <2>1. \A e : Keeps(s, e) => Keeps(t, e)
    BY <1>7 DEF Keeps, Within
  <2>2. QED
    BY <1>4, <1>7, <2>1 DEF KeepsWell, Within
<1>9. ASSUME Erased PROVE Begun(p, t.root[1])' /\ Clear(p, t)
  <2>1. Begun(p, s.root[1]) /\ Clear(p, s)
    BY <1>1, <1>3, <1>9 DEF Erased, Past
  <2>2. PICK x : x = s.root[1]
    OBVIOUS
  <2>3. Begun(p, x)'
    <3>1. CASE x.from = p
      BY <1>3, <2>1, <2>2, <3>1 DEF Begun
    <3>2. CASE x.from # p
      BY <1>3, <2>1, <2>2, <3>2 DEF Begun
    <3>3. QED
      BY <3>1, <3>2
  <2>4. Begun(p, t.root[1])'
    BY <1>7, <2>2, <2>3
  <2>5. Clear(p, t)
    BY <1>7, <2>1 DEF Clear, Opens
  <2>6. QED
    BY <2>4, <2>5
<1>10. /\ m.from = p /\ ~m.init /\ m.n = s.sn /\ m.pn = s.pn
       /\ m.id = <<p, Cardinality(From(p)) + 1>>
  BY <1>2 DEF Message, Sealed, Plain, From
<1>11. OfPeers(session) /\ OfPeers(disk)
  BY DEF WireInv, KeysInv
<1>12. /\ session'[p] = t /\ disk'[p] = t
       /\ \A q \in Peers : q # p => session'[q] = session[q] /\ disk'[q] = disk[q]
  BY <1>3, <1>11 DEF OfPeers
<1>13. \A q \in Peers : Grows(q)
  BY <1>3, StillGrows DEF WireInv
<1>14. \A q \in Peers :
         /\ IsFiniteSet(busy'[q])
         /\ Cardinality(sent) + 1 + Cardinality(busy'[q]) + Cardinality(busy'[Other(q)]) <= MaxSent
  <2>1. IsFiniteSet(busy[p]) /\ IsFiniteSet(busy[Other(p)])
    BY OtherIs DEF WireInv, NumberInv
  <2>2. /\ Cardinality(sent) \in Nat /\ Cardinality(busy[p]) \in Nat
        /\ Cardinality(busy[Other(p)]) \in Nat
    BY FromIs, BusyIs DEF WireInv
  <2>3. PICK n : n = Cardinality(sent) + 1
    OBVIOUS
  <2>4. n \in Nat /\ n + Cardinality(busy[p]) + Cardinality(busy[Other(p)]) <= MaxSent
    BY <1>3, <2>2, <2>3, PoolAssumption
  <2>5. \A q \in Peers :
          IsFiniteSet(busy[q]) /\ n + Cardinality(busy[q]) + Cardinality(busy[Other(q)]) <= MaxSent
    BY <2>1, <2>4, BothFit
  <2>6. QED
    BY <1>3, <2>3, <2>5
<1>15. QED
  BY <1>3, <1>5, <1>8, <1>9, <1>10, <1>12, <1>13, <1>14, SomethingSent

------------------------------------------------------------------------------
(* A message is read *)

\* A session that is clear of what its user has read is so after it reads on.
LEMMA ReadsClear ==
  ASSUME WireInv, NEW p \in Peers, NEW s, KeepsWell(s), Clear(p, s),
         NEW m \in sent, NEW r, WellOpened(s, m, r), sent' = sent,
         \A w \in Heard(p)' : w \in Heard(p) \/ (w = m /\ r.ok)
  PROVE  Clear(p, r.s)'
<1>1. PICK t : t = r.s
  OBVIOUS
<1>2. /\ KeepsWell(t) /\ t.root[1] = s.root[1] /\ Len(s.root) <= Len(t.root)
      /\ \A k : k[2] \in Nat /\ Opens(t, k) => Opens(s, k) \/ Beyond(s, k)
  BY <1>1 DEF WellOpened, OpensNoMore
<1>3. Len(s.root) \in Nat /\ Len(t.root) \in Nat
  BY <1>2 DEF KeepsWell, IsList
<1>4. ASSUME NEW w \in Heard(p)
      PROVE  ~Opens(t, w.key) /\ (w.key[1][1] = t.root[1] => Len(w.key[1]) <= Len(t.root))
  <2>1. w.key[2] \in Nat /\ Len(w.key[1]) \in Nat
    BY OnWire DEF Heard
  <2>2. ~Opens(s, w.key) /\ (w.key[1][1] = s.root[1] => Len(w.key[1]) <= Len(s.root))
    BY DEF Clear
  <2>3. ~Beyond(s, w.key)
    BY <1>3, <2>1, <2>2 DEF Beyond
  <2>4. ~Opens(t, w.key)
    BY <1>2, <2>1, <2>2, <2>3
  <2>5. w.key[1][1] = t.root[1] => Len(w.key[1]) <= Len(t.root)
    BY <1>2, <1>3, <2>1, <2>2
  <2>6. QED
    BY <2>4, <2>5
<1>5. ASSUME r.ok PROVE ~Opens(t, m.key) /\ Len(m.key[1]) <= Len(t.root)
  BY <1>1, <1>5 DEF WellOpened, Within
<1>6. \A w \in Heard(p)' :
        ~Opens(t, w.key) /\ (w.key[1][1] = t.root[1] => Len(w.key[1]) <= Len(t.root))
  BY <1>4, <1>5
<1>7. Clear(p, t)'
  BY <1>6 DEF Clear
<1>8. QED
  BY <1>1, <1>7

\* Such a session opens nothing that its user has read.
LEMMA ReadsNew ==
  ASSUME WireInv, NEW p \in Peers, NEW s, KeepsWell(s), Clear(p, s),
         NEW m \in sent, NEW r, WellOpened(s, m, r), r.ok
  PROVE  m \notin Heard(p)
<1> SUFFICES ASSUME m \in Heard(p) PROVE FALSE
  OBVIOUS
<1>1. ~Opens(s, m.key) /\ (m.key[1][1] = s.root[1] => Len(m.key[1]) <= Len(s.root))
  BY DEF Clear
<1>2. Beyond(s, m.key)
  BY <1>1 DEF WellOpened
<1>3. Len(s.root) \in Nat /\ Len(m.key[1]) \in Nat
  BY OnWire DEF KeepsWell, IsList
<1>4. QED
  BY <1>1, <1>2, <1>3 DEF Beyond

\* Whoever reads a message has begun its handshake, and has not read it before.
LEMMA ErasedReads ==
  ASSUME WireInv, GoesOn, Erased, NEW p \in Peers, NEW m \in sent, m.from # p, NEW ok,
         sent' = sent, read' = IF ok THEN [read EXCEPT ![m.id] = @ + 1] ELSE read,
         ok => m \notin Heard(p) /\ Begun(p, m.key[1][1])',
         \A q \in Peers : q # p => session'[q] = session[q] /\ disk'[q] = disk[q],
         \A x : x \in {session'[p], disk'[p]} => Past(p, x)'
  PROVE  Erased'
<1>0. m.from \in Peers /\ m.id \in Ids /\ read[m.id] \in Nat
  BY OnWire
<1>1. read \in [Ids -> Nat] /\ \A v, w \in sent : v.id = w.id => v = w
  BY DEF WireInv, NumberInv
<1>2. \A w \in sent : w # m => read'[w.id] = read[w.id]
  BY <1>0, <1>1, OnWire
<1>3. ASSUME NEW q \in Peers, q # p PROVE Past(q, session[q])' /\ Past(q, disk[q])'
  <2>1. m.from = q
    BY <1>0, <1>3, OtherIs
  <2>2. Heard(q)' \subseteq Heard(q)
    BY <1>2, <2>1 DEF Heard
  <2>3. PICK s, d : s = session[q] /\ d = disk[q]
    OBVIOUS
  <2>4. Past(q, s)' /\ Past(q, d)'
    BY <2>2, <2>3, PastStays DEF Erased
  <2>5. session'[q] = s /\ disk'[q] = d
    BY <1>3, <2>3
  <2>6. QED
    BY <2>4, <2>5
<1>4. Past(p, session[p])' /\ Past(p, disk[p])'
  <2>1. PICK s, d : s = session'[p] /\ d = disk'[p]
    OBVIOUS
  <2>2. Past(p, s)' /\ Past(p, d)'
    BY <2>1
  <2>3. QED
    BY <2>1, <2>2
<1>5. ASSUME NEW w \in sent', read'[w.id] > 0
      PROVE  read'[w.id] = 1 /\ Begun(Other(w.from), w.key[1][1])'
  <2>1. w \in sent /\ w.from \in Peers
    BY <1>5, OnWire
  <2>2. PICK q, x : q = Other(w.from) /\ x = w.key[1][1] /\ q \in Peers
    BY <2>1, OtherIs
  <2>3. CASE w = m /\ ok
    <3>1. read[m.id] = 0
      BY <1>0, <2>3 DEF Heard
    <3>2. read'[m.id] = 1
      BY <1>0, <1>1, <2>3, <3>1
    <3>3. q = p
      BY <1>0, <2>2, <2>3, OtherIs
    <3>4. Begun(q, x)'
      BY <2>2, <2>3, <3>3
    <3>5. QED
      BY <2>2, <2>3, <3>2, <3>4
  <2>4. CASE w # m \/ ~ok
    <3>1. read'[w.id] = read[w.id]
      BY <1>2, <2>1, <2>4
    <3>2. read[w.id] = 1 /\ Begun(q, x)
      BY <1>5, <2>1, <2>2, <3>1 DEF Erased
    <3>3. Begun(q, x)'
      BY <2>2, <3>2, BegunStays
    <3>4. QED
      BY <2>2, <3>1, <3>2, <3>3
  <2>5. QED
    BY <2>3, <2>4
<1>6. \A q \in Peers : Past(q, session[q])' /\ Past(q, disk[q])'
  BY <1>3, <1>4
<1>7. QED
  BY <1>5, <1>6 DEF Erased

\* p has opened m, or not, with a session that was s.
LEMMA SomethingRead ==
  ASSUME WireInv, NEW p \in Peers, NEW m \in sent, m.from # p,
         NEW s, KeepsWell(s), NEW r, WellOpened(s, m, r), sent' = sent,
         OfPeers(pool)', UNCHANGED <<count, busy>>, \A q \in Peers : Grows(q),
         \A q \in Peers : q # p => session'[q] = session[q] /\ disk'[q] = disk[q],
         read' = IF r.ok THEN [read EXCEPT ![m.id] = @ + 1] ELSE read,
         session'[p] = r.s, disk'[p] = r.s \/ (~r.ok /\ disk'[p] = disk[p]),
         Erased /\ ~HandshakeReplayed' => Clear(p, s) /\ Begun(p, s.root[1])'
  PROVE  NumberInv' /\ HandshakeInv' /\ (EraseInv => EraseInv')
<1>1. PICK t : t = r.s
  OBVIOUS
<1>2. /\ KeepsWell(t) /\ t.root[1] = s.root[1]
      /\ r.ok => m.key[1][1] = s.root[1]
  BY <1>1 DEF WellOpened, OpensNoMore, Within
<1>3. NumberInv'
  <2>1. count' \in [Logins -> Nat]
    BY DEF WireInv, NumberInv
  <2>2. \A q \in Peers :
          /\ IsFiniteSet(busy'[q])
          /\ Cardinality(sent) + Cardinality(busy'[q]) + Cardinality(busy'[Other(q)]) <= MaxSent
    BY BusyFits DEF WireInv
  <2>3. read' = read \/ \E w \in sent : read' = [read EXCEPT ![w.id] = @ + 1]
    OBVIOUS
  <2>4. QED
    BY <2>1, <2>2, <2>3, NumberRests DEF WireInv
<1>4. \A w \in sent : w.from \in Peers /\ w.id \in Ids /\ read[w.id] \in Nat
  BY OnWire
<1>5. \A x : x \in {session'[p], disk'[p]} => x \in {session[p], disk[p], NoSession} \/ KeepsWell(x)
  BY <1>1, <1>2
<1>6. HandshakeInv'
  <2>1. \A w \in sent' : w \in sent \/ w = m
    OBVIOUS
  <2>2. m \in sent' => m \in sent
    OBVIOUS
  <2>3. QED
    BY <1>4, <1>5, <2>1, <2>2, HandshakeStays DEF WireInv
<1>7. GoesOn
  <2>1. read \in [Ids -> Nat]
    BY DEF WireInv, NumberInv
  <2>2. \A w \in sent : read'[w.id] \in Nat /\ read[w.id] <= read'[w.id]
    BY <1>4, <2>1
  <2>3. QED
    BY <1>4, <2>2 DEF GoesOn
<1>8. ASSUME EraseInv, ~HandshakeReplayed' PROVE Erased'
  <2>1. Erased
    BY <1>7, <1>8, ReplayStays DEF EraseInv
  <2>2. Clear(p, s) /\ Begun(p, s.root[1])'
    BY <1>8, <2>1
  <2>3. PICK x : x = s.root[1]
    OBVIOUS
  <2>4. Begun(p, x)' /\ (r.ok => Begun(p, m.key[1][1])')
    <3>1. Begun(p, x)'
      BY <2>2, <2>3
    <3>2. r.ok => m.key[1][1] = x
      BY <1>2, <2>3
    <3>3. QED
      BY <3>1, <3>2
  <2>5. r.ok => m \notin Heard(p)
    BY <2>2, ReadsNew
  <2>6. \A w \in Heard(p)' : w \in Heard(p) \/ (w = m /\ r.ok)
    <3>1. read \in [Ids -> Nat] /\ \A v, w \in sent : v.id = w.id => v = w
      BY DEF WireInv, NumberInv
    <3>2. \A w \in sent : read'[w.id] = read[w.id] \/ (w = m /\ r.ok)
      BY <1>4, <3>1
    <3>3. QED
      BY <3>2 DEF Heard
  <2>7. Past(p, t)'
    <3>1. Clear(p, t)'
      BY <1>1, <2>2, <2>6, ReadsClear
    <3>2. t.root[1] = x
      BY <1>2, <2>3
    <3>3. QED
      BY <2>4, <3>1, <3>2 DEF Past
  <2>8. ASSUME NEW y, y \in {session'[p], disk'[p]} PROVE Past(p, y)'
    <3>1. CASE y = t
      BY <2>7, <3>1
    <3>2. CASE y # t
      <4>1. y = disk[p] /\ ~r.ok
        BY <1>1, <2>8, <3>2
      <4>2. Past(p, y)
        BY <2>1, <4>1 DEF Erased
      <4>3. Heard(p)' \subseteq Heard(p)
        BY <2>6, <4>1
      <4>4. QED
        BY <1>7, <4>2, <4>3, PastStays
    <3>3. QED
      BY <3>1, <3>2
  <2>9. QED
    BY <1>7, <2>1, <2>4, <2>5, <2>8, ErasedReads
<1>9. QED
  BY <1>3, <1>6, <1>8 DEF EraseInv

\* What a step leaves as it should be.
WireStep ==
  NumberInv' /\ HandshakeInv' /\ (EraseInv => EraseInv') /\ (SpentInv => SpentInv')

LEMMA RestsWell ==
  ASSUME Rests
  PROVE  WireStep
<1>1. ASSUME EraseInv, ~HandshakeReplayed' PROVE Erased'
  BY <1>1, ReplayStays DEF EraseInv, Rests
<1>2. QED
  BY <1>1 DEF Rests, WireStep, EraseInv

\* p opens m, or not, with the session it has.
LEMMA ReceiveContReads ==
  ASSUME WireInv, NEW m \in sent, ReceiveCont(Other(m.from), m)
  PROVE  WireStep
<1>1. PICK p \in Peers : p = Other(m.from) /\ p # m.from
  BY OnWire, OtherIs
<1>2. PICK s, r : s = session[p] /\ r = Opened(s, m, Pair(p, 1))
  OBVIOUS
<1>3. /\ s # NoSession /\ ~m.init
      /\ session' = [session EXCEPT ![p] = r.s]
      /\ disk' = [disk EXCEPT ![p] = r.s] \/ (~r.ok /\ disk' = disk)
      /\ fresh' = IF r.s.dhs = Pair(p, 1) THEN [fresh EXCEPT ![p] = @ + 1] ELSE fresh
      /\ read' = IF r.ok THEN [read EXCEPT ![m.id] = @ + 1] ELSE read
      /\ UNCHANGED <<pool, busy, sent, count>>
  <2>1. ReceiveCont(p, m)
    BY <1>1
  <2>2. QED
    BY <1>2, <2>1 DEF ReceiveCont, Persist, Note, prekeyVars
<1>4. KeepsWell(s)
  BY <1>2, <1>3 DEF WireInv, HandshakeInv
<1>5. WellOpened(s, m, r)
  BY <1>2, <1>4, OnWire, OpenedKeeps
<1>6. OfPeers(session) /\ OfPeers(disk) /\ OfPeers(pool)
  BY DEF WireInv, KeysInv, NumberInv
<1>7. OfPeers(pool)'
  BY <1>3, <1>6 DEF OfPeers
<1>8. /\ \A q \in Peers : q # p => session'[q] = session[q] /\ disk'[q] = disk[q]
      /\ session'[p] = r.s
      /\ disk'[p] = r.s \/ (~r.ok /\ disk'[p] = disk[p])
  BY <1>3, <1>6 DEF OfPeers
<1>9. \A q \in Peers : Grows(q)
  <2>1. CASE fresh' = fresh
    BY <2>1, StillGrows DEF WireInv
  <2>2. CASE fresh' = [fresh EXCEPT ![p] = @ + 1]
    BY <2>2, FreshGrows DEF WireInv
  <2>3. QED
    BY <1>3, <2>1, <2>2
<1>10. ASSUME Erased PROVE Clear(p, s) /\ Begun(p, s.root[1])'
  <2>1. Begun(p, s.root[1]) /\ Clear(p, s)
    BY <1>2, <1>3, <1>10 DEF Erased, Past
  <2>2. PICK x : x = s.root[1]
    OBVIOUS
  <2>3. GoesOn
    <3>1. read \in [Ids -> Nat] /\ \A w \in sent : w.id \in Ids /\ read[w.id] \in Nat
      BY OnWire DEF WireInv, NumberInv
    <3>2. \A w \in sent : read'[w.id] \in Nat /\ read[w.id] <= read'[w.id]
      BY <1>3, <3>1
    <3>3. QED
      BY <1>3, <1>9, <3>1, <3>2 DEF GoesOn
  <2>4. Begun(p, x)'
    BY <2>1, <2>2, <2>3, BegunStays
  <2>5. QED
    BY <2>1, <2>2, <2>4
<1>11. NumberInv' /\ HandshakeInv' /\ (EraseInv => EraseInv')
  BY <1>1, <1>3, <1>4, <1>5, <1>7, <1>8, <1>9, <1>10, SomethingRead
<1>12. ASSUME SpentInv PROVE SpentInv'
  <2>1. read \in [Ids -> Nat] /\ \A v, w \in sent : v.id = w.id => v = w
    BY DEF WireInv, NumberInv
  <2>2. \A w \in sent : w # m => read'[w.id] = read[w.id]
    BY <1>3, <2>1, OnWire
  <2>3. QED
    BY <1>3, <1>12, <2>2, SpentStays
<1>13. QED
  BY <1>11, <1>12 DEF WireStep

\* The session that a responder begins with.
LEMMA ResponderKeeps ==
  ASSUME NEW x, NEW k
  PROVE  LET i == InitResponder(x, k)
         IN  KeepsWell(i) /\ i.root[1] = x /\ i.recv = NoChain /\ Len(i.skipped) = 0
<1>1. PICK i : i = InitResponder(x, k)
  OBVIOUS
<1>2. i = [root |-> <<x>>, dhs |-> k, dhr |-> NoKey, send |-> NoChain, recv |-> NoChain,
           sn |-> 0, rn |-> 0, pn |-> 0, skipped |-> <<>>]
  BY <1>1 DEF InitResponder
<1>3. /\ i.root = <<x>> /\ i.recv = NoChain /\ i.rn = 0 /\ i.sn = 0 /\ i.pn = 0
      /\ i.skipped = <<>> /\ IsSession(i)
  BY <1>2 DEF IsSession
<1>4. IsList(i.root) /\ Len(i.root) = 1 /\ i.root[1] = x
  <2>1. PICK l : l = <<x>>
    OBVIOUS
  <2>2. IsList(l) /\ Len(l) = 1 /\ l[1] = x
    BY <2>1 DEF IsList
  <2>3. QED
    BY <1>3, <2>1, <2>2
<1>5. IsList(i.skipped) /\ Len(i.skipped) = 0
  BY <1>3 DEF IsList
<1>6. \A j \in 1 .. Len(i.skipped) : FALSE
  BY <1>5
<1>7. i.rn \in Nat /\ i.sn \in Nat /\ i.pn \in Nat /\ Len(i.root) > 0
  BY <1>3, <1>4
<1>8. KeepsWell(i)
  BY <1>3, <1>4, <1>5, <1>6, <1>7 DEF KeepsWell, Apart
<1>9. QED
  BY <1>1, <1>3, <1>4, <1>5, <1>8

\* p answers a handshake m, or does not.
LEMMA ReceiveInitReads ==
  ASSUME WireInv, NEW m \in sent, ReceiveInit(Other(m.from), m)
  PROVE  WireStep
<1>1. PICK p \in Peers : p = Other(m.from) /\ p # m.from
  BY OnWire, OtherIs
<1>2. PICK secret, r :
        /\ secret.from = m.from /\ secret.eph = m.eph
        /\ secret.otpk = IF m.otpk \in pool[p] THEN m.otpk ELSE NoKey
        /\ r = Opened(InitResponder(secret, spk[p]), m, Pair(p, 1))
        /\ IF r.ok THEN Persist(p, r.s) ELSE UNCHANGED <<session, disk>>
        /\ Note(p, m, r)
  <2> DEFINE otpk == IF m.otpk \in pool[p] THEN m.otpk ELSE NoKey
             secret == [from |-> m.from, eph |-> m.eph, spk |-> spk[p], otpk |-> otpk]
             r == Opened(InitResponder(secret, spk[p]), m, Pair(p, 1))
  <2>1. secret.from = m.from /\ secret.eph = m.eph /\ secret.otpk = otpk
    OBVIOUS
  <2>2. ReceiveInit(p, m)
    BY <1>1
  <2>3. /\ IF r.ok THEN Persist(p, r.s) ELSE UNCHANGED <<session, disk>>
        /\ Note(p, m, r)
    BY <2>2 DEF ReceiveInit
  <2> HIDE DEF secret
  <2>4. QED
    BY <2>1, <2>3
<1>3. /\ m.init /\ pool' = [pool EXCEPT ![p] = @ \ {m.otpk}]
      /\ UNCHANGED <<busy, sent, count>>
  BY <1>1 DEF ReceiveInit, Consumed
<1>4. /\ IF r.ok THEN session' = [session EXCEPT ![p] = r.s] /\ disk' = [disk EXCEPT ![p] = r.s]
                 ELSE UNCHANGED <<session, disk>>
      /\ fresh' = IF r.s.dhs = Pair(p, 1) THEN [fresh EXCEPT ![p] = @ + 1] ELSE fresh
      /\ read' = IF r.ok THEN [read EXCEPT ![m.id] = @ + 1] ELSE read
  BY <1>2 DEF Persist, Note
<1>5. OfPeers(session) /\ OfPeers(disk) /\ OfPeers(pool)
  BY DEF WireInv, KeysInv, NumberInv
<1>6. /\ OfPeers(pool)' /\ pool'[p] = pool[p] \ {m.otpk}
      /\ \A q \in Peers : pool'[q] \subseteq pool[q]
  BY <1>3, <1>5 DEF OfPeers
<1>7. \A q \in Peers : Grows(q)
  <2>1. CASE fresh' = fresh
    BY <2>1, StillGrows DEF WireInv
  <2>2. CASE fresh' = [fresh EXCEPT ![p] = @ + 1]
    BY <2>2, FreshGrows DEF WireInv
  <2>3. QED
    BY <1>4, <2>1, <2>2
<1>8. CASE ~r.ok
  <2>1. \A q \in Peers :
          /\ IsFiniteSet(busy'[q])
          /\ Cardinality(sent) + Cardinality(busy'[q]) + Cardinality(busy'[Other(q)]) <= MaxSent
    BY <1>3, BusyFits DEF WireInv
  <2>2. count' \in [Logins -> Nat] /\ count' = count
    BY <1>3 DEF WireInv, NumberInv
  <2>3. UNCHANGED <<session, disk, read>> /\ sent' = sent
    BY <1>3, <1>4, <1>8
  <2>4. Rests
    BY <1>6, <1>7, <2>1, <2>2, <2>3, NothingRead
  <2>5. QED
    BY <2>4, RestsWell
<1>9. CASE r.ok
  <2>1. PICK i : i = InitResponder(secret, spk[p])
    OBVIOUS
  <2>2. KeepsWell(i) /\ i.root[1] = secret /\ i.recv = NoChain /\ Len(i.skipped) = 0
    BY <2>1, ResponderKeeps
  <2>3. WellOpened(i, m, r)
    BY <1>2, <2>1, <2>2, OnWire, OpenedKeeps
  <2>4. m.key[1][1] = secret
    BY <1>9, <2>2, <2>3 DEF WellOpened, OpensNoMore, Within
  <2>5. m.id \in Ids /\ read[m.id] \in Nat /\ m.from \in Peers
    BY OnWire
  <2>6. read \in [Ids -> Nat] /\ \A v, w \in sent : v.id = w.id => v = w
    BY DEF WireInv, NumberInv
  <2>7. read'[m.id] = read[m.id] + 1
    BY <1>4, <1>9, <2>5, <2>6
  <2>8. ASSUME Erased, ~HandshakeReplayed' PROVE Clear(p, i) /\ Begun(p, i.root[1])'
    <3>1. read[m.id] = 0
      BY <1>3, <2>5, <2>7, <2>8 DEF HandshakeReplayed
    <3>2. ASSUME NEW w \in Heard(p) PROVE ~Opens(i, w.key) /\ w.key[1][1] # secret
      <4>1. w \in sent /\ w.from # p /\ read[w.id] > 0
        BY <3>2 DEF Heard
      <4>2. w.key[1] # NoChain /\ w.from \in Peers
        BY <4>1, OnWire
      <4>3. ~Opens(i, w.key)
        BY <2>2, <4>2 DEF Opens
      <4>4. Other(w.from) = p
        BY <4>1, <4>2, OtherIs
      <4>5. Begun(p, w.key[1][1])
        BY <2>8, <4>1, <4>4 DEF Erased
      <4>6. w.key[1][1] # secret
        <5> SUFFICES ASSUME w.key[1][1] = secret PROVE FALSE
          OBVIOUS
        <5>1. Begun(p, secret) /\ secret.from # p
          BY <1>1, <1>2, <4>5
        <5>2. PICK h \in sent : h.init /\ h.eph = secret.eph /\ read[h.id] > 0
          BY <5>1 DEF Begun
        <5>3. h = m
          BY <1>2, <1>3, <5>2 DEF WireInv, HandshakeInv
        <5>4. QED
          BY <3>1, <5>2, <5>3
      <4>7. QED
        BY <4>3, <4>6
    <3>3. Clear(p, i)
      BY <2>2, <3>2 DEF Clear
    <3>4. Begun(p, secret)'
      <4>1. m \in sent' /\ m.init /\ m.from # p /\ m.eph = secret.eph /\ secret.from # p
        BY <1>1, <1>2, <1>3
      <4>2. read'[m.id] > 0
        BY <2>5, <2>7
      <4>3. QED
        BY <4>1, <4>2 DEF Begun
    <3>5. Begun(p, i.root[1])'
      BY <2>2, <3>4
    <3>6. QED
      BY <3>3, <3>5
  <2>9. NumberInv' /\ HandshakeInv' /\ (EraseInv => EraseInv')
    <3>1. /\ \A q \in Peers : q # p => session'[q] = session[q] /\ disk'[q] = disk[q]
          /\ session'[p] = r.s /\ disk'[p] = r.s
      BY <1>4, <1>5, <1>9 DEF OfPeers
    <3>2. m.from # p
      BY <1>1
    <3>3. QED
      BY <1>3, <1>4, <1>6, <1>7, <2>2, <2>3, <2>8, <3>1, <3>2, SomethingRead
  <2>10. ASSUME SpentInv PROVE SpentInv'
    <3> SUFFICES ASSUME \A e \in Logins : count[e] = 0
                 PROVE  SpentInv'
      BY <1>3 DEF SpentInv
    <3>1. \A w \in sent : w # m => read'[w.id] = read[w.id]
      BY <1>4, <2>5, <2>6, OnWire
    <3>2. \A w \in sent : pool'[Other(w.from)] \subseteq pool[Other(w.from)]
      BY <1>6, OnWire, OtherIs
    <3>3. ASSUME m.otpk # NoKey PROVE read'[m.id] = 1 /\ m.otpk \notin pool'[p]
      <4>1. m.key[1][1].otpk = m.otpk
        BY <1>3 DEF WireInv, HandshakeInv
      <4>2. m.otpk \in pool[p]
        BY <1>2, <2>4, <3>3, <4>1
      <4>3. ~(read[m.id] > 0)
        BY <1>1, <1>3, <2>10, <3>3, <4>2 DEF SpentInv
      <4>4. read'[m.id] = 1
        BY <2>5, <2>7, <4>3
      <4>5. QED
        BY <1>6, <4>4
    <3>4. QED
      BY <1>1, <1>3, <2>10, <3>1, <3>2, <3>3, SpentStays
  <2>11. QED
    BY <2>9, <2>10 DEF WireStep
<1>10. QED
  BY <1>8, <1>9

LEMMA EraseInit == DSInit => NumberInv /\ HandshakeInv /\ EraseInv /\ SpentInv
<1> SUFFICES ASSUME DSInit PROVE NumberInv /\ HandshakeInv /\ EraseInv /\ SpentInv
  OBVIOUS
<1>1. /\ sent = {} /\ read = [id \in Ids |-> 0] /\ count = [e \in Logins |-> 0]
      /\ \A p \in Peers : busy[p] = {} /\ session[p] = NoSession /\ disk[p] = NoSession
  BY DEF DSInit
<1>2. NumberInv
  <2>1. IsFiniteSet({}) /\ Cardinality({}) = 0
    BY FS_EmptySet
  <2>2. \A p \in Peers : Other(p) \in Peers
    BY OtherIs
  <2>3. OfPeers(pool)
    BY DEF DSInit, OfPeers
  <2>4. read \in [Ids -> Nat] /\ (\A id \in Ids : ~(read[id] > 0)) /\ count \in [Logins -> Nat]
    BY <1>1
  <2>5. \A p \in Peers :
          Cardinality(sent) + Cardinality(busy[p]) + Cardinality(busy[Other(p)]) <= MaxSent
    BY <1>1, <2>1, <2>2, PoolAssumption
  <2>6. IsFiniteSet(sent) /\ \A p \in Peers : IsFiniteSet(busy[p])
    BY <1>1, <2>1
  <2>7. QED
    BY <1>1, <2>3, <2>4, <2>5, <2>6 DEF NumberInv
<1>3. HandshakeInv
  BY <1>1 DEF HandshakeInv
<1>4. EraseInv /\ SpentInv
  BY <1>1 DEF EraseInv, Erased, Past, SpentInv
<1>5. QED
  BY <1>2, <1>3, <1>4

\* The four invariants hold together with that of KeysUnique.
SessionInv == WireInv /\ EraseInv /\ SpentInv

LEMMA SessionsKeep == DSSpec => []SessionInv
<1>1. DSInit => SessionInv
  BY KeysInit, EraseInit DEF SessionInv, WireInv
<1>2. SessionInv /\ [DSNext]_dsVars => SessionInv'
  <2> SUFFICES ASSUME WireInv, EraseInv, SpentInv, [DSNext]_dsVars PROVE SessionInv'
    BY DEF SessionInv
  <2>1. KeysInv'
    BY KeysStep DEF WireInv
  <2>2. ASSUME Rests PROVE WireStep
    BY <2>2, RestsWell
  <2>3. ASSUME NEW p \in Peers, TakeBundle(p) PROVE WireStep
    BY <2>2, <2>3, TakeBundleRests
  <2>4. ASSUME NEW p \in Peers, NEW bundle \in busy[p], SendInit(p, bundle) PROVE WireStep
    BY <2>2, <2>4, SendInitRests
  <2>5. ASSUME NEW p \in Peers, SendCont(p) PROVE WireStep
    BY <2>2, <2>5, SendContRests
  <2>6. ASSUME NEW p \in Peers, LoginAgain(p) \/ LoginRotates(p) \/ LoginTorn(p) PROVE WireStep
    BY <2>2, <2>6, LoginRests
  <2>7. ASSUME NEW m \in sent, ReceiveUnknown(Other(m.from), m) PROVE WireStep
    BY <2>2, <2>7, UnknownRests
  <2>8. ASSUME NEW m \in sent, ReceiveCont(Other(m.from), m) PROVE WireStep
    BY <2>8, ReceiveContReads
  <2>9. ASSUME NEW m \in sent, ReceiveInit(Other(m.from), m) PROVE WireStep
    BY <2>9, ReceiveInitReads
  <2>10. ASSUME UNCHANGED dsVars PROVE WireStep
    BY <2>2, <2>10, UnknownRests
  <2>11. WireStep
    BY <2>3, <2>4, <2>5, <2>6, <2>7, <2>8, <2>9, <2>10 DEF DSNext
  <2>12. QED
    BY <2>1, <2>11 DEF WireStep, SessionInv, WireInv
<1>3. QED
  BY <1>1, <1>2, PTL DEF DSSpec

\* The key of a message that was read is nowhere at its reader any more, neither in
\* memory nor on disk, for any number of messages, handshakes, logins and torn files
\* and any order of delivery, until a handshake is read twice: decrypt deletes every
\* key that it uses or passes, and a ratchet step the chain it leaves.
THEOREM ReadKeysErased == DSSpec => []KeysErased
<1>1. SessionInv => KeysErased
  <2> SUFFICES ASSUME SessionInv, ~HandshakeReplayed, NEW m \in sent, read[m.id] > 0,
                      NEW s \in {session[Other(m.from)], disk[Other(m.from)]} \ {NoSession}
               PROVE  ~Gives(s, m.key)
    BY DEF KeysErased
  <2>1. WireInv /\ Erased
    BY DEF SessionInv, EraseInv
  <2>2. PICK p \in Peers : p = Other(m.from) /\ p # m.from /\ m.from \in Peers
    BY <2>1, OnWire, OtherIs
  <2>3. Past(p, s) /\ KeepsWell(s) /\ Ahead(p, s)
    BY <2>1, <2>2 DEF Erased, WireInv, HandshakeInv, KeysInv
  <2>4. m \in Heard(p)
    BY <2>2 DEF Heard
  <2>5. ~Opens(s, m.key)
    BY <2>3, <2>4 DEF Past, Clear
  <2>6. DOMAIN s.skipped = 1 .. Len(s.skipped)
    BY <2>3 DEF KeepsWell, IsList
  <2>7. m.key[1] # s.send
    <3> SUFFICES ASSUME m.key[1] = s.send PROVE FALSE
      OBVIOUS
    <3>1. PICK c : c = s.send
      OBVIOUS
    <3>2. SendsOn(p, c) /\ SendsOn(m.from, c)
      BY <2>1, <2>3, <3>1 DEF Ahead, WireInv, KeysInv
    <3>3. /\ c[1].from \in Peers
          /\ Len(c) % 2 = IF c[1].from = p THEN 0 ELSE 1
          /\ Len(c) % 2 = IF c[1].from = m.from THEN 0 ELSE 1
      BY <3>2 DEF SendsOn
    <3>4. c[1].from = p \/ c[1].from = m.from
      BY <2>2, <3>3, OtherIs
    <3>5. QED
      BY <2>2, <3>3, <3>4
  <2>8. QED
    BY <2>5, <2>6, <2>7 DEF Gives, Opens
<1>2. QED
  BY <1>1, SessionsKeep, PTL

\* A message is read twice only where a handshake is, and a handshake only where it
\* brought no one-time prekey or its user has logged in: _decrypt_from takes the one-time
\* prekey out of the pool before it opens a handshake with it.
THEOREM NothingReadTwice == DSSpec => []ReadOnce
<1>1. SessionInv => ReadOnce
  <2> SUFFICES ASSUME SessionInv, NEW id \in Ids, read[id] > 1
               PROVE  \E m \in sent :
                        /\ m.init
                        /\ read[m.id] > 1
                        /\ m.otpk = NoKey \/ \E e \in Logins : count[e] > 0
    BY DEF ReadOnce
  <2>1. WireInv /\ EraseInv /\ SpentInv
    BY DEF SessionInv
  <2>2. read \in [Ids -> Nat] /\ count \in [Logins -> Nat]
    BY <2>1 DEF WireInv, NumberInv
  <2>3. PICK w \in sent : w.id = id
    BY <2>1, <2>2 DEF WireInv, NumberInv
  <2>4. HandshakeReplayed
    <3>1. ~Erased
      BY <2>2, <2>3 DEF Erased
    <3>2. QED
      BY <2>1, <3>1 DEF EraseInv
  <2>5. PICK m \in sent : m.init /\ read[m.id] > 1
    BY <2>4 DEF HandshakeReplayed
  <2>6. ASSUME m.otpk # NoKey PROVE \E e \in Logins : count[e] > 0
    <3>1. read[m.id] \in Nat
      BY <2>1, OnWire
    <3>2. ~(\A e \in Logins : count[e] = 0)
      BY <2>1, <2>5, <2>6, <3>1 DEF SpentInv
    <3>3. QED
      BY <2>2, <3>2
  <2>7. QED
    BY <2>5, <2>6
<1>2. QED
  BY <1>1, SessionsKeep, PTL

------------------------------------------------------------------------------
(* The inductive invariant of OneSessionReadable *)

\* What OneSessionReadable supposes of the run, with at most one handshake.
Calm ==
  /\ \A h, i \in Handshakes : h = i
  /\ \A id \in Ids : got[id] <= 1
  /\ count["rotate"] = 0 /\ count["torn"] = 0
  /\ ~over

\* The messages on their way to p.
Coming(p) == {m \in sent : m.from = Other(p) /\ got[m.id] = 0}

\* The session of p; before p has one, the one it begins with when h comes.
End(p, h) ==
  IF session[p] = NoSession THEN InitResponder(h.key[1][1], spk[p]) ELSE session[p]

\* s has the key of m in its store, or still to come on its receiving chain.
Matches(e, m) == e.dh = m.dh /\ e.n = m.n
Holds(x, m) == \E i \in 1 .. Len(x) : Matches(x[i], m) /\ x[i].key = m.key
InStore(s, m) == Holds(s.skipped, m)

OnChain(s, m) == m.dh = s.dhr /\ m.key[1] = s.recv /\ m.n >= s.rn

\* The end s receives on the chain that t sends on, and opens every message of W.
Level(s, t, W) ==
  /\ t.send = s.recv /\ t.dhs = s.dhr /\ s.rn <= t.sn
  /\ \A m \in W : InStore(s, m) \/ OnChain(s, m)

\* The end t has turned since: of the messages of W, s opens those of the chain before
\* and earlier ones, and turns to the rest.
Behind(s, t, W) ==
  /\ t.send = Mixed(s.root, s.dhs, t.dhs) /\ t.dhs # s.dhr
  /\ \A i \in 1 .. Len(s.skipped) : s.skipped[i].dh # t.dhs
  /\ \A m \in W :
       \/ m.dh = t.dhs /\ m.key[1] = t.send /\ m.pn = t.pn
       \/ InStore(s, m)
       \/ OnChain(s, m) /\ m.n < t.pn

\* Of two ends the first is level, and the other behind it.
Paired(s, t, V, W) == Level(s, t, V) /\ Behind(t, s, W)

InStep(p, h) == Paired(End(p, h), End(Other(p), h), Coming(p), Coming(Other(p)))

\* The key pairs of the other of p.
Known(p) == {Other(p)} \X (1 .. fresh[Other(p)])

\* s knows public keys of K only. What it keeps for the last one is of its receiving
\* chain.
Tidy(K, s) ==
  /\ s.dhr \in K \/ (s.dhr = NoKey /\ s.recv = NoChain)
  /\ Len(s.skipped) <= MaxSkipped
  /\ \A i \in 1 .. Len(s.skipped) :
       /\ s.skipped[i].dh \in K
       /\ s.skipped[i].dh = s.dhr => s.skipped[i].key[1] = s.recv

\* A bundle has the signed prekey of q, and a one-time prekey that q has on disk.
OfBundle(q, b) == b.spk = spk[q] /\ (b.otpk = NoKey \/ b.otpk \in saved[q])

\* The session that h began: h is the first message that its receiver opens.
Talk(h) ==
  /\ h.key[1][1] = [from |-> h.from, eph |-> h.eph, spk |-> spk[Other(h.from)], otpk |-> h.otpk]
  /\ h.otpk = NoKey \/ h.otpk \in saved[Other(h.from)]
  /\ session[h.from] # NoSession
  /\ session[Other(h.from)] # NoSession => got[h.id] > 0
  /\ session[Other(h.from)] = NoSession =>
       /\ InStep(h.from, h)
       /\ \A m \in sent : m.from = h.from
  /\ \E p \in Peers : InStep(p, h)
  /\ \A p \in Peers : Tidy(Known(p), End(p, h))

OneTalk ==
  /\ disk = session /\ failed = {}
  /\ \A p \in Peers :
       /\ spk[p] \in {p} \X (1 .. fresh[p]) /\ public[p] \subseteq saved[p]
       /\ \A b \in busy[p] : OfBundle(Other(p), b)
  /\ (\A h \in Handshakes : got[h.id] = 0) => \A p \in Peers : saved[p] \subseteq pool[p]
  /\ Handshakes = {} => sent = {} /\ \A p \in Peers : session[p] = NoSession
  /\ \A h \in Handshakes : Talk(h)

TalkInv ==
  /\ got \in [Ids -> Nat] /\ OfPeers(saved) /\ OfPeers(public)
  /\ \A m \in sent : m.key = <<m.key[1], m.n>>
  /\ Calm => OneTalk

------------------------------------------------------------------------------
(* What the store holds *)

\* A key is put into the store x, whose size is within its bound. As long as the store
\* is not full afterwards, it holds what it held, and the key.
LEMMA StoreHolds ==
  ASSUME NEW E, NEW x \in Seq(E), NEW e \in E, Len(x) <= MaxSkipped,
         NEW m, Matches(e, m) => e.key = m.key
  PROVE  LET y == Store(x, e)
         IN  /\ Len(y) <= MaxSkipped /\ (Len(x) = MaxSkipped => Len(y) = MaxSkipped)
             /\ Len(y) # MaxSkipped /\ (Holds(x, m) \/ Matches(e, m)) => Holds(y, m)
<1>0. DOMAIN x = 1 .. Len(x) /\ Len(x) \in Nat /\ MaxSkipped \in Nat
  BY SkippedAssumption
<1>1. CASE \E i \in DOMAIN x : <<x[i].dh, x[i].n>> = <<e.dh, e.n>>
  <2>1. PICK y : y = [i \in DOMAIN x |-> IF <<x[i].dh, x[i].n>> = <<e.dh, e.n>> THEN e ELSE x[i]]
    OBVIOUS
  <2>2. y \in [1 .. Len(x) -> E]
    BY <1>0, <2>1
  <2>3. Len(y) = Len(x)
    BY <1>0, <2>2
  <2>4. ASSUME Holds(x, m) PROVE Holds(y, m)
    <3>1. PICK i \in 1 .. Len(x) : Matches(x[i], m) /\ x[i].key = m.key
      BY <2>4 DEF Holds
    <3>2. y[i] = IF <<x[i].dh, x[i].n>> = <<e.dh, e.n>> THEN e ELSE x[i]
      BY <1>0, <2>1
    <3>3. Matches(y[i], m) /\ y[i].key = m.key
      <4>1. CASE <<x[i].dh, x[i].n>> = <<e.dh, e.n>>
        BY <3>1, <3>2, <4>1 DEF Matches
      <4>2. CASE <<x[i].dh, x[i].n>> # <<e.dh, e.n>>
        BY <3>1, <3>2, <4>2
      <4>3. QED
        BY <4>1, <4>2
    <3>4. QED
      BY <2>3, <3>3 DEF Holds
  <2>5. ASSUME Matches(e, m) PROVE Holds(y, m)
    <3>1. PICK i \in 1 .. Len(x) : <<x[i].dh, x[i].n>> = <<e.dh, e.n>>
      BY <1>0, <1>1
    <3>2. y[i] = e
      BY <1>0, <2>1, <3>1
    <3>3. QED
      BY <2>3, <2>5, <3>2 DEF Holds
  <2>6. Store(x, e) = y
    BY <1>1, <2>1 DEF Store
  <2>7. QED
    BY <2>3, <2>4, <2>5, <2>6
<1>2. CASE ~\E i \in DOMAIN x : <<x[i].dh, x[i].n>> = <<e.dh, e.n>>
  <2>1. PICK all : all = Append(x, e)
    OBVIOUS
  <2>2. /\ all \in Seq(E) /\ Len(all) = Len(x) + 1 /\ all[Len(x) + 1] = e
        /\ \A i \in 1 .. Len(x) : all[i] = x[i]
    BY <1>0, <2>1
  <2>3. Store(x, e) = IF Len(all) > MaxSkipped THEN Tail(all) ELSE all
    BY <1>2, <2>1 DEF Store
  <2>4. CASE Len(all) > MaxSkipped
    <3>1. Len(Tail(all)) = Len(x)
      BY <1>0, <2>2
    <3>2. Len(x) = MaxSkipped
      <4>1. Len(all) = Len(x) + 1
        BY <2>2
      <4>2. PICK k, n : k = Len(x) /\ n = MaxSkipped
        OBVIOUS
      <4>3. k \in Nat /\ n \in Nat /\ k <= n /\ k + 1 > n
        BY <1>0, <2>4, <4>1, <4>2
      <4>4. k = n
        BY <4>3
      <4>5. QED
        BY <4>2, <4>4
    <3>3. QED
      BY <2>3, <2>4, <3>1, <3>2
  <2>5. CASE ~(Len(all) > MaxSkipped)
    <3>1. Len(all) <= MaxSkipped /\ Len(x) # MaxSkipped
      <4>1. Len(all) = Len(x) + 1
        BY <2>2
      <4>2. PICK k, n, l : k = Len(x) /\ n = MaxSkipped /\ l = Len(all)
        OBVIOUS
      <4>3. k \in Nat /\ n \in Nat /\ l = k + 1 /\ ~(l > n)
        BY <1>0, <2>5, <4>1, <4>2
      <4>4. l <= n /\ k # n
        BY <4>3
      <4>5. QED
        BY <4>2, <4>4
    <3>2. ASSUME Holds(x, m) PROVE Holds(all, m)
      <4>1. PICK i \in 1 .. Len(x) : Matches(x[i], m) /\ x[i].key = m.key
        BY <3>2 DEF Holds
      <4>2. all[i] = x[i] /\ i \in 1 .. Len(all)
        BY <1>0, <2>2
      <4>3. QED
        BY <4>1, <4>2 DEF Holds
    <3>3. ASSUME Matches(e, m) PROVE Holds(all, m)
      <4>1. Len(x) + 1 \in 1 .. Len(all)
        BY <1>0, <2>2
      <4>2. QED
        BY <2>2, <3>3, <4>1 DEF Holds
    <3>4. Store(x, e) = all
      BY <2>3, <2>5
    <3>5. QED
      BY <3>1, <3>2, <3>3, <3>4
  <2>6. QED
    BY <2>4, <2>5
<1>3. QED
  BY <1>1, <1>2

\* The same for all keys that are put into it.
LEMMA StoredHolds ==
  ASSUME NEW E, NEW x \in Seq(E), Len(x) <= MaxSkipped,
         NEW keys, Len(keys) \in Nat, \A i \in 1 .. Len(keys) : keys[i] \in E,
         NEW m, \A i \in 1 .. Len(keys) : Matches(keys[i], m) => keys[i].key = m.key
  PROVE  LET y == Stored(x, keys)
         IN  /\ Len(y) <= MaxSkipped /\ (Len(x) = MaxSkipped => Len(y) = MaxSkipped)
             /\ Len(y) # MaxSkipped /\ (Holds(x, m) \/ \E i \in 1 .. Len(keys) : Matches(keys[i], m))
                => Holds(y, m)
<1>1. PICK S : S = {y \in Seq(E) : Len(y) <= MaxSkipped}
  OBVIOUS
<1>2. ASSUME NEW y \in S, NEW i \in 1 .. Len(keys) PROVE Store(y, keys[i]) \in S
  <2>1. y \in Seq(E) /\ Len(y) <= MaxSkipped /\ keys[i] \in E
    BY <1>1
  <2>2. Len(Store(y, keys[i])) <= MaxSkipped
    BY <2>1, StoreHolds
  <2>3. Store(y, keys[i]) \in Seq(E)
    <3>1. DOMAIN y = 1 .. Len(y) /\ Len(y) \in Nat
      BY <2>1
    <3>2. [j \in DOMAIN y |-> IF <<y[j].dh, y[j].n>> = <<keys[i].dh, keys[i].n>> THEN keys[i] ELSE y[j]]
            \in Seq(E)
      BY <2>1, <3>1
    <3>3. Append(y, keys[i]) \in Seq(E) /\ Tail(Append(y, keys[i])) \in Seq(E)
      BY <2>1
    <3>4. QED
      BY <3>2, <3>3 DEF Store
  <2>4. QED
    BY <1>1, <2>2, <2>3
<1>3. PICK put \in [0 .. Len(keys) -> S] :
        /\ put[0] = x /\ Stored(x, keys) = put[Len(keys)]
        /\ \A i \in 1 .. Len(keys) : put[i] = Store(put[i - 1], keys[i])
  <2>1. x \in S /\ \A y \in S : \A i \in 1 .. Len(keys) : Store(y, keys[i]) \in S
    BY <1>1, <1>2
  <2>2. StoredWithin(S, x, keys)
    BY <2>1, StoredSteps
  <2>3. QED
    BY <2>2 DEF StoredWithin
<1> DEFINE N == Len(keys)
           Had(i) == Holds(x, m) \/ \E j \in 1 .. i : Matches(keys[j], m)
           Good(i) == /\ Len(x) = MaxSkipped => Len(put[i]) = MaxSkipped
                      /\ Len(put[i]) # MaxSkipped /\ Had(i) => Holds(put[i], m)
           Bad == {i \in 0 .. N : ~Good(i)}
<1>4. Bad = {}
  <2>1. SUFFICES ASSUME Bad # {} PROVE FALSE
    OBVIOUS
  <2>2. PICK n \in Bad : \A k \in Bad : n <= k
    <3>1. Bad \subseteq Nat
      OBVIOUS
    <3> HIDE DEF Bad
    <3>2. QED
      BY <2>1, <3>1, LeastElement
  <2>3. Good(0)
    BY <1>3
  <2>4. n # 0 /\ n \in 0 .. N
    BY <2>2, <2>3
  <2>5. n - 1 \in 0 .. N /\ n - 1 \notin Bad
    <3> HIDE DEF Bad
    <3>1. n - 1 \in 0 .. N /\ ~(n <= n - 1)
      BY <2>4
    <3>2. QED
      BY <2>2, <3>1
  <2>6. Good(n - 1)
    BY <2>5
  <2>7. PICK y, e : y = put[n - 1] /\ e = keys[n]
    OBVIOUS
  <2>8. y \in Seq(E) /\ Len(y) <= MaxSkipped /\ e \in E /\ put[n] = Store(y, e)
        /\ (Matches(e, m) => e.key = m.key) /\ n \in 1 .. N
    BY <1>1, <1>3, <2>4, <2>5, <2>7
  <2>9. /\ Len(y) = MaxSkipped => Len(put[n]) = MaxSkipped
        /\ Len(put[n]) # MaxSkipped /\ (Holds(y, m) \/ Matches(e, m)) => Holds(put[n], m)
    BY <2>8, StoreHolds
  <2>10. Had(n) => Had(n - 1) \/ Matches(e, m)
    <3>1. \A j \in 1 .. n : j \in 1 .. (n - 1) \/ j = n
      BY <2>4
    <3>2. QED
      BY <2>7, <3>1
  <2>11. /\ Len(x) = MaxSkipped => Len(y) = MaxSkipped
         /\ Len(y) # MaxSkipped /\ Had(n - 1) => Holds(y, m)
    BY <2>6, <2>7
  <2>12. Good(n)
    <3> HIDE DEF Had
    <3>1. QED
      BY <2>9, <2>10, <2>11
  <2>13. QED
    BY <2>2, <2>12
<1>5. Good(N) /\ put[N] \in S
  BY <1>3, <1>4
<1>6. QED
  BY <1>1, <1>3, <1>5

\* The key of m is the one with the number of m.
Regular(m) == m.key = <<m.key[1], m.n>> /\ m.n \in Nat /\ m.pn \in Nat /\ m.key[1] # NoChain

\* t has sent, and received on, what s has.
Alike(s, t) ==
  /\ t.root = s.root /\ t.dhs = s.dhs /\ t.dhr = s.dhr /\ t.send = s.send /\ t.recv = s.recv
  /\ t.sn = s.sn /\ t.pn = s.pn

\* The keys that t keeps are keys that s keeps, or of the chain that s receives on.
KeepsOf(s, t) ==
  \A i \in 1 .. Len(t.skipped) :
    \/ \E j \in 1 .. Len(s.skipped) : t.skipped[i] = s.skipped[j]
    \/ s.recv # NoChain /\ t.skipped[i].dh = s.dhr /\ t.skipped[i].key[1] = s.recv

\* s passes the keys up to until.
SkipsTo(s, t, until) ==
  /\ Alike(s, t) /\ KeepsOf(s, t) /\ Len(t.skipped) <= MaxSkipped
  /\ Len(s.skipped) = MaxSkipped => Len(t.skipped) = MaxSkipped
  /\ t.rn = IF s.recv = NoChain \/ until <= s.rn THEN s.rn ELSE until
  /\ Len(t.skipped) # MaxSkipped =>
       \A m : Regular(m) =>
         /\ InStore(s, m) => InStore(t, m)
         /\ OnChain(s, m) => InStore(t, m) \/ (OnChain(t, m) /\ m.n >= until)

LEMMA SkipHolds ==
  ASSUME NEW K, NEW s, KeepsWell(s), Tidy(K, s), NEW until \in Nat
  PROVE  SkipsTo(s, Skip(s, until), until)
<1>0. /\ s.rn \in Nat /\ IsSession(s) /\ IsList(s.skipped) /\ Apart(s.skipped)
      /\ Len(s.skipped) \in Nat /\ Len(s.skipped) <= MaxSkipped
      /\ \A i \in 1 .. Len(s.skipped) : Keeps(s, s.skipped[i])
      /\ \A i \in 1 .. Len(s.skipped) : s.skipped[i].dh = s.dhr => s.skipped[i].key[1] = s.recv
  BY DEF KeepsWell, Tidy, IsList
<1>1. CASE s.recv = NoChain \/ until <= s.rn
  <2>1. Skip(s, until) = s
    BY <1>1 DEF Skip
  <2>2. ASSUME NEW m, Regular(m), OnChain(s, m) PROVE m.n >= until
    <3>1. m.key[1] = s.recv /\ m.n >= s.rn /\ m.key[1] # NoChain /\ m.n \in Nat
      BY <2>2 DEF Regular, OnChain
    <3>2. QED
      BY <1>0, <1>1, <3>1
  <2>3. QED
    BY <1>0, <1>1, <2>1, <2>2 DEF SkipsTo, Alike, KeepsOf
<1>2. CASE ~(s.recv = NoChain \/ until <= s.rn)
  <2>1. PICK keys, x : keys = Passed(s, until) /\ x = Stored(s.skipped, keys)
    OBVIOUS
  <2>2. PICK t : t = Skip(s, until)
    OBVIOUS
  <2>3. t = [root |-> s.root, dhs |-> s.dhs, dhr |-> s.dhr, send |-> s.send, recv |-> s.recv,
             sn |-> s.sn, rn |-> until, pn |-> s.pn, skipped |-> x]
    <3> DEFINE v == [s EXCEPT !.skipped = x]
    <3>1. v = [root |-> s.root, dhs |-> s.dhs, dhr |-> s.dhr, send |-> s.send, recv |-> s.recv,
               sn |-> s.sn, rn |-> s.rn, pn |-> s.pn, skipped |-> x]
      BY <1>0 DEF IsSession
    <3>2. t = [v EXCEPT !.rn = until]
      BY <1>2, <2>1, <2>2 DEF Skip
    <3> HIDE DEF v
    <3>3. QED
      BY <3>1, <3>2
  <2>4. /\ Len(keys) = until - s.rn /\ Len(keys) \in Nat
        /\ \A i \in 1 .. Len(keys) :
             keys[i] = [dh |-> s.dhr, n |-> s.rn + i - 1, key |-> <<s.recv, s.rn + i - 1>>]
    BY <1>0, <1>2, <2>1 DEF Passed
  <2>5. PICK New : New = {keys[i] : i \in 1 .. Len(keys)}
    OBVIOUS
  <2>6. PICK Old : Old = {s.skipped[i] : i \in 1 .. Len(s.skipped)}
    OBVIOUS
  <2>7. s.skipped \in Seq(Old \cup New) /\ \A i \in 1 .. Len(keys) : keys[i] \in Old \cup New
    BY <1>0, <2>5, <2>6, ListIsSeq
  <2>8. ASSUME NEW i \in 1 .. Len(keys)
        PROVE  /\ keys[i].dh = s.dhr /\ keys[i].n = s.rn + i - 1
               /\ keys[i].key = <<s.recv, keys[i].n>> /\ keys[i].key[1] = s.recv
    <3>1. PICK j : j = s.rn + i - 1
      OBVIOUS
    <3>2. keys[i] = [dh |-> s.dhr, n |-> j, key |-> <<s.recv, j>>]
      BY <2>4, <3>1
    <3>3. QED
      BY <3>1, <3>2
  <2>9. x \in Seq(Old \cup New)
    BY <1>0, <2>1, <2>4, <2>7, StoredKeeps
  <2>10. Alike(s, t) /\ t.rn = until /\ t.skipped = x
    BY <2>3 DEF Alike
  <2>11. KeepsOf(s, t)
    <3> SUFFICES ASSUME NEW i \in 1 .. Len(x)
                 PROVE  \/ \E j \in 1 .. Len(s.skipped) : x[i] = s.skipped[j]
                        \/ s.recv # NoChain /\ x[i].dh = s.dhr /\ x[i].key[1] = s.recv
      BY <2>10 DEF KeepsOf
    <3>1. x[i] \in Old \cup New
      BY <2>9
    <3>2. CASE x[i] \in Old
      BY <2>6, <3>2
    <3>3. CASE x[i] \in New
      <4>1. PICK j \in 1 .. Len(keys) : x[i] = keys[j]
        BY <2>5, <3>3
      <4>2. QED
        BY <1>2, <2>8, <4>1
    <3>4. QED
      BY <3>1, <3>2, <3>3
  <2>12. ASSUME NEW m, \A i \in 1 .. Len(keys) : Matches(keys[i], m) => keys[i].key = m.key
         PROVE  /\ Len(x) <= MaxSkipped /\ (Len(s.skipped) = MaxSkipped => Len(x) = MaxSkipped)
                /\ Len(x) # MaxSkipped
                     /\ (Holds(s.skipped, m) \/ \E i \in 1 .. Len(keys) : Matches(keys[i], m))
                   => Holds(x, m)
    <3>1. PICK E : E = Old \cup New
      OBVIOUS
    <3>2. s.skipped \in Seq(E) /\ \A i \in 1 .. Len(keys) : keys[i] \in E
      BY <2>7, <3>1
    <3>3. QED
      BY <1>0, <2>1, <2>4, <2>12, <3>2, StoredHolds
  <2>13. Len(x) <= MaxSkipped /\ (Len(s.skipped) = MaxSkipped => Len(x) = MaxSkipped)
    <3>1. PICK w : w = [dh |-> s.dhr, n |-> -1, key |-> 0]
      OBVIOUS
    <3>2. \A i \in 1 .. Len(keys) : ~Matches(keys[i], w)
      <4>1. ASSUME NEW i \in 1 .. Len(keys), Matches(keys[i], w) PROVE FALSE
        <5>1. keys[i].n = s.rn + i - 1 /\ keys[i].n = -1
          BY <2>8, <3>1, <4>1 DEF Matches
        <5>2. QED
          BY <1>0, <2>4, <5>1
      <4>2. QED
        BY <4>1
    <3>3. QED
      BY <2>12, <3>2
  <2>14. ASSUME NEW m, Regular(m), Len(x) # MaxSkipped, InStore(s, m) \/ OnChain(s, m)
         PROVE  /\ InStore(s, m) => InStore(t, m)
                /\ OnChain(s, m) => InStore(t, m) \/ (OnChain(t, m) /\ m.n >= until)
    <3>1. m.key = <<m.key[1], m.n>> /\ m.n \in Nat
      BY <2>14 DEF Regular
    <3>2. m.dh = s.dhr => m.key[1] = s.recv
      <4>1. CASE InStore(s, m)
        <5>1. PICK i \in 1 .. Len(s.skipped) : Matches(s.skipped[i], m) /\ s.skipped[i].key = m.key
          BY <4>1 DEF InStore, Holds
        <5>2. QED
          BY <1>0, <5>1 DEF Matches
      <4>2. CASE OnChain(s, m)
        BY <4>2 DEF OnChain
      <4>3. QED
        BY <2>14, <4>1, <4>2
    <3>3. \A i \in 1 .. Len(keys) : Matches(keys[i], m) => keys[i].key = m.key
      BY <2>8, <3>1, <3>2 DEF Matches
    <3>4. Holds(s.skipped, m) \/ (\E i \in 1 .. Len(keys) : Matches(keys[i], m)) => Holds(x, m)
      BY <2>12, <2>14, <3>3
    <3>5. ASSUME OnChain(s, m), ~(m.n >= until) PROVE \E i \in 1 .. Len(keys) : Matches(keys[i], m)
      <4>1. m.dh = s.dhr /\ m.n >= s.rn
        BY <3>5 DEF OnChain
      <4>2. PICK i : i = m.n - s.rn + 1
        OBVIOUS
      <4>3. i \in 1 .. Len(keys) /\ s.rn + i - 1 = m.n
        BY <1>0, <2>4, <3>1, <3>5, <4>1, <4>2
      <4>4. QED
        BY <2>8, <4>1, <4>3 DEF Matches
    <3>6. OnChain(s, m) /\ m.n >= until => OnChain(t, m)
      BY <2>10 DEF OnChain, Alike
    <3>7. QED
      BY <2>10, <3>4, <3>5, <3>6 DEF InStore
  <2>15. QED
    BY <1>2, <2>2, <2>10, <2>11, <2>13, <2>14 DEF SkipsTo
<1>3. QED
  BY <1>1, <1>2

\* Alike ends that keep alike are tidy alike.
LEMMA TidyStays ==
  ASSUME NEW K, NEW s, Tidy(K, s), NEW t, KeepsOf(s, t), t.dhr = s.dhr, t.recv = s.recv,
         Len(t.skipped) <= MaxSkipped
  PROVE  Tidy(K, t)
<1>1. ASSUME NEW i \in 1 .. Len(t.skipped)
      PROVE  t.skipped[i].dh \in K /\ (t.skipped[i].dh = s.dhr => t.skipped[i].key[1] = s.recv)
  <2>1. CASE \E j \in 1 .. Len(s.skipped) : t.skipped[i] = s.skipped[j]
    BY <2>1 DEF Tidy
  <2>2. CASE s.recv # NoChain /\ t.skipped[i].dh = s.dhr /\ t.skipped[i].key[1] = s.recv
    BY <2>2 DEF Tidy
  <2>3. QED
    BY <2>1, <2>2 DEF KeepsOf
<1>2. QED
  BY <1>1 DEF Tidy

------------------------------------------------------------------------------
(* A message that a session has the key of opens *)

Sure(s, m) == InStore(s, m) \/ OnChain(s, m)

\* m has opened, t is what s has become: the same end, with all other keys.
OpensSure(K, s, m, t) ==
  /\ Alike(s, t) /\ KeepsOf(s, t) /\ Tidy(K, t)
  /\ s.rn <= t.rn /\ (t.rn = s.rn \/ (m.key[1] = s.recv /\ t.rn = m.n + 1))
  /\ \A w : Regular(w) /\ w.key # m.key =>
       /\ InStore(s, w) => InStore(t, w)
       /\ OnChain(s, w) => Sure(t, w)

\* It is one of the keys kept.
LEMMA KeptOpens ==
  ASSUME NEW K, NEW s, KeepsWell(s), Tidy(K, s), NEW m, Regular(m), Sure(s, m), Kept(s, m) # {}
  PROVE  OpenKept(s, m).ok /\ OpensSure(K, s, m, OpenKept(s, m).s)
<1>0. /\ IsSession(s) /\ IsList(s.skipped) /\ Len(s.skipped) \in Nat /\ s.rn \in Nat
      /\ DOMAIN s.skipped = 1 .. Len(s.skipped) /\ Apart(s.skipped)
      /\ Len(s.skipped) <= MaxSkipped /\ MaxSkipped \in Nat
      /\ \A i \in 1 .. Len(s.skipped) : Keeps(s, s.skipped[i])
  BY SkippedAssumption DEF KeepsWell, IsList, Tidy
<1>1. PICK i : i = CHOOSE j \in Kept(s, m) : TRUE
  OBVIOUS
<1>2. i \in 1 .. Len(s.skipped) /\ s.skipped[i].dh = m.dh /\ s.skipped[i].n = m.n
  BY <1>0, <1>1 DEF Kept
<1>3. s.skipped[i].key = m.key
  <2>1. CASE InStore(s, m)
    <3>1. PICK j \in 1 .. Len(s.skipped) : Matches(s.skipped[j], m) /\ s.skipped[j].key = m.key
      BY <2>1 DEF InStore, Holds
    <3>2. <<s.skipped[i].dh, s.skipped[i].n>> = <<s.skipped[j].dh, s.skipped[j].n>>
      BY <1>2, <3>1 DEF Matches
    <3>3. i = j
      BY <1>0, <1>2, <3>2 DEF Apart
    <3>4. QED
      BY <3>1, <3>3
  <2>2. CASE OnChain(s, m)
    <3>1. m.dh = s.dhr /\ m.key[1] = s.recv /\ m.n >= s.rn
      BY <2>2 DEF OnChain
    <3>2. s.skipped[i].key[1] = s.recv
      BY <1>2, <3>1 DEF Tidy
    <3>3. m.n < s.rn
      BY <1>0, <1>2, <3>2 DEF Keeps
    <3>4. m.n \in Nat
      BY DEF Regular
    <3>5. QED
      BY <1>0, <3>1, <3>3, <3>4
  <2>3. QED
    BY <2>1, <2>2 DEF Sure
<1>4. PICK x : x = RemoveAt(s.skipped, i)
  OBVIOUS
<1>5. /\ IsList(x) /\ Len(x) = Len(s.skipped) - 1
      /\ \A j \in 1 .. Len(s.skipped) - 1 : x[j] = s.skipped[IF j < i THEN j ELSE j + 1]
  BY <1>0, <1>2, <1>4, RemovedAt
<1>6. PICK t : t = [s EXCEPT !.skipped = x]
  OBVIOUS
<1>7. t = [root |-> s.root, dhs |-> s.dhs, dhr |-> s.dhr, send |-> s.send, recv |-> s.recv,
           sn |-> s.sn, rn |-> s.rn, pn |-> s.pn, skipped |-> x]
  BY <1>0, <1>6 DEF IsSession
<1>8. Alike(s, t) /\ t.rn = s.rn /\ t.skipped = x
  BY <1>7 DEF Alike
<1>9. KeepsOf(s, t)
  <2>1. ASSUME NEW j \in 1 .. Len(x) PROVE \E l \in 1 .. Len(s.skipped) : x[j] = s.skipped[l]
    <3>1. PICK l : l = IF j < i THEN j ELSE j + 1
      OBVIOUS
    <3>2. l \in 1 .. Len(s.skipped) /\ j \in 1 .. Len(s.skipped) - 1
      BY <1>0, <1>2, <1>5, <3>1
    <3>3. x[j] = s.skipped[l]
      BY <1>5, <3>1, <3>2
    <3>4. QED
      BY <3>2, <3>3
  <2>2. QED
    BY <1>8, <2>1 DEF KeepsOf
<1>10. Len(x) <= MaxSkipped
  <2>1. PICK k, l, n : k = Len(x) /\ l = Len(s.skipped) /\ n = MaxSkipped
    OBVIOUS
  <2>2. l \in Nat /\ n \in Nat /\ l <= n /\ k = l - 1
    BY <1>0, <1>5, <2>1
  <2>3. k <= n
    BY <2>2
  <2>4. QED
    BY <2>1, <2>3
<1>11. Tidy(K, t)
  BY <1>8, <1>9, <1>10, TidyStays DEF Alike
<1>12. ASSUME NEW w, w.key # m.key, InStore(s, w) PROVE InStore(t, w)
  <2>1. PICK j \in 1 .. Len(s.skipped) : Matches(s.skipped[j], w) /\ s.skipped[j].key = w.key
    BY <1>12 DEF InStore, Holds
  <2>2. j # i
    BY <1>3, <1>12, <2>1
  <2>3. PICK l : l = IF j < i THEN j ELSE j - 1
    OBVIOUS
  <2>4. l \in 1 .. Len(s.skipped) - 1 /\ l \in 1 .. Len(x) /\ j = IF l < i THEN l ELSE l + 1
    BY <1>0, <1>2, <1>5, <2>2, <2>3
  <2>5. x[l] = s.skipped[j]
    BY <1>5, <2>4
  <2>6. QED
    BY <1>8, <2>1, <2>4, <2>5 DEF InStore, Holds
<1>13. \A w : OnChain(s, w) => OnChain(t, w)
  BY <1>8 DEF OnChain, Alike
<1>14. s.rn <= t.rn
  BY <1>0, <1>8
<1>15. OpenKept(s, m).s = t /\ OpenKept(s, m).ok = (s.skipped[i].key = m.key)
  BY <1>1, <1>4, <1>6 DEF OpenKept
<1>16. OpensSure(K, s, m, t)
  BY <1>8, <1>9, <1>11, <1>12, <1>13, <1>14 DEF OpensSure, Sure
<1>17. QED
  BY <1>3, <1>15, <1>16

\* The key at the position of s is used.
Advanced(s) == [s EXCEPT !.rn = @ + 1]

LEMMA AdvancedIs ==
  ASSUME NEW s, IsSession(s)
  PROVE  /\ Alike(s, Advanced(s)) /\ Advanced(s).rn = s.rn + 1
         /\ Advanced(s).skipped = s.skipped
<1>1. Advanced(s) =
        [root |-> s.root, dhs |-> s.dhs, dhr |-> s.dhr, send |-> s.send, recv |-> s.recv,
         sn |-> s.sn, rn |-> s.rn + 1, pn |-> s.pn, skipped |-> s.skipped]
  BY DEF Advanced, IsSession
<1>2. QED
  BY <1>1 DEF Alike

\* The session s passes the keys before m on its receiving chain, and then takes its key.
LEMMA AtItsNumber ==
  ASSUME NEW K, NEW s, KeepsWell(s), Tidy(K, s), NEW m, Regular(m), OnChain(s, m),
         NEW at, at = Skip(s, m.n), Len(at.skipped) # MaxSkipped
  PROVE  m.key = <<at.recv, at.rn>> /\ OpensSure(K, s, m, Advanced(at)) /\ Advanced(at).rn = m.n + 1
<1>0. s.rn \in Nat /\ m.n \in Nat /\ m.key[1] = s.recv /\ m.n >= s.rn /\ s.recv # NoChain
      /\ m.key = <<m.key[1], m.n>>
  BY DEF KeepsWell, Regular, OnChain
<1>1. SkipsTo(s, at, m.n) /\ KeepsWell(at)
  BY <1>0, SkipHolds, SkipKeeps
<1>2. at.rn = m.n /\ Alike(s, at) /\ KeepsOf(s, at) /\ Len(at.skipped) <= MaxSkipped
  BY <1>0, <1>1 DEF SkipsTo
<1>3. m.key = <<at.recv, at.rn>>
  BY <1>0, <1>2 DEF Alike
<1>4. PICK t : t = Advanced(at)
  OBVIOUS
<1>5. Alike(at, t) /\ t.rn = m.n + 1 /\ t.skipped = at.skipped
  BY <1>1, <1>2, <1>4, AdvancedIs DEF KeepsWell
<1>6. Alike(s, t) /\ KeepsOf(s, t) /\ Len(t.skipped) <= MaxSkipped
  BY <1>2, <1>5 DEF Alike, KeepsOf
<1>7. Tidy(K, t)
  BY <1>6, TidyStays DEF Alike
<1>8. ASSUME NEW w, Regular(w), w.key # m.key
      PROVE  /\ InStore(s, w) => InStore(t, w)
             /\ OnChain(s, w) => Sure(t, w)
  <2>1. /\ InStore(s, w) => InStore(at, w)
        /\ OnChain(s, w) => InStore(at, w) \/ (OnChain(at, w) /\ w.n >= m.n)
    BY <1>1, <1>8 DEF SkipsTo
  <2>2. InStore(at, w) => InStore(t, w)
    BY <1>5 DEF InStore
  <2>3. ASSUME OnChain(at, w), w.n >= m.n PROVE OnChain(t, w)
    <3>1. w.key[1] = at.recv /\ w.key = <<w.key[1], w.n>> /\ w.n \in Nat
      BY <1>8, <2>3 DEF OnChain, Regular
    <3>2. w.n # m.n
      BY <1>2, <1>3, <1>8, <3>1
    <3>3. w.n >= t.rn
      BY <1>0, <1>5, <2>3, <3>1, <3>2
    <3>4. QED
      BY <1>5, <2>3, <3>3 DEF OnChain, Alike
  <2>4. QED
    BY <2>1, <2>2, <2>3 DEF Sure
<1>9. s.rn <= t.rn
  BY <1>0, <1>5
<1>10. OpensSure(K, s, m, t)
  BY <1>0, <1>5, <1>6, <1>7, <1>8, <1>9 DEF OpensSure
<1>11. QED
  BY <1>3, <1>4, <1>5, <1>10

LEMMA SureOpens ==
  ASSUME NEW K, NEW s, KeepsWell(s), Tidy(K, s), NEW m, Regular(m), Sure(s, m), NEW key,
         ~Opened(s, m, key).over
  PROVE  Opened(s, m, key).ok /\ OpensSure(K, s, m, Opened(s, m, key).s)
<1>1. CASE Kept(s, m) # {}
  BY <1>1, KeptOpens DEF Opened
<1>2. CASE Kept(s, m) = {}
  <2>1. OnChain(s, m)
    <3>1. ASSUME InStore(s, m) PROVE FALSE
      <4>1. PICK i \in 1 .. Len(s.skipped) : Matches(s.skipped[i], m)
        BY <3>1 DEF InStore, Holds
      <4>2. i \in DOMAIN s.skipped
        BY DEF KeepsWell, IsList
      <4>3. i \in Kept(s, m)
        BY <4>1, <4>2 DEF Kept, Matches
      <4>4. QED
        BY <1>2, <4>3
    <3>2. QED
      BY <3>1 DEF Sure
  <2>2. PICK at : at = Skip(s, m.n)
    OBVIOUS
  <2>3. PICK r : r = OpenNext(s, m, key)
    OBVIOUS
  <2>4. Opened(s, m, key) = r /\ ~r.over
    BY <1>2, <2>3 DEF Opened
  <2>5. m.dh = s.dhr /\ Turned(s, m, key) = s
    BY <2>1 DEF OnChain, Turned
  <2>6. ~TooFar(s, m.n)
    BY <2>3, <2>4, <2>5 DEF OpenNext
  <2>7. r = [ok |-> m.key = <<at.recv, at.rn>>, over |-> Len(at.skipped) = MaxSkipped,
             s |-> [at EXCEPT !.rn = @ + 1]]
    BY <2>2, <2>3, <2>5, <2>6 DEF OpenNext
  <2>8. r.ok = (m.key = <<at.recv, at.rn>>) /\ Len(at.skipped) # MaxSkipped /\ r.s = Advanced(at)
    <3>1. PICK ok, full, t : /\ ok = (m.key = <<at.recv, at.rn>>) /\ full = (Len(at.skipped) = MaxSkipped)
                            /\ t = Advanced(at)
      OBVIOUS
    <3>2. r = [ok |-> ok, over |-> full, s |-> t]
      BY <2>7, <3>1 DEF Advanced
    <3>3. r.ok = ok /\ r.over = full /\ r.s = t
      BY <3>2
    <3>4. QED
      BY <2>4, <3>1, <3>3
  <2>9. m.key = <<at.recv, at.rn>> /\ OpensSure(K, s, m, Advanced(at))
    BY <2>1, <2>2, <2>8, AtItsNumber
  <2>10. QED
    BY <2>4, <2>8, <2>9
<1>3. QED
  BY <1>1, <1>2

\* m has opened, t is what s has become, with its new key pair, one turn later.
OpensTurn(K, s, m, key, t) ==
  /\ t.dhr = m.dh /\ t.recv = m.key[1] /\ t.dhs = key
  /\ t.root = Mixed(m.key[1], key, m.dh) /\ t.send = t.root
  /\ t.sn = 0 /\ t.pn = s.sn /\ t.rn = m.n + 1 /\ Tidy(K, t)
  /\ \A w : Regular(w) /\ w.key # m.key =>
       /\ InStore(s, w) => InStore(t, w)
       /\ OnChain(s, w) /\ w.n < m.pn => InStore(t, w)
       /\ w.dh = m.dh /\ w.key[1] = m.key[1] => Sure(t, w)

\* The first message of the chain that s turns to.
LEMMA TurnOpens ==
  ASSUME NEW K, NEW s, KeepsWell(s), Tidy(K, s), NEW m, Regular(m), m.dh \in K, m.dh # s.dhr,
         \A i \in 1 .. Len(s.skipped) : s.skipped[i].dh # m.dh,
         m.key[1] = Mixed(s.root, s.dhs, m.dh), NEW key, ~Opened(s, m, key).over
  PROVE  Opened(s, m, key).ok /\ OpensTurn(K, s, m, key, Opened(s, m, key).s)
<1>1. Kept(s, m) = {}
  <2>1. ASSUME NEW i \in Kept(s, m) PROVE FALSE
    <3>1. i \in DOMAIN s.skipped /\ <<s.skipped[i].dh, s.skipped[i].n>> = <<m.dh, m.n>>
      BY <2>1 DEF Kept
    <3>2. i \in 1 .. Len(s.skipped)
      BY <3>1 DEF KeepsWell, IsList
    <3>3. QED
      BY <3>1, <3>2
  <2>2. QED
    BY <2>1
<1>2. PICK v, u, at, r : /\ v = Skip(s, m.pn) /\ u = Step(v, m.dh, key) /\ at = Skip(u, m.n)
                         /\ r = OpenNext(s, m, key)
  OBVIOUS
<1>3. Opened(s, m, key) = r /\ ~r.over
  BY <1>1, <1>2 DEF Opened
<1>4. Turned(s, m, key) = u
  BY <1>2 DEF Turned
<1>5. ~TooFar(s, m.pn) /\ ~TooFar(u, m.n)
  BY <1>2, <1>3, <1>4 DEF OpenNext
<1>6. r = [ok |-> m.key = <<at.recv, at.rn>>, over |-> Len(at.skipped) = MaxSkipped,
           s |-> [at EXCEPT !.rn = @ + 1]]
  BY <1>2, <1>4, <1>5 DEF OpenNext
<1>7. r.ok = (m.key = <<at.recv, at.rn>>) /\ Len(at.skipped) # MaxSkipped /\ r.s = Advanced(at)
  <2>1. PICK ok, full, t : /\ ok = (m.key = <<at.recv, at.rn>>) /\ full = (Len(at.skipped) = MaxSkipped)
                          /\ t = Advanced(at)
    OBVIOUS
  <2>2. r = [ok |-> ok, over |-> full, s |-> t]
    BY <1>6, <2>1 DEF Advanced
  <2>3. r.ok = ok /\ r.over = full /\ r.s = t
    BY <2>2
  <2>4. QED
    BY <1>3, <2>1, <2>3
<1>8. SkipsTo(s, v, m.pn) /\ KeepsWell(v)
  BY <1>2, SkipHolds, SkipKeeps DEF Regular
<1>9. Alike(s, v) /\ KeepsOf(s, v) /\ Len(v.skipped) <= MaxSkipped
  BY <1>8 DEF SkipsTo
<1>10. u = [root |-> Mixed(Mixed(s.root, s.dhs, m.dh), key, m.dh), dhs |-> key, dhr |-> m.dh,
            send |-> Mixed(Mixed(s.root, s.dhs, m.dh), key, m.dh),
            recv |-> Mixed(s.root, s.dhs, m.dh),
            sn |-> 0, rn |-> 0, pn |-> s.sn, skipped |-> v.skipped]
  BY <1>2, <1>9 DEF Step, Alike
<1>11. PICK c : c = m.key[1]
  OBVIOUS
<1>12. u = [root |-> Mixed(c, key, m.dh), dhs |-> key, dhr |-> m.dh, send |-> Mixed(c, key, m.dh),
            recv |-> c, sn |-> 0, rn |-> 0, pn |-> s.sn, skipped |-> v.skipped]
  BY <1>10, <1>11
<1>13. /\ u.root = Mixed(m.key[1], key, m.dh) /\ u.send = u.root /\ u.recv = m.key[1]
       /\ u.dhs = key /\ u.dhr = m.dh /\ u.sn = 0 /\ u.rn = 0 /\ u.pn = s.sn
       /\ u.skipped = v.skipped
  BY <1>11, <1>12
<1>14. KeepsWell(u)
  BY <1>2, <1>8, StepKeeps DEF OpensNoMore
<1>15. ASSUME NEW i \in 1 .. Len(v.skipped)
       PROVE  v.skipped[i].dh \in K /\ v.skipped[i].dh # m.dh
  <2>1. CASE \E j \in 1 .. Len(s.skipped) : v.skipped[i] = s.skipped[j]
    BY <2>1 DEF Tidy
  <2>2. CASE s.recv # NoChain /\ v.skipped[i].dh = s.dhr
    BY <2>2 DEF Tidy
  <2>3. QED
    BY <1>9, <2>1, <2>2 DEF KeepsOf
<1>16. Tidy(K, u)
  BY <1>9, <1>13, <1>15 DEF Tidy
<1>17. OnChain(u, m)
  BY <1>13 DEF OnChain, Regular
<1>18. m.key = <<at.recv, at.rn>> /\ OpensSure(K, u, m, Advanced(at)) /\ Advanced(at).rn = m.n + 1
  BY <1>2, <1>7, <1>14, <1>16, <1>17, AtItsNumber
<1>19. Len(v.skipped) # MaxSkipped
  <2>1. SkipsTo(u, at, m.n)
    BY <1>2, <1>14, <1>16, SkipHolds DEF Regular
  <2>2. QED
    BY <1>7, <1>13, <2>1 DEF SkipsTo
<1>20. PICK t : t = Advanced(at)
  OBVIOUS
<1>21. Alike(u, t) /\ Tidy(K, t) /\ t.rn = m.n + 1
       /\ \A w : Regular(w) /\ w.key # m.key =>
            (InStore(u, w) => InStore(t, w)) /\ (OnChain(u, w) => Sure(t, w))
  BY <1>18, <1>20 DEF OpensSure
<1>22. ASSUME NEW w, Regular(w), w.key # m.key
       PROVE  /\ InStore(s, w) => InStore(t, w)
              /\ OnChain(s, w) /\ w.n < m.pn => InStore(t, w)
              /\ w.dh = m.dh /\ w.key[1] = m.key[1] => Sure(t, w)
  <2>1. /\ InStore(s, w) => InStore(v, w)
        /\ OnChain(s, w) => InStore(v, w) \/ (OnChain(v, w) /\ w.n >= m.pn)
    BY <1>8, <1>19, <1>22 DEF SkipsTo
  <2>2. InStore(v, w) => InStore(u, w)
    BY <1>13 DEF InStore
  <2>3. w.n < m.pn => ~(w.n >= m.pn)
    BY <1>22 DEF Regular
  <2>4. w.dh = m.dh /\ w.key[1] = m.key[1] => OnChain(u, w)
    BY <1>13, <1>22 DEF OnChain, Regular
  <2>5. QED
    BY <1>21, <1>22, <2>1, <2>2, <2>3, <2>4
<1>23. /\ t.root = Mixed(m.key[1], key, m.dh) /\ t.send = t.root /\ t.recv = m.key[1]
       /\ t.dhs = key /\ t.dhr = m.dh /\ t.sn = 0 /\ t.pn = s.sn
  BY <1>13, <1>21 DEF Alike
<1>24. OpensTurn(K, s, m, key, t)
  BY <1>21, <1>22, <1>23 DEF OpensTurn
<1>25. QED
  BY <1>3, <1>7, <1>18, <1>20, <1>24

------------------------------------------------------------------------------
(* Two ends in step *)

\* The messages of W are regular, with keys of their own; those of the chain that t
\* sends on, t has sent.
Sends(t, W) ==
  /\ \A m \in W : Regular(m) /\ (m.key[1] = t.send => m.n < t.sn)
  /\ \A m, w \in W : m.key = w.key => m = w

LEMMA LevelOpens ==
  ASSUME NEW K, NEW s, KeepsWell(s), Tidy(K, s), NEW t, NEW W, Sends(t, W), Level(s, t, W),
         t.sn \in Nat, NEW m \in W, NEW key, ~Opened(s, m, key).over
  PROVE  LET r == Opened(s, m, key)
         IN  r.ok /\ Level(r.s, t, W \ {m}) /\ Alike(s, r.s) /\ Tidy(K, r.s)
<1>1. Regular(m) /\ Sure(s, m)
  BY DEF Sends, Level, Sure
<1>2. PICK r : r = Opened(s, m, key)
  OBVIOUS
<1>3. r.ok /\ OpensSure(K, s, m, r.s)
  BY <1>1, <1>2, SureOpens
<1>4. PICK x : x = r.s
  OBVIOUS
<1>5. Alike(s, x) /\ Tidy(K, x) /\ (x.rn = s.rn \/ (m.key[1] = s.recv /\ x.rn = m.n + 1))
  BY <1>3, <1>4 DEF OpensSure
<1>6. x.rn <= t.sn
  <2>1. m.key[1] = s.recv => m.n < t.sn /\ m.n \in Nat
    BY DEF Level, Sends, Regular
  <2>2. s.rn <= t.sn
    BY DEF Level
  <2>3. QED
    BY <1>5, <2>1, <2>2
<1>7. ASSUME NEW w \in W \ {m} PROVE InStore(x, w) \/ OnChain(x, w)
  <2>1. Regular(w) /\ w.key # m.key /\ (InStore(s, w) \/ OnChain(s, w))
    BY DEF Sends, Level
  <2>2. QED
    BY <1>3, <1>4, <2>1 DEF OpensSure, Sure
<1>8. Level(x, t, W \ {m})
  BY <1>5, <1>6, <1>7 DEF Level, Alike
<1>9. QED
  BY <1>2, <1>3, <1>4, <1>5, <1>8

LEMMA BehindOpens ==
  ASSUME NEW K, NEW s, KeepsWell(s), Tidy(K, s), NEW t, NEW W, Sends(t, W), Behind(s, t, W),
         NEW m \in W, Sure(s, m), NEW key, ~Opened(s, m, key).over
  PROVE  LET r == Opened(s, m, key)
         IN  r.ok /\ Behind(r.s, t, W \ {m}) /\ Alike(s, r.s) /\ Tidy(K, r.s)
<1>1. Regular(m)
  BY DEF Sends
<1>2. PICK r : r = Opened(s, m, key)
  OBVIOUS
<1>3. r.ok /\ OpensSure(K, s, m, r.s)
  BY <1>1, <1>2, SureOpens
<1>4. PICK x : x = r.s
  OBVIOUS
<1>5. Alike(s, x) /\ KeepsOf(s, x) /\ Tidy(K, x)
  BY <1>3, <1>4 DEF OpensSure
<1>6. \A i \in 1 .. Len(x.skipped) : x.skipped[i].dh # t.dhs
  BY <1>5 DEF KeepsOf, Behind
<1>7. ASSUME NEW w \in W \ {m}
      PROVE  \/ w.dh = t.dhs /\ w.key[1] = t.send /\ w.pn = t.pn
             \/ InStore(x, w)
             \/ OnChain(x, w) /\ w.n < t.pn
  <2>1. Regular(w) /\ w.key # m.key
    BY DEF Sends
  <2>2. /\ InStore(s, w) => InStore(x, w)
        /\ OnChain(s, w) => InStore(x, w) \/ OnChain(x, w)
    BY <1>3, <1>4, <2>1 DEF OpensSure, Sure
  <2>3. QED
    BY <2>2 DEF Behind
<1>8. Behind(x, t, W \ {m})
  BY <1>5, <1>6, <1>7 DEF Behind, Alike
<1>9. QED
  BY <1>2, <1>3, <1>4, <1>5, <1>8

\* s turns: it is level then, and t is behind.
LEMMA TurnsLevel ==
  ASSUME NEW K, NEW s, KeepsWell(s), Tidy(K, s), NEW t, NEW W, Sends(t, W), Behind(s, t, W),
         t.root = t.send, t.dhs \in K, NEW V, Sends(s, V), Level(t, s, V),
         NEW m \in W, ~Sure(s, m), m.key[1] # t.send \/ m.n < t.sn, t.sn \in Nat,
         NEW key, key # t.dhr, \A i \in 1 .. Len(t.skipped) : t.skipped[i].dh # key,
         ~Opened(s, m, key).over
  PROVE  LET r == Opened(s, m, key)
         IN  r.ok /\ Level(r.s, t, W \ {m}) /\ Behind(t, r.s, V) /\ Tidy(K, r.s)
<1>1. /\ m.dh = t.dhs /\ m.key[1] = t.send /\ m.pn = t.pn /\ Regular(m)
      /\ m.dh # s.dhr /\ t.send = Mixed(s.root, s.dhs, t.dhs)
      /\ \A i \in 1 .. Len(s.skipped) : s.skipped[i].dh # m.dh
  BY DEF Behind, Sure, Sends
<1>2. PICK r : r = Opened(s, m, key)
  OBVIOUS
<1>3. r.ok /\ OpensTurn(K, s, m, key, r.s)
  BY <1>1, <1>2, TurnOpens
<1>4. PICK x : x = r.s
  OBVIOUS
<1>5. /\ x.dhr = m.dh /\ x.recv = m.key[1] /\ x.dhs = key
      /\ x.root = Mixed(m.key[1], key, m.dh) /\ x.send = x.root
      /\ x.sn = 0 /\ x.pn = s.sn /\ x.rn = m.n + 1 /\ Tidy(K, x)
  BY <1>3, <1>4 DEF OpensTurn
<1>6. x.rn <= t.sn
  <2>1. m.n \in Nat /\ m.n < t.sn
    BY <1>1 DEF Regular
  <2>2. QED
    BY <1>5, <2>1
<1>7. ASSUME NEW w \in W \ {m} PROVE InStore(x, w) \/ OnChain(x, w)
  <2>1. Regular(w) /\ w.key # m.key
    BY DEF Sends
  <2>2. /\ InStore(s, w) => InStore(x, w)
        /\ OnChain(s, w) /\ w.n < m.pn => InStore(x, w)
        /\ w.dh = m.dh /\ w.key[1] = m.key[1] => Sure(x, w)
    BY <1>3, <1>4, <2>1 DEF OpensTurn
  <2>3. QED
    BY <1>1, <2>2 DEF Behind, Sure
<1>8. Level(x, t, W \ {m})
  BY <1>1, <1>5, <1>6, <1>7 DEF Level
<1>9. x.send = Mixed(t.root, t.dhs, x.dhs)
  <2>1. {key, m.dh} = {t.dhs, x.dhs}
    BY <1>1, <1>5
  <2>2. QED
    BY <1>1, <1>5, <2>1 DEF Mixed
<1>10. ASSUME NEW w \in V PROVE InStore(t, w) \/ (OnChain(t, w) /\ w.n < x.pn)
  <2>1. InStore(t, w) \/ OnChain(t, w)
    BY DEF Level
  <2>2. OnChain(t, w) => w.key[1] = s.send
    BY DEF OnChain, Level
  <2>3. w.key[1] = s.send => w.n < s.sn
    BY DEF Sends
  <2>4. QED
    BY <1>5, <2>1, <2>2, <2>3
<1>11. Behind(t, x, V)
  BY <1>5, <1>9, <1>10 DEF Behind
<1>12. QED
  BY <1>2, <1>3, <1>4, <1>5, <1>8, <1>11

------------------------------------------------------------------------------
(* The two ends of the one session *)

LEMMA IsNoSession ==
  ASSUME NEW s, KeepsWell(s)
  PROVE  s # NoSession
<1>1. Len(NoSession.root) = 0
  BY DEF NoSession, NoChain
<1>2. Len(s.root) > 0
  BY DEF KeepsWell
<1>3. QED
  BY <1>1, <1>2

LEMMA WireRegular ==
  ASSUME WireInv, TalkInv, NEW m \in sent
  PROVE  Regular(m)
BY OnWire DEF TalkInv, Regular

LEMMA EndIs ==
  ASSUME WireInv, TalkInv, NEW p \in Peers, NEW h, NEW s, s = End(p, h)
  PROVE  /\ KeepsWell(s) /\ s.sn \in Nat /\ Sends(s, Coming(Other(p)))
         /\ session[p] # NoSession =>
              s = session[p] /\ s.root = s.send /\ s.dhs \in {p} \X (1 .. fresh[p])
<1>1. KeepsWell(s)
  BY ResponderKeeps DEF WireInv, HandshakeInv, End
<1>2. session[p] # NoSession =>
        /\ s = session[p] /\ s.root = s.send /\ s.dhs \in {p} \X (1 .. fresh[p])
        /\ \A m \in sent : m.from = p /\ m.key[1] = s.send => m.key[2] < s.sn
  BY DEF End, WireInv, KeysInv, Ahead
<1>3. session[p] = NoSession => s.send = NoChain
  BY DEF End, InitResponder
<1>4. ASSUME NEW m \in Coming(Other(p))
      PROVE  m \in sent /\ Regular(m) /\ (m.key[1] = s.send => m.n < s.sn)
  <2>1. m \in sent /\ m.from = p
    BY OtherIs DEF Coming
  <2>2. Regular(m)
    BY <2>1, WireRegular
  <2>3. m.key[1] # NoChain /\ m.key[2] = m.n
    BY <2>2 DEF Regular
  <2>4. QED
    BY <1>2, <1>3, <2>1, <2>2, <2>3
<1>5. \A m, w \in sent : m.key = w.key => m = w
  BY DEF WireInv, KeysInv, KeysUnique
<1>6. Sends(s, Coming(Other(p)))
  BY <1>4, <1>5 DEF Sends
<1>7. QED
  BY <1>1, <1>2, <1>6 DEF KeepsWell

\* A message that comes to p opens, and the two ends stay in step.
LEMMA TalkOpens ==
  ASSUME WireInv, TalkInv, NEW p \in Peers, NEW h \in Handshakes, Talk(h),
         session[Other(p)] # NoSession, NEW m \in Coming(p),
         NEW s, s = End(p, h), NEW t, t = End(Other(p), h),
         NEW key, key = Pair(p, 1), ~Opened(s, m, key).over
  PROVE  LET r == Opened(s, m, key)
         IN  /\ r.ok /\ Tidy(Known(p), r.s) /\ KeepsWell(r.s)
             /\ \/ Paired(r.s, t, Coming(p) \ {m}, Coming(Other(p)))
                \/ Paired(t, r.s, Coming(Other(p)), Coming(p) \ {m})
<1>1. PICK q \in Peers : q = Other(p) /\ p = Other(q) /\ q # p
  BY OtherIs
<1>2. PICK K, V, W : K = Known(p) /\ W = Coming(p) /\ V = Coming(q)
  OBVIOUS
<1>3. /\ KeepsWell(s) /\ Sends(s, V) /\ KeepsWell(t) /\ t.sn \in Nat /\ Sends(t, W)
      /\ t = session[q] /\ t.root = t.send /\ t.dhs \in {q} \X (1 .. fresh[q])
  <2>1. KeepsWell(s) /\ Sends(s, V)
    BY <1>1, <1>2, EndIs
  <2>2. t = End(q, h) /\ session[q] # NoSession
    BY <1>1
  <2>3. /\ KeepsWell(t) /\ t.sn \in Nat /\ Sends(t, W)
        /\ t = session[q] /\ t.root = t.send /\ t.dhs \in {q} \X (1 .. fresh[q])
    BY <1>1, <1>2, <2>2, EndIs
  <2>4. QED
    BY <2>1, <2>3
<1>4. Tidy(K, s) /\ Tidy(Known(q), t)
  BY <1>1, <1>2 DEF Talk
<1>5. Paired(s, t, W, V) \/ Paired(t, s, V, W)
  <2>1. PICK x \in Peers : InStep(x, h)
    BY DEF Talk
  <2>2. x = p \/ x = q
    BY <1>1, OtherIs
  <2>3. QED
    BY <1>1, <1>2, <2>1, <2>2 DEF InStep
<1>6. m \in W /\ m \in sent /\ Regular(m)
  BY <1>2, WireRegular DEF Coming
<1>7. KeepsWell(Opened(s, m, key).s)
  <2>1. WellOpened(s, m, Opened(s, m, key))
    BY <1>3, <1>6, OpenedKeeps DEF Regular
  <2>2. QED
    BY <2>1 DEF WellOpened, OpensNoMore
<1>8. PICK r : r = Opened(s, m, key)
  OBVIOUS
<1>9. CASE Level(s, t, W) /\ Behind(t, s, V)
  <2>1. r.ok /\ Level(r.s, t, W \ {m}) /\ Alike(s, r.s) /\ Tidy(K, r.s)
    BY <1>3, <1>4, <1>6, <1>8, <1>9, LevelOpens
  <2>2. Behind(t, r.s, V)
    BY <1>9, <2>1 DEF Behind, Alike
  <2>3. QED
    BY <1>1, <1>2, <1>7, <1>8, <2>1, <2>2 DEF Paired
<1>10. CASE Level(t, s, V) /\ Behind(s, t, W)
  <2>1. CASE Sure(s, m)
    <3>1. r.ok /\ Behind(r.s, t, W \ {m}) /\ Alike(s, r.s) /\ Tidy(K, r.s)
      BY <1>3, <1>4, <1>6, <1>8, <1>10, <2>1, BehindOpens
    <3>2. Level(t, r.s, V)
      BY <1>10, <3>1 DEF Level, Alike
    <3>3. QED
      BY <1>1, <1>2, <1>7, <1>8, <3>1, <3>2 DEF Paired
  <2>2. CASE ~Sure(s, m)
    <3>1. t.dhs \in K
      BY <1>1, <1>2, <1>3 DEF Known
    <3>2. key \notin Known(q) /\ key # NoKey
      <4>1. key = <<p, fresh[p] + 1>> /\ fresh[p] \in Nat
        BY DEF Pair, WireInv, KeysInv
      <4>2. fresh[p] + 1 \notin 1 .. fresh[p]
        BY <4>1
      <4>3. key \notin {p} \X (1 .. fresh[p])
        BY <4>1, <4>2
      <4>4. key # NoKey
        BY <4>1 DEF NoKey
      <4>5. QED
        BY <1>1, <4>3, <4>4 DEF Known
    <3>3. key # t.dhr /\ \A i \in 1 .. Len(t.skipped) : t.skipped[i].dh # key
      BY <1>4, <3>2 DEF Tidy
    <3>4. m.key[1] # t.send \/ m.n < t.sn
      BY <1>3, <1>6 DEF Sends
    <3>5. r.ok /\ Level(r.s, t, W \ {m}) /\ Behind(t, r.s, V) /\ Tidy(K, r.s)
      BY <1>3, <1>4, <1>6, <1>8, <1>10, <2>2, <3>1, <3>3, <3>4, TurnsLevel
    <3>6. QED
      BY <1>1, <1>2, <1>7, <1>8, <3>5 DEF Paired
  <2>3. QED
    BY <2>1, <2>2
<1>11. QED
  BY <1>5, <1>9, <1>10 DEF Paired

\* Fewer messages are on their way, and more key pairs known.
LEMMA FewerComing ==
  ASSUME NEW s, NEW t, NEW V, NEW W, Paired(s, t, V, W), NEW X, X \subseteq V, NEW Y, Y \subseteq W
  PROVE  Paired(s, t, X, Y)
BY DEF Paired, Level, Behind

LEMMA TidyGrows ==
  ASSUME NEW p \in Peers, Grows(Other(p)), NEW s, Tidy(Known(p), s)
  PROVE  Tidy(Known(p)', s)
<1>1. PICK K, L : K = Known(p) /\ L = Known(p)'
  OBVIOUS
<1>2. K \subseteq L
  BY <1>1 DEF Known, Grows
<1>3. Tidy(L, s)
  BY <1>1, <1>2 DEF Tidy
<1>4. QED
  BY <1>1, <1>3

\* What is delivered stays so.
Delivers == \A m \in sent : got[m.id] # 0 => got'[m.id] # 0 /\ got'[m.id] > 0

LEMMA FewerToCome ==
  ASSUME WireInv, NEW p \in Peers, sent' = sent, Delivers
  PROVE  Coming(p)' \subseteq Coming(p)
BY DEF Coming, Delivers

\* p opens a message that comes to it.
LEMMA TalkReceives ==
  ASSUME WireInv, TalkInv, \A q \in Peers : Grows(q), sent' = sent, spk' = spk, saved' = saved,
         NEW h \in Handshakes, Talk(h), NEW p \in Peers, session[Other(p)] # NoSession,
         NEW m \in Coming(p), Delivers, got'[m.id] > 0, h.from = p \/ got'[h.id] > 0,
         NEW r, r = Opened(End(p, h), m, Pair(p, 1)), ~r.over,
         r.ok => session' = [session EXCEPT ![p] = r.s]
  PROVE  r.ok /\ Talk(h)'
<1>1. PICK q \in Peers : q = Other(p) /\ p = Other(q) /\ q # p /\ \A x \in Peers : x = p \/ x = q
  BY OtherIs
<1>2. PICK s, t, u, V, W :
        s = End(p, h) /\ t = End(q, h) /\ u = r.s /\ W = Coming(p) \ {m} /\ V = Coming(q)
  OBVIOUS
<1>3. /\ r.ok /\ Tidy(Known(p), u) /\ KeepsWell(u)
      /\ Paired(u, t, W, V) \/ Paired(t, u, V, W)
  <2>1. PICK key : key = Pair(p, 1)
    OBVIOUS
  <2>2. r = Opened(s, m, key) /\ t = End(Other(p), h)
    BY <1>1, <1>2, <2>1
  <2>3. /\ r.ok /\ Tidy(Known(p), r.s) /\ KeepsWell(r.s)
        /\ \/ Paired(r.s, t, Coming(p) \ {m}, Coming(Other(p)))
           \/ Paired(t, r.s, Coming(Other(p)), Coming(p) \ {m})
    BY <1>2, <2>1, <2>2, TalkOpens
  <2>4. QED
    BY <1>1, <1>2, <2>3
<1>4. u # NoSession
  BY <1>3, IsNoSession
<1>5. session'[p] = u /\ session'[q] = session[q] /\ session[q] # NoSession
  BY <1>1, <1>2, <1>3 DEF WireInv, KeysInv, OfPeers
<1>6. End(p, h)' = u /\ End(q, h)' = t
  BY <1>2, <1>4, <1>5 DEF End
<1>7. Coming(p)' \subseteq W /\ Coming(q)' \subseteq V
  <2>1. Coming(p)' \subseteq Coming(p) /\ Coming(q)' \subseteq Coming(q)
    BY FewerToCome
  <2>2. m \notin Coming(p)'
    BY DEF Coming
  <2>3. QED
    BY <1>2, <2>1, <2>2
<1>8. InStep(p, h)' \/ InStep(q, h)'
  <2>1. PICK X, Y : X = Coming(p)' /\ Y = Coming(q)'
    OBVIOUS
  <2>2. Paired(u, t, X, Y) \/ Paired(t, u, Y, X)
    BY <1>3, <1>7, <2>1, FewerComing
  <2>3. QED
    BY <1>1, <1>6, <2>1, <2>2 DEF InStep
<1>9. Tidy(Known(p), End(p, h))' /\ Tidy(Known(q), End(q, h))'
  <2>1. Tidy(Known(q), t)
    BY <1>2 DEF Talk
  <2>2. Tidy(Known(p)', u) /\ Tidy(Known(q)', t)
    BY <1>1, <1>3, <2>1, TidyGrows
  <2>3. QED
    BY <1>6, <2>2
<1>10. h \in sent /\ h.from \in Peers
  BY OnWire DEF Handshakes
<1>11. session'[h.from] # NoSession /\ session'[Other(h.from)] # NoSession
  BY <1>1, <1>4, <1>5, <1>10
<1>12. got'[h.id] > 0
  <2>1. CASE h.from = p
    <3>1. got[h.id] > 0
      BY <1>1, <1>5, <2>1 DEF Talk
    <3>2. QED
      BY <1>10, <3>1 DEF Delivers
  <2>2. QED
    BY <2>1
<1>13. /\ h.key[1][1] = [from |-> h.from, eph |-> h.eph, spk |-> spk'[Other(h.from)], otpk |-> h.otpk]
       /\ h.otpk = NoKey \/ h.otpk \in saved'[Other(h.from)]
  BY DEF Talk
<1>14. \E x \in Peers : InStep(x, h)'
  BY <1>8
<1>15. \A x \in Peers : Tidy(Known(x), End(x, h))'
  BY <1>1, <1>9
<1>16. Talk(h)'
  BY <1>11, <1>12, <1>13, <1>14, <1>15 DEF Talk
<1>17. QED
  BY <1>3, <1>16

\* Where the two ends stay as they are.
LEMMA TalkRests ==
  ASSUME WireInv, TalkInv, \A q \in Peers : Grows(q), sent' = sent, spk' = spk,
         \A q \in Peers : saved[q] \subseteq saved'[q],
         session' = session, Delivers, NEW h \in Handshakes, Talk(h)
  PROVE  Talk(h)'
<1>1. h \in sent /\ h.from \in Peers /\ Other(h.from) \in Peers
  BY OnWire, OtherIs DEF Handshakes
<1>2. ASSUME NEW p \in Peers PROVE End(p, h)' = End(p, h)
  BY DEF End
<1>3. ASSUME NEW p \in Peers, InStep(p, h) PROVE InStep(p, h)'
  <2>1. PICK s, t, V, W, X, Y :
          /\ s = End(p, h) /\ t = End(Other(p), h)
          /\ V = Coming(p) /\ W = Coming(Other(p)) /\ X = Coming(p)' /\ Y = Coming(Other(p))'
    OBVIOUS
  <2>2. X \subseteq V /\ Y \subseteq W
    BY <2>1, FewerToCome, OtherIs
  <2>3. Paired(s, t, X, Y)
    BY <1>3, <2>1, <2>2, FewerComing DEF InStep
  <2>4. s = End(p, h)' /\ t = End(Other(p), h)'
    BY <1>2, <2>1, OtherIs
  <2>5. QED
    BY <2>1, <2>3, <2>4 DEF InStep
<1>4. ASSUME NEW p \in Peers PROVE Tidy(Known(p), End(p, h))'
  <2>1. PICK s : s = End(p, h)
    OBVIOUS
  <2>2. Tidy(Known(p)', s)
    BY <2>1, TidyGrows, OtherIs DEF Talk
  <2>3. QED
    BY <1>2, <2>1, <2>2
<1>5. session[Other(h.from)] = NoSession => InStep(h.from, h)' /\ \A m \in sent : m.from = h.from
  BY <1>1, <1>3 DEF Talk
<1>6. \E p \in Peers : InStep(p, h)'
  BY <1>3 DEF Talk
<1>7. got[h.id] > 0 => got'[h.id] > 0
  BY <1>1 DEF Delivers
<1>8. /\ h.key[1][1] = [from |-> h.from, eph |-> h.eph, spk |-> spk'[Other(h.from)], otpk |-> h.otpk]
      /\ h.otpk = NoKey \/ h.otpk \in saved'[Other(h.from)]
  BY <1>1 DEF Talk
<1>9. session'[h.from] # NoSession /\ (session'[Other(h.from)] # NoSession => got'[h.id] > 0)
  BY <1>7 DEF Talk
<1>10. QED
  BY <1>4, <1>5, <1>6, <1>8, <1>9 DEF Talk

LEMMA SealIs ==
  ASSUME NEW s, IsSession(s)
  PROVE  LET u == AfterSeal(s)
         IN  /\ u.root = s.root /\ u.dhs = s.dhs /\ u.dhr = s.dhr /\ u.send = s.send
             /\ u.recv = s.recv /\ u.rn = s.rn /\ u.pn = s.pn /\ u.skipped = s.skipped
             /\ u.sn = s.sn + 1
<1>1. AfterSeal(s) =
        [root |-> s.root, dhs |-> s.dhs, dhr |-> s.dhr, send |-> s.send, recv |-> s.recv,
         sn |-> s.sn + 1, rn |-> s.rn, pn |-> s.pn, skipped |-> s.skipped]
  BY DEF AfterSeal, IsSession
<1>2. QED
  BY <1>1

\* An end seals m, and stays in step with t.
LEMMA SealsInStep ==
  ASSUME NEW s, IsSession(s), s.sn \in Nat, NEW u, u = AfterSeal(s), NEW t, t.rn \in Nat,
         NEW m, m.dh = s.dhs, m.pn = s.pn, m.n = s.sn, m.key[1] = s.send, NEW V, NEW W
  PROVE  /\ Paired(s, t, V, W) => Paired(u, t, V, W \cup {m})
         /\ Paired(t, s, W, V) => Paired(t, u, W \cup {m}, V)
<1>1. /\ u.root = s.root /\ u.dhs = s.dhs /\ u.dhr = s.dhr /\ u.send = s.send
      /\ u.recv = s.recv /\ u.rn = s.rn /\ u.pn = s.pn /\ u.skipped = s.skipped
      /\ u.sn = s.sn + 1
  BY SealIs
<1>2. ASSUME Paired(s, t, V, W) PROVE Paired(u, t, V, W \cup {m})
  <2>1. Level(u, t, V)
    BY <1>1, <1>2 DEF Paired, Level, InStore, OnChain
  <2>2. Behind(t, u, W \cup {m})
    BY <1>1, <1>2 DEF Paired, Behind
  <2>3. QED
    BY <2>1, <2>2 DEF Paired
<1>3. ASSUME Paired(t, s, W, V) PROVE Paired(t, u, W \cup {m}, V)
  <2>1. s.send = t.recv /\ s.dhs = t.dhr /\ t.rn <= s.sn
    BY <1>3 DEF Paired, Level
  <2>2. t.rn <= u.sn /\ s.sn >= t.rn
    BY <1>1, <2>1
  <2>3. OnChain(t, m)
    BY <2>1, <2>2 DEF OnChain
  <2>4. Level(t, u, W \cup {m})
    BY <1>1, <1>3, <2>2, <2>3 DEF Paired, Level
  <2>5. Behind(u, t, V)
    BY <1>1, <1>3 DEF Paired, Behind, InStore, OnChain
  <2>6. QED
    BY <2>4, <2>5 DEF Paired
<1>4. QED
  BY <1>2, <1>3

\* p sends on.
LEMMA TalkSends ==
  ASSUME WireInv, TalkInv, NEW p \in Peers, SendCont(p), NEW h \in Handshakes, Talk(h)
  PROVE  Talk(h)'
<1>1. PICK q \in Peers : q = Other(p) /\ p = Other(q) /\ q # p /\ \A x \in Peers : x = p \/ x = q
  BY OtherIs
<1>2. PICK s, t, u, m, V, W :
        /\ s = session[p] /\ t = End(q, h) /\ u = AfterSeal(s) /\ m = Message(p, Plain, s)
        /\ V = Coming(p) /\ W = Coming(q)
  OBVIOUS
<1>3. /\ s # NoSession /\ session' = [session EXCEPT ![p] = u] /\ sent' = sent \cup {m}
      /\ UNCHANGED <<spk, saved, fresh, got>>
  BY <1>2 DEF SendCont, Persist, prekeyVars
<1>4. s = End(p, h) /\ KeepsWell(s) /\ s.sn \in Nat /\ IsSession(s) /\ t.rn \in Nat
  <2>1. s = End(p, h)
    BY <1>2, <1>3 DEF End
  <2>2. KeepsWell(s) /\ KeepsWell(t)
    BY <1>2, <2>1, EndIs
  <2>3. QED
    BY <2>1, <2>2 DEF KeepsWell
<1>5. /\ m.from = p /\ m.dh = s.dhs /\ m.pn = s.pn /\ m.n = s.sn /\ m.key = <<s.send, s.sn>>
      /\ ~m.init
  BY <1>2 DEF Message, Sealed, Plain
<1>6. /\ u.root = s.root /\ u.dhr = s.dhr /\ u.recv = s.recv /\ u.skipped = s.skipped
  BY <1>2, <1>4, SealIs
<1>7. u # NoSession
  <2>1. Len(NoSession.root) = 0
    BY DEF NoSession, NoChain
  <2>2. Len(u.root) > 0
    BY <1>4, <1>6 DEF KeepsWell
  <2>3. QED
    BY <2>1, <2>2
<1>8. session'[p] = u /\ session'[q] = session[q]
  BY <1>1, <1>3 DEF WireInv, KeysInv, OfPeers
<1>9. End(p, h)' = u /\ End(q, h)' = t
  BY <1>2, <1>3, <1>7, <1>8 DEF End
<1>10. Coming(p)' \subseteq V /\ Coming(q)' \subseteq W \cup {m}
  BY <1>1, <1>2, <1>3, <1>5 DEF Coming
<1>11. m.key[1] = s.send
  BY <1>5
<1>12. /\ InStep(p, h) => InStep(p, h)'
       /\ InStep(q, h) => InStep(q, h)'
  <2>1. PICK X, Y, Z : X = Coming(p)' /\ Y = Coming(q)' /\ Z = W \cup {m}
    OBVIOUS
  <2>2. /\ Paired(s, t, V, W) => Paired(u, t, V, Z)
        /\ Paired(t, s, W, V) => Paired(t, u, Z, V)
    BY <1>2, <1>4, <1>5, <1>11, <2>1, SealsInStep
  <2>3. /\ Paired(u, t, V, Z) => Paired(u, t, X, Y)
        /\ Paired(t, u, Z, V) => Paired(t, u, Y, X)
    BY <1>10, <2>1, FewerComing
  <2>4. QED
    BY <1>1, <1>2, <1>4, <1>9, <2>1, <2>2, <2>3 DEF InStep
<1>13. ASSUME NEW x \in Peers PROVE Tidy(Known(x), End(x, h))'
  <2>1. Known(x)' = Known(x)
    BY <1>3 DEF Known
  <2>2. Tidy(Known(x), End(x, h))
    BY DEF Talk
  <2>3. Tidy(Known(p), s) => Tidy(Known(p), u)
    BY <1>6 DEF Tidy
  <2>4. QED
    BY <1>1, <1>2, <1>4, <1>9, <2>1, <2>2, <2>3
<1>14. h.from \in Peers
  BY OnWire DEF Handshakes
<1>15. ASSUME session'[Other(h.from)] = NoSession
       PROVE  InStep(h.from, h)' /\ \A w \in sent' : w.from = h.from
  <2>1. h.from = p /\ session[q] = NoSession
    BY <1>1, <1>7, <1>8, <1>14, <1>15
  <2>2. InStep(p, h) /\ \A w \in sent : w.from = p
    BY <1>1, <2>1 DEF Talk
  <2>3. QED
    BY <1>3, <1>5, <1>12, <2>1, <2>2
<1>16. session'[h.from] # NoSession /\ (session'[Other(h.from)] # NoSession => got'[h.id] > 0)
  <2>1. session[h.from] # NoSession /\ (session[Other(h.from)] # NoSession => got[h.id] > 0)
    BY DEF Talk
  <2>2. h.from = p \/ h.from = q
    BY <1>1, <1>14
  <2>3. QED
    BY <1>1, <1>2, <1>3, <1>7, <1>8, <2>1, <2>2
<1>17. \E x \in Peers : InStep(x, h)'
  BY <1>1, <1>12 DEF Talk
<1>18. /\ h.key[1][1] = [from |-> h.from, eph |-> h.eph, spk |-> spk'[Other(h.from)], otpk |-> h.otpk]
       /\ h.otpk = NoKey \/ h.otpk \in saved'[Other(h.from)]
  BY <1>3 DEF Talk
<1>19. QED
  BY <1>13, <1>15, <1>16, <1>17, <1>18 DEF Talk

\* p begins: m is the first message that is sent.
LEMMA TalkBegins ==
  ASSUME WireInv, TalkInv, OneTalk, NEW p \in Peers, NEW bundle \in busy[p], SendInit(p, bundle),
         sent = {}, \A q \in Peers : session[q] = NoSession, NEW m \in sent'
  PROVE  Talk(m)'
<1>1. PICK q \in Peers : q = Other(p) /\ p = Other(q) /\ q # p /\ \A x \in Peers : x = p \/ x = q
  BY OtherIs
<1>2. PICK eph, key, secret, s, u :
        /\ eph = Pair(p, 1) /\ key = Pair(p, 2)
        /\ secret = [from |-> p, eph |-> eph, spk |-> bundle.spk, otpk |-> bundle.otpk]
        /\ s = InitInitiator(secret, bundle.spk, key) /\ u = AfterSeal(s)
  OBVIOUS
<1>3. /\ session' = [session EXCEPT ![p] = u] /\ fresh' = [fresh EXCEPT ![p] = @ + 2]
      /\ sent' = {Message(p, [init |-> TRUE, eph |-> eph, otpk |-> bundle.otpk], s)}
      /\ UNCHANGED <<spk, saved, got>>
  BY <1>2 DEF SendInit, Persist, prekeyVars
<1>4. bundle.spk = spk[q] /\ (bundle.otpk = NoKey \/ bundle.otpk \in saved[q])
      /\ spk[q] \in {q} \X (1 .. fresh[q])
  BY <1>1 DEF OneTalk, OfBundle
<1>5. PICK c : c = Mixed(<<secret>>, key, spk[q])
  OBVIOUS
<1>6. s = [root |-> c, dhs |-> key, dhr |-> spk[q], send |-> c, recv |-> NoChain,
           sn |-> 0, rn |-> 0, pn |-> 0, skipped |-> <<>>]
  BY <1>2, <1>4, <1>5 DEF InitInitiator
<1>7. /\ u.root = c /\ u.dhs = key /\ u.dhr = spk[q] /\ u.send = c /\ u.recv = NoChain
      /\ u.rn = 0 /\ u.pn = 0 /\ u.skipped = <<>>
  <2>1. IsSession(s)
    BY <1>6 DEF IsSession
  <2>2. QED
    BY <1>2, <1>6, <2>1, SealIs
<1>8. Len(c) = 2 /\ c[1] = secret
  BY <1>5, FirstMixed
<1>9. /\ m.from = p /\ m.eph = eph /\ m.otpk = bundle.otpk /\ m.dh = key /\ m.pn = 0
      /\ m.key[1] = c
  <2>1. m = Message(p, [init |-> TRUE, eph |-> eph, otpk |-> bundle.otpk], s)
    BY <1>3
  <2>2. s.dhs = key /\ s.pn = 0 /\ s.send = c
    BY <1>6
  <2>3. QED
    BY <2>1, <2>2 DEF Message, Sealed
<1>10. u # NoSession
  <2>1. Len(NoSession.root) = 0
    BY DEF NoSession, NoChain
  <2>2. u.root = c
    BY <1>7
  <2>3. Len(u.root) = 2
    BY <1>8, <2>2
  <2>4. QED
    BY <2>1, <2>3
<1>11. session'[p] = u /\ session'[q] = NoSession
  BY <1>1, <1>3 DEF WireInv, KeysInv, OfPeers
<1>12. PICK i : i = InitResponder(secret, spk[q])
  OBVIOUS
<1>13. /\ i.root = <<secret>> /\ i.dhs = spk[q] /\ i.dhr = NoKey /\ i.send = NoChain
       /\ i.recv = NoChain /\ i.sn = 0 /\ i.skipped = <<>>
  BY <1>12 DEF InitResponder
<1>14. End(p, m)' = u /\ End(q, m)' = i
  <2>1. m.key[1][1] = secret
    BY <1>8, <1>9
  <2>2. QED
    BY <1>3, <1>10, <1>11, <1>12, <2>1 DEF End
<1>15. Coming(p)' = {} /\ Coming(q)' \subseteq {m}
  BY <1>1, <1>3, <1>9 DEF Coming
<1>16. key # NoKey
  BY <1>2 DEF Pair, NoKey
<1>17. Len(<<>>) = 0 /\ \A j \in 1 .. Len(<<>>) : FALSE
  OBVIOUS
<1>18. Paired(u, i, {}, {m})
  <2>1. Level(u, i, {})
    BY <1>7, <1>13 DEF Level
  <2>2. c = Mixed(<<secret>>, spk[q], key)
    <3>1. {key, spk[q]} = {spk[q], key}
      OBVIOUS
    <3>2. QED
      BY <1>5, <3>1 DEF Mixed
  <2>3. u.send = Mixed(i.root, i.dhs, u.dhs)
    BY <1>7, <1>13, <2>2
  <2>4. Behind(i, u, {m})
    BY <1>7, <1>9, <1>13, <1>16, <1>17, <2>3 DEF Behind
  <2>5. QED
    BY <2>1, <2>4 DEF Paired
<1>19. InStep(p, m)'
  <2>1. PICK X, Y : X = Coming(p)' /\ Y = Coming(q)'
    OBVIOUS
  <2>2. Paired(u, i, X, Y)
    BY <1>15, <1>18, <2>1, FewerComing
  <2>3. QED
    BY <1>1, <1>14, <2>1, <2>2 DEF InStep
<1>20. Tidy(Known(p), End(p, m))' /\ Tidy(Known(q), End(q, m))'
  <2>1. fresh'[q] = fresh[q]
    BY <1>1, <1>3 DEF WireInv, KeysInv, OfPeers
  <2>2. PICK K, L : K = Known(p)' /\ L = Known(q)'
    OBVIOUS
  <2>3. spk[q] \in K
    BY <1>1, <1>4, <2>1, <2>2 DEF Known
  <2>4. Tidy(K, u) /\ Tidy(L, i)
    BY <1>7, <1>13, <1>17, <2>3, SkippedAssumption DEF Tidy
  <2>5. QED
    BY <1>14, <2>2, <2>4
<1>21. \A w \in sent' : w.from = p
  BY <1>3, <1>9
<1>22. /\ m.key[1][1] = [from |-> m.from, eph |-> m.eph, spk |-> spk'[Other(m.from)], otpk |-> m.otpk]
       /\ m.otpk = NoKey \/ m.otpk \in saved'[Other(m.from)]
  BY <1>1, <1>2, <1>3, <1>4, <1>8, <1>9
<1>23. QED
  BY <1>1, <1>9, <1>10, <1>11, <1>19, <1>20, <1>21, <1>22 DEF Talk

------------------------------------------------------------------------------
(* Every step keeps it *)

LEMMA DeliverIs ==
  ASSUME WireInv, TalkInv, NEW m \in sent, Deliver(m)
  PROVE  /\ got' \in [Ids -> Nat] /\ \A id \in Ids : got[id] <= got'[id]
         /\ Delivers /\ got'[m.id] > 0 /\ got'[m.id] # 0
         /\ (\A id \in Ids : got'[id] <= 1) => got[m.id] = 0
<1>1. m.id \in Ids /\ got \in [Ids -> Nat] /\ got' = [got EXCEPT ![m.id] = @ + 1]
  BY OnWire DEF TalkInv, Deliver
<1>2. /\ got' \in [Ids -> Nat] /\ got'[m.id] = got[m.id] + 1
      /\ \A id \in Ids : got[id] \in Nat /\ (id # m.id => got'[id] = got[id])
  BY <1>1
<1>3. \A id \in Ids : got[id] <= got'[id] /\ got'[id] \in Nat
  BY <1>1, <1>2
<1>4. \A w \in sent : w.id \in Ids
  BY OnWire
<1>5. Delivers
  BY <1>2, <1>3, <1>4 DEF Delivers
<1>6. QED
  BY <1>1, <1>2, <1>3, <1>5

LEMMA NoneDelivers ==
  ASSUME WireInv, TalkInv, got' = got
  PROVE  got' \in [Ids -> Nat] /\ (\A id \in Ids : got[id] <= got'[id]) /\ Delivers
<1>1. got \in [Ids -> Nat] /\ \A w \in sent : w.id \in Ids
  BY OnWire DEF TalkInv
<1>2. QED
  BY <1>1 DEF Delivers

\* Calm is lost for good.
LEMMA CalmBefore ==
  ASSUME WireInv, TalkInv, sent \subseteq sent',
         got' \in [Ids -> Nat], \A id \in Ids : got[id] <= got'[id],
         count'["rotate"] = 0 => count["rotate"] = 0, count'["torn"] = 0 => count["torn"] = 0,
         over => over', Calm'
  PROVE  Calm /\ OneTalk
<1>1. \A h, i \in Handshakes : h = i
  BY DEF Calm, Handshakes
<1>2. \A id \in Ids : got[id] <= 1
  BY DEF Calm, TalkInv
<1>3. Calm
  BY <1>1, <1>2 DEF Calm
<1>4. QED
  BY <1>3 DEF TalkInv

\* A step that makes no session, and delivers at most one message.
LEMMA RestsTalk ==
  ASSUME WireInv, TalkInv, OneTalk, \A q \in Peers : Grows(q), sent' = sent, spk' = spk,
         \A q \in Peers : saved[q] \subseteq saved'[q] /\ public'[q] \subseteq saved'[q],
         session' = session, disk' = disk, failed' = failed, Delivers,
         \A q \in Peers : saved[q] \subseteq pool[q] => saved'[q] \subseteq pool'[q],
         \A q \in Peers : \A b \in busy'[q] : OfBundle(Other(q), b)
  PROVE  OneTalk'
<1>1. Handshakes' = Handshakes
  BY DEF Handshakes
<1>2. \A h \in Handshakes : Talk(h)'
  <2> SUFFICES ASSUME NEW h \in Handshakes PROVE Talk(h)'
    OBVIOUS
  <2>1. Talk(h)
    BY DEF OneTalk
  <2>2. QED
    BY <2>1, TalkRests
<1>3. ASSUME NEW p \in Peers
      PROVE  /\ spk'[p] \in {p} \X (1 .. fresh'[p]) /\ public'[p] \subseteq saved'[p]
             /\ \A b \in busy'[p] : OfBundle(Other(p), b)'
  <2>1. spk[p] \in {p} \X (1 .. fresh[p]) /\ Grows(p)
    BY DEF OneTalk
  <2>2. spk'[p] \in {p} \X (1 .. fresh'[p])
    BY <2>1 DEF Grows
  <2>3. PICK q \in Peers : q = Other(p)
    BY OtherIs
  <2>4. \A b \in busy'[p] : OfBundle(q, b)'
    BY <2>3 DEF OfBundle
  <2>5. QED
    BY <2>2, <2>3, <2>4
<1>4. (\A h \in Handshakes : got'[h.id] = 0) => \A p \in Peers : saved'[p] \subseteq pool'[p]
  <2> SUFFICES ASSUME \A h \in Handshakes : got'[h.id] = 0
               PROVE  \A p \in Peers : saved'[p] \subseteq pool'[p]
    OBVIOUS
  <2>1. \A h \in Handshakes : got[h.id] = 0
    BY DEF Delivers, Handshakes
  <2>2. QED
    BY <2>1 DEF OneTalk
<1>5. Handshakes = {} => sent' = {} /\ \A p \in Peers : session'[p] = NoSession
  BY DEF OneTalk
<1>6. disk' = session' /\ failed' = {}
  BY DEF OneTalk
<1>7. QED
  BY <1>1, <1>2, <1>3, <1>4, <1>5, <1>6 DEF OneTalk

LEMMA TakeBundleTalks ==
  ASSUME WireInv, TalkInv, NEW p \in Peers, TakeBundle(p)
  PROVE  TalkInv'
<1>1. PICK q \in Peers : q = Other(p) /\ p = Other(q) /\ q # p /\ \A x \in Peers : x = p \/ x = q
  BY OtherIs
<1>2. /\ UNCHANGED <<spk, pool, saved, session, disk, fresh, sent, got, failed, over, count>>
      /\ \E k : /\ busy' = [busy EXCEPT ![p] = @ \cup {[spk |-> spk[q], otpk |-> k]}]
                /\ \/ k = NoKey /\ public' = public
                   \/ k \in public[q] /\ public' = [public EXCEPT ![q] = @ \ {k}]
  BY <1>1 DEF TakeBundle, dsHistory
<1>3. PICK k : /\ busy' = [busy EXCEPT ![p] = @ \cup {[spk |-> spk[q], otpk |-> k]}]
               /\ \/ k = NoKey /\ public' = public
                  \/ k \in public[q] /\ public' = [public EXCEPT ![q] = @ \ {k}]
  BY <1>2
<1>4. /\ got' \in [Ids -> Nat] /\ (\A id \in Ids : got[id] <= got'[id]) /\ Delivers
  BY <1>2, NoneDelivers
<1>5. ASSUME Calm' PROVE OneTalk'
  <2>1. OneTalk
    BY <1>2, <1>4, <1>5, CalmBefore
  <2>2. \A x \in Peers : Grows(x)
    BY <1>2, StillGrows DEF WireInv
  <2>3. \A x \in Peers : public'[x] \subseteq public[x] /\ public[x] \subseteq saved[x]
    BY <1>3, <2>1 DEF OneTalk, TalkInv, OfPeers
  <2>4. \A x \in Peers : \A b \in busy'[x] : OfBundle(Other(x), b)
    <3>1. OfPeers(busy)
      BY DEF WireInv, KeysInv
    <3>2. busy'[q] = busy[q] /\ busy'[p] = busy[p] \cup {[spk |-> spk[q], otpk |-> k]}
      BY <1>1, <1>3, <3>1 DEF OfPeers
    <3>3. k = NoKey \/ k \in saved[q]
      BY <1>3, <2>1 DEF OneTalk
    <3>4. PICK b : b = [spk |-> spk[q], otpk |-> k]
      OBVIOUS
    <3>5. OfBundle(q, b)
      BY <3>3, <3>4 DEF OfBundle
    <3>6. \A x \in Peers : \A c \in busy[x] : OfBundle(Other(x), c)
      BY <2>1 DEF OneTalk
    <3>7. QED
      BY <1>1, <3>2, <3>4, <3>5, <3>6
  <2>5. QED
    BY <1>2, <1>4, <2>1, <2>2, <2>3, <2>4, RestsTalk
<1>6. OfPeers(saved)' /\ OfPeers(public)'
  BY <1>2, <1>3 DEF TalkInv, OfPeers
<1>7. QED
  BY <1>2, <1>4, <1>5, <1>6 DEF TalkInv

LEMMA UnknownTalks ==
  ASSUME WireInv, TalkInv, NEW m,
         (m \in sent /\ ReceiveUnknown(Other(m.from), m)) \/ UNCHANGED dsVars
  PROVE  TalkInv'
<1>1. /\ UNCHANGED <<spk, pool, saved, public, session, disk, busy, fresh, sent, failed, over, count>>
      /\ got' = got \/ (m \in sent /\ Deliver(m))
  BY DEF ReceiveUnknown, dsVars, prekeyVars, sessionVars, dsHistory
<1>2. /\ got' \in [Ids -> Nat] /\ (\A id \in Ids : got[id] <= got'[id]) /\ Delivers
  BY <1>1, NoneDelivers, DeliverIs
<1>3. ASSUME Calm' PROVE OneTalk'
  <2>1. OneTalk
    BY <1>1, <1>2, <1>3, CalmBefore
  <2>2. \A x \in Peers : Grows(x)
    BY <1>1, StillGrows DEF WireInv
  <2>3. \A x \in Peers : public[x] \subseteq saved[x] /\ \A b \in busy[x] : OfBundle(Other(x), b)
    BY <2>1 DEF OneTalk
  <2>4. QED
    BY <1>1, <1>2, <2>1, <2>2, <2>3, RestsTalk
<1>4. OfPeers(saved)' /\ OfPeers(public)'
  BY <1>1 DEF TalkInv, OfPeers
<1>5. QED
  BY <1>1, <1>2, <1>3, <1>4 DEF TalkInv

LEMMA LoginTalks ==
  ASSUME WireInv, TalkInv, NEW p \in Peers, LoginAgain(p) \/ LoginRotates(p) \/ LoginTorn(p)
  PROVE  TalkInv'
<1>1. PICK stored, signed : Login(p, stored, signed)
  BY DEF LoginAgain, LoginRotates, LoginTorn
<1>2. UNCHANGED <<sent, got, failed, over>>
  BY <1>1 DEF Login
<1>3. /\ got' \in [Ids -> Nat] /\ (\A id \in Ids : got[id] <= got'[id]) /\ Delivers
  BY <1>2, NoneDelivers
<1>4. PICK e \in Logins : count' = [count EXCEPT ![e] = @ + 1] /\ (e = "login" => LoginAgain(p))
  BY DEF LoginAgain, LoginRotates, LoginTorn, Happens, Logins
<1>5. count \in [Logins -> Nat]
  BY DEF WireInv, NumberInv
<1>6. ASSUME Calm' PROVE OneTalk'
  <2>1. e = "login" /\ count'["rotate"] = count["rotate"] /\ count'["torn"] = count["torn"]
    <3>1. \A d \in Logins : count[d] \in Nat /\ count'[d] = IF d = e THEN count[d] + 1 ELSE count[d]
      BY <1>4, <1>5
    <3>2. "rotate" \in Logins /\ "torn" \in Logins /\ count'["rotate"] = 0 /\ count'["torn"] = 0
      BY <1>6 DEF Logins, Calm
    <3>3. e # "rotate" /\ e # "torn"
      BY <3>1, <3>2
    <3>4. QED
      BY <3>1, <3>2, <3>3 DEF Logins
  <2>2. OneTalk
    BY <1>2, <1>3, <1>6, <2>1, CalmBefore
  <2>3. Login(p, disk[p], spk[p])
    BY <1>4, <2>1 DEF LoginAgain
  <2>4. PICK all : all = Replenished(p)
    OBVIOUS
  <2>5. /\ spk' = [spk EXCEPT ![p] = spk[p]] /\ saved' = [saved EXCEPT ![p] = all]
        /\ pool' = [pool EXCEPT ![p] = all] /\ public' = [public EXCEPT ![p] = @ \cup all]
        /\ session' = [session EXCEPT ![p] = disk[p]] /\ disk' = [disk EXCEPT ![p] = disk[p]]
        /\ busy' = [busy EXCEPT ![p] = {}]
        /\ fresh' = [fresh EXCEPT ![p] = @ + 1 + PoolTarget]
    BY <2>3, <2>4 DEF Login
  <2>6. saved[p] \subseteq all
    BY <2>4 DEF Replenished
  <2>7. OfPeers(session) /\ OfPeers(disk) /\ OfPeers(busy) /\ OfPeers(spk) /\ OfPeers(fresh) /\ OfPeers(pool)
    BY DEF WireInv, KeysInv, NumberInv
  <2>8. spk' = spk /\ session' = session /\ disk' = disk
    BY <2>2, <2>5, <2>7 DEF OneTalk, OfPeers
  <2>9. \A x \in Peers : Grows(x)
    <3>1. \A x \in Peers : fresh[x] \in Nat
      BY DEF WireInv, KeysInv
    <3>2. fresh'[p] = fresh[p] + 1 + PoolTarget /\ \A x \in Peers : x # p => fresh'[x] = fresh[x]
      BY <2>5, <2>7 DEF OfPeers
    <3>3. QED
      BY <3>1, <3>2, PoolAssumption DEF Grows
  <2>10. \A x \in Peers : public[x] \subseteq saved[x] /\ \A b \in busy[x] : OfBundle(Other(x), b)
    BY <2>2 DEF OneTalk
  <2>11. \A x \in Peers :
           /\ saved[x] \subseteq saved'[x] /\ public'[x] \subseteq saved'[x]
           /\ saved[x] \subseteq pool[x] => saved'[x] \subseteq pool'[x]
    BY <2>5, <2>6, <2>7, <2>10 DEF OfPeers, TalkInv
  <2>12. \A x \in Peers : \A b \in busy'[x] : OfBundle(Other(x), b)
    BY <2>5, <2>7, <2>10 DEF OfPeers
  <2>13. QED
    BY <1>2, <1>3, <2>2, <2>8, <2>9, <2>11, <2>12, RestsTalk
<1>7. OfPeers(saved)' /\ OfPeers(public)'
  BY <1>1 DEF Login, TalkInv, OfPeers
<1>8. QED
  BY <1>2, <1>3, <1>6, <1>7 DEF TalkInv

LEMMA TalkTogether ==
  ASSUME OneTalk, \A q \in Peers : Grows(q), UNCHANGED <<spk, saved, public>>,
         \A q \in Peers : busy'[q] \subseteq busy[q], disk' = session', failed' = {},
         Handshakes' # {}, \A h \in Handshakes' : Talk(h)',
         (\A h \in Handshakes' : got'[h.id] = 0) => \A q \in Peers : saved[q] \subseteq pool'[q]
  PROVE  OneTalk'
<1>1. ASSUME NEW p \in Peers
      PROVE  /\ spk'[p] \in {p} \X (1 .. fresh'[p]) /\ public'[p] \subseteq saved'[p]
             /\ \A b \in busy'[p] : OfBundle(Other(p), b)'
  <2>1. /\ spk[p] \in {p} \X (1 .. fresh[p]) /\ public[p] \subseteq saved[p] /\ Grows(p)
        /\ \A b \in busy[p] : OfBundle(Other(p), b)
    BY DEF OneTalk
  <2>2. spk'[p] \in {p} \X (1 .. fresh'[p])
    BY <2>1 DEF Grows
  <2>3. PICK q : q = Other(p)
    OBVIOUS
  <2>4. \A b \in busy'[p] : OfBundle(q, b)'
    BY <2>1, <2>3 DEF OfBundle
  <2>5. QED
    BY <2>1, <2>2, <2>3, <2>4
<1>2. QED
  BY <1>1 DEF OneTalk

LEMMA SendContTalks ==
  ASSUME WireInv, TalkInv, NEW p \in Peers, SendCont(p)
  PROVE  TalkInv'
<1>1. PICK s, m : s = session[p] /\ m = Message(p, Plain, s)
  OBVIOUS
<1>2. /\ s # NoSession /\ sent' = sent \cup {m}
      /\ session' = [session EXCEPT ![p] = AfterSeal(s)] /\ disk' = [disk EXCEPT ![p] = AfterSeal(s)]
      /\ UNCHANGED <<spk, pool, saved, public, busy, fresh, got, failed, over, count>>
  BY <1>1 DEF SendCont, Persist, prekeyVars
<1>3. ~m.init /\ m.key = <<m.key[1], m.n>>
  <2>1. m.key = <<s.send, s.sn>> /\ m.n = s.sn /\ ~m.init
    BY <1>1 DEF Message, Sealed, Plain
  <2>2. QED
    BY <2>1
<1>4. /\ got' \in [Ids -> Nat] /\ (\A id \in Ids : got[id] <= got'[id]) /\ Delivers
  BY <1>2, NoneDelivers
<1>5. ASSUME Calm' PROVE OneTalk'
  <2>1. OneTalk
    BY <1>2, <1>4, <1>5, CalmBefore
  <2>2. Handshakes' = Handshakes
    BY <1>2, <1>3 DEF Handshakes
  <2>3. Handshakes # {}
    BY <1>1, <1>2, <2>1 DEF OneTalk
  <2>4. \A h \in Handshakes : Talk(h)'
    <3> SUFFICES ASSUME NEW h \in Handshakes PROVE Talk(h)'
      OBVIOUS
    <3>1. Talk(h)
      BY <2>1 DEF OneTalk
    <3>2. QED
      BY <3>1, TalkSends
  <2>5. \A q \in Peers : Grows(q)
    BY <1>2, StillGrows DEF WireInv
  <2>6. disk' = session' /\ failed' = {}
    BY <1>2, <2>1 DEF OneTalk
  <2>7. (\A h \in Handshakes' : got'[h.id] = 0) => \A q \in Peers : saved[q] \subseteq pool'[q]
    BY <1>2, <2>1, <2>2 DEF OneTalk
  <2>8. QED
    BY <1>2, <2>1, <2>2, <2>3, <2>4, <2>5, <2>6, <2>7, TalkTogether
<1>6. QED
  BY <1>2, <1>3, <1>4, <1>5 DEF TalkInv, OfPeers

LEMMA SendInitTalks ==
  ASSUME WireInv, TalkInv, NEW p \in Peers, NEW bundle \in busy[p], SendInit(p, bundle)
  PROVE  TalkInv'
<1>1. PICK s, u, m :
        /\ m = Message(p, [init |-> TRUE, eph |-> Pair(p, 1), otpk |-> bundle.otpk], s)
        /\ sent' = sent \cup {m}
        /\ session' = [session EXCEPT ![p] = u] /\ disk' = [disk EXCEPT ![p] = u]
  <2> DEFINE secret == [from |-> p, eph |-> Pair(p, 1), spk |-> bundle.spk, otpk |-> bundle.otpk]
  <2>1. PICK s : s = InitInitiator(secret, bundle.spk, Pair(p, 2))
    OBVIOUS
  <2>2. QED
    BY <2>1 DEF SendInit, Persist
<1>2. /\ busy' = [busy EXCEPT ![p] = @ \ {bundle}] /\ fresh' = [fresh EXCEPT ![p] = @ + 2]
      /\ UNCHANGED <<spk, pool, saved, public, got, failed, over, count>>
  BY DEF SendInit, prekeyVars
<1>3. /\ m.init /\ m.from = p /\ m.key = <<m.key[1], m.n>>
      /\ m.id = <<p, Cardinality(From(p)) + 1>>
  <2>1. m.key = <<s.send, s.sn>> /\ m.n = s.sn /\ m.init /\ m.from = p
    BY <1>1 DEF Message, Sealed
  <2>2. m.id = <<p, Cardinality(From(p)) + 1>>
    BY <1>1 DEF Message, From
  <2>3. QED
    BY <2>1, <2>2
<1>4. /\ got' \in [Ids -> Nat] /\ (\A id \in Ids : got[id] <= got'[id]) /\ Delivers
  BY <1>2, NoneDelivers
<1>5. ASSUME Calm' PROVE OneTalk'
  <2>1. OneTalk
    BY <1>1, <1>2, <1>4, <1>5, CalmBefore
  <2>2. m \notin sent
    <3>1. Cardinality(From(p)) \in Nat
      BY FromIs DEF WireInv
    <3>2. PICK n : n = Cardinality(From(p))
      OBVIOUS
    <3>3. \A w \in sent : w.from = p => w.id \in {p} \X (1 .. n)
      BY <3>2 DEF WireInv, NumberInv, From
    <3>4. m.id \notin {p} \X (1 .. n)
      BY <1>3, <3>1, <3>2
    <3>5. QED
      BY <1>3, <3>3, <3>4
  <2>3. Handshakes = {}
    <3> SUFFICES ASSUME NEW h \in Handshakes PROVE FALSE
      OBVIOUS
    <3>1. h \in Handshakes' /\ m \in Handshakes'
      BY <1>1, <1>3 DEF Handshakes
    <3>2. h = m
      BY <1>5, <3>1 DEF Calm
    <3>3. QED
      BY <2>2, <3>2 DEF Handshakes
  <2>4. sent = {} /\ \A q \in Peers : session[q] = NoSession
    BY <2>1, <2>3 DEF OneTalk
  <2>5. Handshakes' = {m}
    BY <1>1, <1>3, <2>4 DEF Handshakes
  <2>6. \A w \in sent' : Talk(w)'
    BY <2>1, <2>4, TalkBegins
  <2>7. \A q \in Peers : Grows(q)
    BY <1>2, FreshGrows DEF WireInv
  <2>8. \A q \in Peers : busy'[q] \subseteq busy[q]
    BY <1>2 DEF WireInv, KeysInv, OfPeers
  <2>9. disk' = session' /\ failed' = {}
    BY <1>1, <1>2, <2>1 DEF OneTalk
  <2>10. \A q \in Peers : saved[q] \subseteq pool'[q]
    BY <1>2, <2>1, <2>3 DEF OneTalk
  <2>11. Handshakes' # {} /\ \A h \in Handshakes' : Talk(h)'
    BY <1>1, <2>5, <2>6
  <2>12. QED
    BY <1>2, <2>1, <2>7, <2>8, <2>9, <2>10, <2>11, TalkTogether
<1>6. QED
  BY <1>1, <1>2, <1>3, <1>4, <1>5 DEF TalkInv, OfPeers

\* One step of a receiver: m is opened by the end that p has, or begins with.
LEMMA ReceivesTalk ==
  ASSUME WireInv, TalkInv, OneTalk, NEW m \in sent, Deliver(m), got[m.id] = 0,
         NEW h \in Handshakes, \A i \in Handshakes : i = h,
         NEW p \in Peers, p = Other(m.from), session[Other(p)] # NoSession,
         h.from = p \/ got'[h.id] > 0,
         NEW r, r = Opened(End(p, h), m, Pair(p, 1)), ~r.over, Note(p, m, r),
         r.ok => Persist(p, r.s),
         UNCHANGED <<spk, saved, public, busy, sent>>,
         (\A i \in Handshakes : got'[i.id] = 0) => \A q \in Peers : saved[q] \subseteq pool'[q]
  PROVE  OneTalk'
<1>1. \A q \in Peers : Grows(q)
  <2>1. fresh' = [fresh EXCEPT ![p] = @ + 1] \/ fresh' = fresh
    BY DEF Note
  <2>2. CASE fresh' = fresh
    BY <2>2, StillGrows DEF WireInv
  <2>3. CASE fresh' = [fresh EXCEPT ![p] = @ + 1]
    BY <2>3, FreshGrows DEF WireInv
  <2>4. QED
    BY <2>1, <2>2, <2>3
<1>2. m \in Coming(p)
  BY OnWire, OtherIs DEF Coming
<1>3. Talk(h)
  BY DEF OneTalk
<1>4. Delivers /\ got'[m.id] > 0
  BY DeliverIs
<1>5. r.ok => session' = [session EXCEPT ![p] = r.s] /\ disk' = [disk EXCEPT ![p] = r.s]
  BY DEF Persist
<1>6. r.ok /\ Talk(h)'
  BY <1>1, <1>2, <1>3, <1>4, <1>5, TalkReceives
<1>7. disk' = session' /\ failed' = {}
  BY <1>5, <1>6 DEF OneTalk, Note
<1>8. Handshakes' = Handshakes
  BY DEF Handshakes
<1>9. Handshakes' # {} /\ \A i \in Handshakes' : Talk(i)'
  <2>1. Handshakes' = {h}
    BY <1>8
  <2>2. QED
    BY <1>6, <2>1
<1>10. QED
  BY <1>1, <1>7, <1>8, <1>9, TalkTogether

LEMMA ReceiveContTalks ==
  ASSUME WireInv, TalkInv, NEW m \in sent, ReceiveCont(Other(m.from), m)
  PROVE  TalkInv'
<1>1. PICK p \in Peers, q \in Peers :
        p = Other(m.from) /\ q = m.from /\ q = Other(p) /\ q # p /\ \A x \in Peers : x = p \/ x = q
  BY OnWire, OtherIs
<1>2. PICK r : r = Opened(session[p], m, Pair(p, 1))
  OBVIOUS
<1>3. /\ session[p] # NoSession /\ Deliver(m) /\ Note(p, m, r)
      /\ r.ok => Persist(p, r.s)
      /\ UNCHANGED <<spk, pool, saved, public, busy, sent, count>> /\ (over => over')
  <2>1. ReceiveCont(p, m)
    BY <1>1
  <2>2. QED
    BY <1>2, <2>1 DEF ReceiveCont, Note, prekeyVars
<1>4. /\ got' \in [Ids -> Nat] /\ \A id \in Ids : got[id] <= got'[id]
      /\ Delivers
      /\ (\A id \in Ids : got'[id] <= 1) => got[m.id] = 0
  BY <1>3, DeliverIs
<1>5. ASSUME Calm' PROVE OneTalk'
  <2>1. Calm /\ OneTalk
    BY <1>3, <1>4, <1>5, CalmBefore
  <2>2. ~r.over /\ got[m.id] = 0
    <3>1. ~over' /\ \A id \in Ids : got'[id] <= 1
      BY <1>5 DEF Calm
    <3>2. over' = (over \/ r.over)
      BY <1>3 DEF Note
    <3>3. ~r.over
      BY <3>1, <3>2, Zenon
    <3>4. QED
      BY <1>4, <3>1, <3>3
  <2>3. Handshakes # {}
    BY <1>3, <2>1 DEF OneTalk
  <2>4. PICK h \in Handshakes : TRUE
    BY <2>3
  <2>5. \A i \in Handshakes : i = h
    BY <2>1 DEF Calm
  <2>6. Talk(h) /\ h \in sent /\ h.from \in Peers
    BY <2>1, OnWire DEF OneTalk, Handshakes
  <2>7. session[q] # NoSession
    <3> SUFFICES ASSUME session[q] = NoSession PROVE FALSE
      OBVIOUS
    <3>1. h.from = p
      BY <1>1, <2>6 DEF Talk
    <3>2. \A w \in sent : w.from = p
      BY <1>1, <2>6, <3>1 DEF Talk
    <3>3. QED
      BY <1>1, <3>2
  <2>8. h.from = p \/ got'[h.id] > 0
    <3> SUFFICES ASSUME h.from # p PROVE got'[h.id] > 0
      OBVIOUS
    <3>1. p = Other(h.from)
      BY <1>1, <2>6
    <3>2. got[h.id] > 0
      BY <1>3, <2>6, <3>1 DEF Talk
    <3>3. QED
      BY <1>4, <2>6, <3>2 DEF Delivers
  <2>9. r = Opened(End(p, h), m, Pair(p, 1))
    BY <1>2, <1>3 DEF End
  <2>10. (\A i \in Handshakes : got'[i.id] = 0) => \A x \in Peers : saved[x] \subseteq pool'[x]
    <3>0. SUFFICES ASSUME \A i \in Handshakes : got'[i.id] = 0
                   PROVE  \A x \in Peers : saved[x] \subseteq pool[x]
      BY <1>3
    <3>1. \A i \in Handshakes : got[i.id] = 0
      <4>1. \A w \in sent : got[w.id] # 0 => got'[w.id] # 0
        BY <1>4 DEF Delivers
      <4>2. \A i \in Handshakes : i \in sent /\ got'[i.id] = 0
        BY <3>0 DEF Handshakes
      <4>3. QED
        BY <4>1, <4>2
    <3>2. QED
      BY <2>1, <3>1 DEF OneTalk
  <2>11. session[Other(p)] # NoSession
    BY <1>1, <2>7
  <2>12. QED
    BY <1>1, <1>3, <2>1, <2>2, <2>5, <2>8, <2>9, <2>10, <2>11, ReceivesTalk
<1>6. QED
  BY <1>3, <1>4, <1>5 DEF TalkInv, OfPeers

LEMMA ReceiveInitTalks ==
  ASSUME WireInv, TalkInv, NEW m \in sent, ReceiveInit(Other(m.from), m)
  PROVE  TalkInv'
<1>1. PICK p \in Peers, q \in Peers :
        p = Other(m.from) /\ q = m.from /\ q = Other(p) /\ q # p
  BY OnWire, OtherIs
<1>2. PICK otpk, secret, r :
        /\ otpk = IF m.otpk \in pool[p] THEN m.otpk ELSE NoKey
        /\ secret = [from |-> m.from, eph |-> m.eph, spk |-> spk[p], otpk |-> otpk]
        /\ r = Opened(InitResponder(secret, spk[p]), m, Pair(p, 1))
  OBVIOUS
<1>3. /\ m.init /\ Deliver(m) /\ Note(p, m, r)
      /\ r.ok => Persist(p, r.s)
      /\ UNCHANGED <<spk, saved, public, busy, sent, count>> /\ (over => over')
  <2>1. ReceiveInit(p, m)
    BY <1>1
  <2>2. QED
    BY <1>2, <2>1 DEF ReceiveInit, Note
<1>4. /\ got' \in [Ids -> Nat] /\ \A id \in Ids : got[id] <= got'[id]
      /\ got'[m.id] > 0 /\ got'[m.id] # 0
      /\ (\A id \in Ids : got'[id] <= 1) => got[m.id] = 0
  BY <1>3, DeliverIs
<1>5. ASSUME Calm' PROVE OneTalk'
  <2>1. Calm /\ OneTalk
    BY <1>3, <1>4, <1>5, CalmBefore
  <2>2. ~r.over /\ got[m.id] = 0
    <3>1. ~over' /\ \A id \in Ids : got'[id] <= 1
      BY <1>5 DEF Calm
    <3>2. over' = (over \/ r.over)
      BY <1>3 DEF Note
    <3>3. ~r.over
      BY <3>1, <3>2, Zenon
    <3>4. QED
      BY <1>4, <3>1, <3>3
  <2>3. m \in Handshakes
    BY <1>3 DEF Handshakes
  <2>4. \A i \in Handshakes : i = m
    BY <2>1, <2>3 DEF Calm
  <2>5. Talk(m)
    BY <2>1, <2>3 DEF OneTalk
  <2>6. session[p] = NoSession /\ session[Other(p)] # NoSession
    BY <1>1, <2>2, <2>5 DEF Talk
  <2>7. \A x \in Peers : saved[x] \subseteq pool[x]
    <3>1. \A i \in Handshakes : got[i.id] = 0
      BY <2>2, <2>4
    <3>2. QED
      BY <2>1, <3>1 DEF OneTalk
  <2>8. otpk = m.otpk
    BY <1>1, <1>2, <2>5, <2>7 DEF Talk
  <2>9. secret = m.key[1][1]
    BY <1>1, <1>2, <2>5, <2>8 DEF Talk
  <2>10. r = Opened(End(p, m), m, Pair(p, 1))
    BY <1>2, <2>6, <2>9 DEF End
  <2>11. got'[m.id] # 0
    BY <1>4
  <2>12. (\A i \in Handshakes : got'[i.id] = 0) => \A x \in Peers : saved[x] \subseteq pool'[x]
    BY <2>3, <2>11
  <2>13. QED
    BY <1>1, <1>3, <1>4, <2>1, <2>2, <2>3, <2>4, <2>6, <2>10, <2>12, ReceivesTalk
<1>6. QED
  BY <1>3, <1>4, <1>5 DEF TalkInv, OfPeers

LEMMA TalkInit == DSInit => TalkInv
<1> SUFFICES ASSUME DSInit PROVE TalkInv
  OBVIOUS
<1>1. /\ got = [id \in Ids |-> 0] /\ sent = {} /\ failed = {} /\ disk = session
      /\ saved = [p \in Peers |-> {<<p, 1 + i>> : i \in 1 .. PoolTarget}]
      /\ pool = saved /\ public = saved
      /\ fresh = [p \in Peers |-> 1 + PoolTarget] /\ spk = [p \in Peers |-> <<p, 1>>]
      /\ \A p \in Peers : busy[p] = {} /\ session[p] = NoSession
  BY DEF DSInit
<1>2. OfPeers(saved) /\ OfPeers(public)
  BY <1>1 DEF OfPeers
<1>3. \A p \in Peers : spk[p] \in {p} \X (1 .. fresh[p])
  BY <1>1, PoolAssumption
<1>4. Handshakes = {}
  BY <1>1 DEF Handshakes
<1>5. OneTalk
  BY <1>1, <1>3, <1>4 DEF OneTalk
<1>6. QED
  BY <1>1, <1>2, <1>5 DEF TalkInv

LEMMA TalkKeeps == DSSpec => [](SessionInv /\ TalkInv)
<1>1. DSInit => TalkInv
  BY TalkInit
<1>2. SessionInv /\ TalkInv /\ [DSNext]_dsVars => TalkInv'
  <2> SUFFICES ASSUME WireInv, TalkInv, [DSNext]_dsVars PROVE TalkInv'
    BY DEF SessionInv
  <2>1. ASSUME NEW p \in Peers, TakeBundle(p) PROVE TalkInv'
    BY <2>1, TakeBundleTalks
  <2>2. ASSUME NEW p \in Peers, NEW bundle \in busy[p], SendInit(p, bundle) PROVE TalkInv'
    BY <2>2, SendInitTalks
  <2>3. ASSUME NEW p \in Peers, SendCont(p) PROVE TalkInv'
    BY <2>3, SendContTalks
  <2>4. ASSUME NEW p \in Peers, LoginAgain(p) \/ LoginRotates(p) \/ LoginTorn(p) PROVE TalkInv'
    BY <2>4, LoginTalks
  <2>5. ASSUME NEW m \in sent, ReceiveUnknown(Other(m.from), m) PROVE TalkInv'
    BY <2>5, UnknownTalks
  <2>6. ASSUME NEW m \in sent, ReceiveCont(Other(m.from), m) PROVE TalkInv'
    BY <2>6, ReceiveContTalks
  <2>7. ASSUME NEW m \in sent, ReceiveInit(Other(m.from), m) PROVE TalkInv'
    BY <2>7, ReceiveInitTalks
  <2>8. ASSUME UNCHANGED dsVars PROVE TalkInv'
    BY <2>8, UnknownTalks
  <2>9. QED
    BY <2>1, <2>2, <2>3, <2>4, <2>5, <2>6, <2>7, <2>8 DEF DSNext
<1>3. QED
  BY <1>1, <1>2, SessionsKeep, PTL DEF DSSpec

\* With one handshake, every message that finds a session opens: in whatever order the
\* messages come, however many are lost, however often the two ends turn the ratchet and
\* log in, as long as no message comes twice, the store of skipped keys is never full,
\* and neither a signed prekey nor a stored session is lost. decrypt keeps the rest of
\* the chain that it leaves (_skip_recv before _dh_ratchet_step), and every login finds
\* the one-time prekeys that were published (bootstrap_or_replenish_prekeys).
THEOREM OneSessionReads == DSSpec => []OneSessionReadable
<1>1. TalkInv /\ SessionInv => OneSessionReadable
  <2> SUFFICES ASSUME TalkInv, SessionInv, Cardinality(Handshakes) = 1,
                      \A id \in Ids : got[id] <= 1,
                      count["rotate"] = 0, count["torn"] = 0, ~over
               PROVE  failed = {}
    BY DEF OneSessionReadable
  <2>1. IsFiniteSet(Handshakes)
    <3>1. IsFiniteSet(sent) /\ Handshakes \subseteq sent
      BY DEF SessionInv, WireInv, NumberInv, Handshakes
    <3>2. QED
      BY <3>1, FS_Subset
  <2>2. \E h : Handshakes = {h}
    BY <2>1, FS_Singleton
  <2>3. Calm
    BY <2>2 DEF Calm
  <2>4. QED
    BY <2>3 DEF TalkInv, OneTalk
<1>2. QED
  BY <1>1, TalkKeeps, PTL

================================================================================
