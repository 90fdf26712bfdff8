-------------------------------- MODULE Registry --------------------------------
(***************************************************************************)
(* The names at the relay and what hangs on them: registration and pinning *)
(* (_h_register), the lookup of a key and the trust on first use of a      *)
(* client (_h_getkey, get_peer_key, _remember_peer), and the registration  *)
(* of the folder on the disk in several chunks (register_disk_pubkey,      *)
(* _h_diskreg) that the bridge reads (_h_disklist, fetch_registry).        *)
(*                                                                         *)
(* The relay serves one packet after the other and keeps all of this in    *)
(* memory. A packet may come late, any number of times, or not at all.     *)
(* Two persons may choose the same name, on two web servers. A bundle is   *)
(* the person and whether it has the Ed25519 half; only its own person     *)
(* signs with it. One client looks keys up; its pins are in its memory and *)
(* in a file, which it may fail to write.                                  *)
(***************************************************************************)
EXTENDS Integers, Sequences, FiniteSets, Functions, Lists

CONSTANTS Names,
          Persons,
          MaxNames,        \* MAX_USERS
          MaxRegistered,   \* bounds of the number of registrations,
          MaxAttempts,     \* ... of registrations of a folder,
          MaxRegistryMishaps  \* ... of restarts, sweeps and aged packets

ASSUME RegistryAssumption ==
  /\ MaxNames \in Nat
  /\ MaxRegistered \in Nat /\ MaxAttempts \in Nat /\ MaxRegistryMishaps \in Nat

VARIABLES names,     \* self.users, in the order of its ts, oldest first
          halves,    \* name -> chunks of a folder's key: self._diskreg_pending
          redeemed,  \* attempts whose nonce is recorded
          attempt,   \* number -> of whom, for which name, and how far the client is
          aged,      \* attempts whose time has left POLL_TS_WINDOW
          folders,   \* the registry of the bridge: clients of disk_bridge.py
          peers,     \* name -> bundle, of one client in memory: peer_keys
          pins,      \* name -> bundle, in its memory: _pins
          pinFile    \* name -> bundle, as _pins_file reads

\* History.
VARIABLES registered, registryMishaps,
          owners,    \* names and bundles pinned since the relay started
          dropped,   \* attempts whose key has been there and was replaced or dropped
          trusted,   \* names and bundles that the client has used
          unkept     \* those pinned in memory and not in the file when it ended

namesVars == <<names, owners, dropped>>
diskVars == <<halves, redeemed, attempt, aged, folders>>
clientVars == <<peers, pins, pinFile, trusted, unkept>>
rgVars == <<namesVars, diskVars, clientVars, registered, registryMishaps>>

NoFolder == 0
Holders == Range(names)
EntryOf(n) == {e \in Holders : e.name = n}
AllBut(n) == Only(names, Holders \ EntryOf(n))

Bundles == [who : Persons, full : BOOLEAN]

RGTypeOK ==
  /\ names \in Seq([name : Names, bundle : Bundles, pinned : BOOLEAN, folder : Nat])
  /\ \A e \in Holders : e.folder \in DOMAIN attempt \cup {NoFolder}
  /\ attempt \in Seq([name : Names, who : Persons, at : {"first", "last"}])
  /\ DOMAIN halves \subseteq Names
  /\ \A n \in DOMAIN halves : halves[n] \subseteq {0, 1} \X DOMAIN attempt
  /\ redeemed \subseteq DOMAIN attempt /\ aged \subseteq DOMAIN attempt
  /\ folders \subseteq Names \X DOMAIN attempt
  /\ DOMAIN peers \subseteq Names /\ \A n \in DOMAIN peers : peers[n] \in Bundles
  /\ DOMAIN pins \subseteq Names /\ \A n \in DOMAIN pins : pins[n] \in Bundles
  /\ DOMAIN pinFile \subseteq Names /\ \A n \in DOMAIN pinFile : pinFile[n] \in Bundles
  /\ registered \in 0 .. MaxRegistered /\ registryMishaps \in 0 .. MaxRegistryMishaps
  /\ owners \subseteq Names \X Bundles
  /\ trusted \subseteq Names \X Bundles /\ unkept \subseteq Names \X Bundles
  /\ dropped \subseteq DOMAIN attempt \cup {NoFolder}

RGInit ==
  /\ names = <<>> /\ halves = <<>> /\ redeemed = {}
  /\ attempt = <<>> /\ aged = {} /\ folders = {}
  /\ peers = <<>> /\ pins = <<>> /\ pinFile = <<>>
  /\ registered = 0 /\ registryMishaps = 0
  /\ owners = {} /\ dropped = {} /\ trusted = {} /\ unkept = {}

Bind(f, x, y) == [z \in DOMAIN f \cup {x} |-> IF z = x THEN y ELSE f[z]]

------------------------------------------------------------------------------
(* _h_register *)

\* The names that a full table may give up.
\* Mutant: pinned ones too.
Removable_All == names
Removable == Only(names, {e \in Holders : ~e.pinned})

\* Room for a new name; {} if there is none: "ERR:full".
WithRoom ==
  IF Len(names) < MaxNames THEN {names}
  ELSE {Only(names, Holders \ {Head(r)}) : r \in {Removable} \ {<<>>}}

\* A bundle with a valid signature takes the name over only if it is the one there.
MayReplace(e, bundle, signed) == e.pinned => signed /\ e.bundle = bundle

\* Only full bundles are signed. A new name is pinned at once, an old one only by
\* the bundle that it has. Every registration, also the one at each login of its
\* owner, makes a new entry: the key of the folder is gone.
RegisterName(n, bundle, signed) ==
  /\ registered < MaxRegistered
  /\ registered' = registered + 1
  /\ signed => bundle.full
  /\ \A e \in EntryOf(n) : MayReplace(e, bundle, signed)
  /\ LET old == EntryOf(n)
         pinned == signed /\ \A e \in old : e.bundle = bundle
     IN  /\ \E rest \in IF old = {} THEN WithRoom ELSE {AllBut(n)} :
              names' = Append(rest, [name |-> n, bundle |-> bundle, pinned |-> pinned,
                                     folder |-> NoFolder])
         /\ owners' = IF pinned THEN owners \cup {<<n, bundle>>} ELSE owners
  /\ dropped' = dropped \cup {e.folder : e \in EntryOf(n)}
  /\ UNCHANGED <<diskVars, clientVars, registryMishaps>>

------------------------------------------------------------------------------
(* get_peer_key and _remember_peer *)

\* The first bundle is pinned, a different one is not used.
Trusted(n, bundle) == IF n \in DOMAIN pins THEN pins[n] ELSE bundle

\* All pins are written again with a new one. An OSError is passed over: the file is
\* what it was, or it was emptied first and reads as none (_save_json, _load_json).
SavePins == pinFile' \in {pins', pinFile, <<>>}

LookUp(n) ==
  /\ n \notin DOMAIN peers
  /\ \E e \in EntryOf(n) :
       /\ peers' = Bind(peers, n, Trusted(n, e.bundle))
       /\ IF n \in DOMAIN pins
          THEN UNCHANGED <<pins, pinFile>>
          ELSE pins' = Bind(pins, n, e.bundle) /\ SavePins
       /\ trusted' = trusted \cup {<<n, Trusted(n, e.bundle)>>}
  /\ UNCHANGED <<unkept, namesVars, diskVars, registered, registryMishaps>>

\* The client ends, also in the middle of a write, and begins with what is in the file.
ClientRestart ==
  /\ peers # <<>>
  /\ peers' = <<>>
  /\ pins' = pinFile
  /\ unkept' = unkept \cup {<<n, pins[n]>> : n \in DOMAIN pins \ DOMAIN pinFile}
  /\ UNCHANGED <<pinFile, trusted, namesVars, diskVars, registered, registryMishaps>>

------------------------------------------------------------------------------
(* register_disk_pubkey: a first chunk, and a last one with the signature *)

StartAttempt(n, p) ==
  /\ Len(attempt) < MaxAttempts
  /\ attempt' = Append(attempt, [name |-> n, who |-> p, at |-> "first"])
  /\ UNCHANGED <<namesVars, halves, redeemed, aged, folders, clientVars, registered,
                 registryMishaps>>

\* What the handler wants first: "ERR:unpinned".
MayRegisterFolder(k) == \E e \in EntryOf(attempt[k].name) : e.pinned

\* The chunk with seq = 0 starts anew. The client sends the last one once it has
\* the answer to this. Left out: "ERR:busy" above 500 names with unfinished keys.
FirstChunk(k, heard) ==
  /\ MayRegisterFolder(k)
  /\ halves' = Bind(halves, attempt[k].name, {<<0, k>>})
  /\ attempt' = IF heard /\ attempt[k].at = "first"
                THEN [attempt EXCEPT ![k].at = "last"] ELSE attempt
  /\ UNCHANGED <<namesVars, redeemed, aged, folders, clientVars, registered, registryMishaps>>

\* Mutant: the nonce is not looked at.
Redeemable_Again(k) == TRUE

Redeemable(k) == k \notin redeemed

\* The signature is over the whole key, made by who holds the name, recent, and
\* its nonce is new.
Accepts(e, k, chunks) ==
  /\ chunks = {<<0, k>>, <<1, k>>}
  /\ e.bundle = [who |-> attempt[k].who, full |-> TRUE]
  /\ k \notin aged
  /\ Redeemable(k)

\* The last chunk replaces the one there, and is kept if something is wrong.
LastChunk(k) ==
  LET n == attempt[k].name
      had == IF n \in DOMAIN halves THEN halves[n] ELSE {}
      chunks == {c \in had : c[1] = 0} \cup {<<1, k>>}
  IN  /\ attempt[k].at = "last"
      /\ MayRegisterFolder(k)
      /\ \E e \in EntryOf(n) :
           IF Accepts(e, k, chunks)
           THEN /\ names' = [i \in DOMAIN names |->
                               IF names[i] = e THEN [e EXCEPT !.folder = k] ELSE names[i]]
                /\ dropped' = dropped \cup ({e.folder} \ {k})
                /\ halves' = [m \in DOMAIN halves \ {n} |-> halves[m]]
                /\ redeemed' = redeemed \cup {k}
           ELSE /\ halves' = Bind(halves, n, chunks)
                /\ UNCHANGED <<names, dropped, redeemed>>
      /\ UNCHANGED <<attempt, aged, folders, owners, clientVars, registered, registryMishaps>>

\* fetch_registry: an empty list leaves the bridge with what it has.
FetchRegistry ==
  LET fresh == {<<e.name, e.folder>> : e \in {x \in Holders : x.folder # NoFolder}}
  IN  /\ fresh # {}
      /\ folders' = fresh
      /\ UNCHANGED <<namesVars, halves, redeemed, attempt, aged, clientVars, registered,
                     registryMishaps>>

------------------------------------------------------------------------------
Mishap ==
  /\ registryMishaps < MaxRegistryMishaps
  /\ registryMishaps' = registryMishaps + 1
  /\ UNCHANGED <<attempt, folders, clientVars, registered>>

\* _evict, step 4.
SweepHalves(n) ==
  /\ n \in DOMAIN halves
  /\ Mishap
  /\ halves' = [m \in DOMAIN halves \ {n} |-> halves[m]]
  /\ UNCHANGED <<namesVars, redeemed, aged>>

Age(k) ==
  /\ k \notin aged
  /\ Mishap
  /\ aged' = aged \cup {k}
  /\ UNCHANGED <<namesVars, halves, redeemed>>

RelayRestart ==
  /\ Mishap
  /\ names' = <<>> /\ halves' = <<>> /\ redeemed' = {}
  /\ owners' = {} /\ dropped' = {}
  /\ UNCHANGED aged

RGNext ==
  \/ \E n \in Names :
       \/ \E p \in Persons :
            \/ \E full, signed \in BOOLEAN : RegisterName(n, [who |-> p, full |-> full], signed)
            \/ StartAttempt(n, p)
       \/ LookUp(n) \/ SweepHalves(n)
  \/ \E k \in DOMAIN attempt :
       (\E heard \in BOOLEAN : FirstChunk(k, heard)) \/ LastChunk(k) \/ Age(k)
  \/ ClientRestart \/ FetchRegistry \/ RelayRestart

RGSpec == RGInit /\ [][RGNext]_rgVars

------------------------------------------------------------------------------
(* Correctness *)

\* As long as the relay runs, a pinned name stays with the bundle it was pinned
\* to, also when the table is full and names are given up for new ones. And of two
\* keys that a client has used for a name, across its own restarts and those of the
\* relay, after which the name may be another person's, one was pinned in memory
\* only when the client ended (_remember_peer goes on if the file is not written).
KeyStays ==
  /\ \A x, y \in owners : x[1] = y[1] => x = y
  /\ \A x, y \in trusted : x[1] = y[1] => x = y \/ {x, y} \cap unkept # {}

\* The folder of a name is one that its holder registered as a whole, and one that
\* was replaced, or dropped by a login, does not come back through repeated
\* chunks, in whatever order those of several attempts arrive. It is about one run
\* of the relay: a restart forgets the nonces, and dropped starts anew with it.
FolderIsCurrent ==
  \A e \in Holders : e.folder # NoFolder =>
    e.folder \notin dropped /\ e.bundle.who = attempt[e.folder].who
==============================================================================
