# dns-messenger in TLA+

Specifications of [dns-messenger](../src): what they model, what TLC checks on
small instances, and what TLAPS proves for every value of the constants. Line
numbers are those of `src/`.

## 1. The system

A messenger that tunnels everything through DNS queries.

| Part | Source | State it keeps | Operations |
|---|---|---|---|
| Relay | `server.py`, `RelayServer` | all in memory: `users`, `mailbox`, `msg_chunks`/`msg_meta`, `delivered_mids`, `groups`, `group_mail`, `files`, `file_inbox`, `seen_poll_nonces`, pending disk keys and invitations, rate counters | one handler per one-letter command: register/getkey `r k`, send/poll `s p`, groups `g i w q l v o z`, disk keys, files `h f t x` |
| Web client | `web_client.py` | per user a `UserMessenger`: identity, `group_keys`, `_group_key_applied`, `_group_last_members`, `ratchets`, `prekeys`; files: accounts, sessions, prekeys, ratchet state | Flask requests, Socket.IO events, one poll loop per user |
| Double Ratchet | `ratchet.py` | root, chains, counters, skipped keys | `encrypt`, `decrypt` |
| Transports | `transport.py`, `disk_bridge.py` | none / files seen | UDP, DoH, files on Yandex.Disk, one after the other |
| Presence, streams, calls | `web_client.py` | `online_sockets`, `msg_buffer`, `live_streams` | Socket.IO events |
| Accounts | `web_client.py` | accounts, session versions, backup and recovery codes | login, logout, recovery, admin |
| Browser | `static/` | page state | user interface, WebRTC, push |

How they interact, and what makes it hard:

* The relay is **one thread**: `run()` receives a packet, `handle_query` first
  sweeps (`_evict`, at most once per `EVICT_INTERVAL`), then calls one handler,
  then sends the answer. A query is atomic; the trouble lies between queries.
* The network is UDP: requests and answers are lost, late, duplicated and out of
  order. Writes are retried on a new socket (`_q_reliable`); polls never are,
  because the relay takes the message out before it answers.
* The relay keeps nothing on disk: a **restart** forgets mailboxes, unfinished
  assemblies, nonces, pinned names, groups and files.
* A web client has **two threads on the same fields**: the poll loop and Flask's
  request threads. What a thread read in one query may be old when it uses it.
* The client keeps prekeys and ratchet sessions on disk; it may end between any
  two writes, or inside one. The same holds of accounts and identities: a file is
  truncated and then written, and a reset writes three of them.
* Socket.IO events have threads of their own and let go of their locks before they
  emit.
* One query may travel twice: over the network and, after its timeout, as a file
  that a bridge forwards.

What makes each part correct:

* mailboxes: a message is whole, from one sender, and handed out at most once;
  acknowledgements are true; the oldest goes first;
* sending: a send returns; "ok" means something; order is kept;
* polls: a signed poll is used once, and for a short time, over whatever transports;
  an answer reaches the query it belongs to;
* names: a pinned name, and a key that a client trusts, stay what they are;
* groups: members agree on the key, those who left do not have it, and every member
  gets each message;
* files: as for messages, and a file that waits for its addressee stays;
* sessions: no key is used twice, keys go away after use, messages open;
* presence and streams: counts are of sockets, nothing waits for somebody who is
  there, nobody watches a stream that is over;
* accounts: the owner gets in, and keeps the identity.

## 2. Modules

| Module | Models | State ↔ code |
|---|---|---|
| `AtMostOnceMailbox` | the promise of a mailbox, abstractly | – |
| `RelayMailbox` | `_h_send`, `_assemble`, `_remember_delivered`, `_h_poll`, `_evict` for messages | `asm` = `msg_chunks` + `msg_meta`, `delivered` = `delivered_mids`, `mailbox`, `lastEvict` |
| `DirectMessages` (EXTENDS `RelayMailbox`) | `_send_chunked` over `_q_reliable`, the network, the relay | `client` = chunk and try a thread waits for, `net`, `answer` = what its socket has received, `outcome` = result of `send_dm` |
| `PollAuth` | `_authorize_poll`, `_accept_poll_nonce` for one name, pinned or not | `seen` = `seen_poll_nonces`, `pinned` |
| `Transports` | one signed poll over `MultiTransport`: `UDPTransport`, then `YandexDiskTransport` and the loop of `disk_bridge.py` | `call` = where each thread is in `query`, `folder`/`answers` = files on the disk, `seenFiles` = `seen_per_client`, `todo`/`hand` = the bridge's listing and the file it is at |
| `Registry` | `_h_register`, `_h_getkey`, `get_peer_key`, `_remember_peer`, `register_disk_pubkey`, `_h_diskreg`, `_h_disklist`, `fetch_registry` | `names` = `users` by age, `halves` = `_diskreg_pending`, `peers`, `pins`, `pinFile` = `peer_keys`, `_pins` and what `pins.json` reads as, `folders` = the bridge's registry |
| `GroupKeys` | membership and keys of one group, at the relay and in the two threads of each client | `members`, `block` = `grp['members']`, `grp['keys']`; `key`, `applied`, `last` = `group_keys`, `_group_key_applied`, `_group_last_members`; `thread` = where each thread is: between the check of a sealed key and its assignment too |
| `GroupMail` (EXTENDS `GroupKeys`) | `send_group`, `_h_gsend`, `_h_gpoll`, `poll_group` | `mail` = `group_mail[gid]` with the `_read` sets, `held` = the message a poll loop was handed |
| `Invitations` | `invite_to_group` chunk by chunk, `_h_ginvite_chunked`, `_apply_ginvite` | `pending` = `_ginvite_pending` by age, `call`, `net`, `answer` as in `DirectMessages` |
| `FileRelay` | `send_file`, `_h_fheader`, `_h_fchunk`, `poll_files`, `_h_fpoll`, `download_file`, `_h_fdownload`, `_evict` for files | `files`, `inbox` = `file_inbox`, and the clients' threads |
| `DoubleRatchet` | `RatchetSession`, as operators on a record | fields as in the class |
| `DMSessions` (EXTENDS `DoubleRatchet`) | prekeys, handshakes, `send_dm`, `_decrypt_from`, persistence, logins | `pool`/`saved`/`public` = one-time prekeys in memory / on disk / published; `session`/`disk` = `ratchets` / `ratchet_<peer>.state` |
| `RatchetThreads` | `encrypt` and `_dh_ratchet_step`, assignment by assignment, in several threads | `sendChain`, `dhs`, `sendN` = fields of the session, `sender`/`turn` = where each thread is |
| `WebPresence` | how events reach the browsers of one user: logins and their revocation, poll loops, sockets, buffer | `known`, `running`, `loops` = `users[name]`, its `running` and its loop threads; `online` = `online_sockets`, `buffer` = `msg_buffer`, `version` = `_user_sv`; `thread` = where the request or event of a browser is |
| `LiveStreams` | the roster of one group's stream: `on_stream_start`, `_end`, `_join`, `_leave`, `_cleanup_live_stream_presence` | `stream` = `live_streams[gid]`, `handlers` = the threads under way |
| `Accounts` | `api_login`, `api_recovery_generate`, `api_recovery_reset`, `admin_delete`, `save_account`, `Identity.save` and `load` for one name | `accounts`, `key`, `rec` = the accounts file, `identity.key`, `identity.recovery`; `messenger` = `users[name]`, `lock` = `users_lock`, `serve` = where each request is |

`Lists` holds the one helper of several modules, the list comprehension of Python
with a condition. `MC*` modules add the symmetry sets, and three of them put modules side by side
that have no variable in common, so that one run checks them. A behaviour of
`MCRelayMailbox` is one of `RelayMailbox`, of `PollAuth`, of `Transports` or of
`Registry`, one of `MCKeys` is of `DMSessions` or of `GroupKeys`, one of
`MCWebPresence` is of `WebPresence`, `LiveStreams`, `Accounts` or `FileRelay`; `part`
says of which. No behaviour mixes them. `Registry` has two parts there: the
registrations of folders, and the pins of the client. Both depend on the names and
neither on the other, and what a behaviour with both does to the one, a behaviour of
that part does.

The theorems are in modules of their own: `RelayMailboxProofs`;
`DirectMessagesProofs`, which extends it; `PollAuthProofs` (`PollAuth`,
`Transports`); `PeerKeysProofs` (`Registry`, `DMSessions`); `GroupKeysProofs`
(`GroupKeys`, `GroupMail`); `FileRelayProofs`; `WebServerProofs` (`LiveStreams`,
`WebPresence`, `Accounts`); and `ListProofs` with lemmas about `Lists`. They define the
inductive invariants too: what a run checks is in the module of the component, what only
a proof needs is with the proof. Variables under
"History" record what happened for the properties to speak of; no guard of a code
action reads them, except to bound the model.

Every module that a passing run checks has **mutants** (`Name_What` next to
`Name`): a definition as a plausible bug would have it. For each property of each
passing run there is one that TLC finds violating it; `PROJECT.json` lists them.

Choices that hold for all of them:

* A query and its handler are one step, as in `RelayServer.run`; each handler
  works on the swept state, as `handle_query` calls `_evict` first. Handlers that
  a module does not model sweep all the same: `OtherQuery`.
* The clock is a small number that ticks; only the order of the limits matters
  (`TTLAssumption` of `PollAuth`: 300 > 2·120). Where only the order of events
  counts (`Invitations`, `Registry`), a sweep takes any of the oldest.
* Data are terms: a chunk is (message, number), a message is the function of its
  chunks, a file is its number of chunks, a sealed key is (key, sealer, number),
  a root key is what was mixed into it, a query is its number.
* Cryptography is ideal. Base32, labels and the length of a query are left out.

## 3. Runs

Every bound is a CONSTANT named in the module, but for those of `MailBounds`
(`GroupMail`), of `Small` and `FewKeys` (`MCKeys`) and of `FewLate` (`MCWebPresence`).

| Run | Instance | Shows |
|---|---|---|
| `relay_mailbox` | mailboxes: 2 users, 2 ids, messages of 1–3 chunks with `MaxChunks = 2`, 2 sends, time to 4, 1 restart, every cap 1. Polls: 2 scopes, 2 nonces, window 1, TTL 3, clocks apart by 2, purge above 1 record, time to 4, 1 restart. Transports: 2 threads, 2 polls, 2 messages, 1 packet that comes twice, 1 restart of the bridge. Names: 2 names and room for 1, 2 persons, 3 registrations, 2 attempts to register a folder, 2 restarts of the relay, sweeps or aged packets; the client may end at any time and fail to write its pins, or tear the file | any order and repetition of chunks, sweep, trim and restart: `AtMostOnce`, `Intact`, `AckIsHonest`, `NoGhostAssembly`, `ServedFresh`, and **refinement** of `AtMostOnceMailbox` (`ImplementsPromise`); `SignedPollOnce`, `ReplayWindow`, `NoFalseReplay`; `TakenOnce`, `AnswerIsItsOwn`, `ForwardedOnce`; `KeyStays`, `FolderIsCurrent` |
| `polls_late` | as `relay_mailbox` | **violation** of `OldPollsRefused`, see §6 |
| `dm` | 1 sender, 2 messages, 1 retry, assemblies that expire, fairness | "ok" is true unless the relay dropped the assembly; order of messages; sends return, mailboxes drain |
| `dm_ok` | 1 sender, 1 restart | **violation** of `OkIsQueued`, see §6 |
| `groups_live` | 2 founders and a third user. Nobody writes: an invitation, a leave, 1 lost answer. Or up to 3 messages, one sent at a time, with one request: an invitation before the second, or a leave at any time, and the third message when the list of 2 is full and the members have settled after the leave (`FewPosts`). Fairness | re-keying comes to rest (`Settles`); no message stays that all have read, as long as nobody leaves and the list is not full (`KeptForSomebody`); what was sealed when one key was left (`OneKeyLeft`) opens until the next era (`CurrentMailOpens`); every member with a key takes every message (`EveryMemberReads`) |
| `groups_kick`, `groups_back` | a kick; two leaves | **violations** of `CalmChangesAgree`, `DepartedStayOut`, see §6 |
| `invites` | 1 founder, 1 guest, 2 chunks, 1 retry | **violation** of `ChangesOnce`, see §6 |
| `keys` | sessions: 2 users, 4 messages, 1 delivered twice, 1 login of any kind, room for 2 skipped keys, 1 one-time prekey; the fourth message only without the login or without the repetition (`Small`). Groups: 3 members, 3 new keys, a third only without a kick. Two of: a leave, another one, a kick, `/api/groups`, but not the last two together (`FewKeys`). Or one request, which may be to invite, and 1 lost answer | `KeysUnique`, `KeysErased`, `ReadOnce`, `OneSessionReadable`; agreement after leaves that wait for each other (`CalmLeavesAgree`), departed members locked out (`DepartedLockedOut`), `OneKeyPerLeave` |
| `sessions_lost` | the sessions of `keys` | **violation** of `NewMessageRestarts`, see §6 |
| `sessions_threads` | 2 threads, 3 messages, 1 turn of the ratchet | **violation** of `MessageKeysUnique`, see §6 |
| `web` | presence: 2 browsers, 2 events, buffer of 2, 2 sockets opened, 2 loops, 1 logout or block, 1 block or restart. Streams: 2 users, 2 streams, 2 joins, 2 ends or leaves, 2 closed pages. Accounts: 2 threads, 5 requests, 2 passwords, 3 codes, 1 crash. Files: 2 files of 2 chunks or one too many, room for one file, 1 retry, a late header or a restart (`FewLate`), time to 2 | `CountsSockets`, `BufferHandedOver`, `LoggedInIsPolled`; `ViewersHearOfEnd`, `NoGhostsLive`; `OwnerCanGetIn`, `IdentityKept`; `OkUnlessReopened`, `AnnouncedOnce`, `FetchedWhole`, `KeptForAddressee` |

Why the bounds are enough to be interesting: each cap of the code is set so that the
instance reaches it (a full store with one more message, a trim of `delivered_mids`, a
purge of nonces, a third skipped key, a full file store, a full table of names), each
TTL so that it expires within the clock, and messages have at least two chunks so that
something can happen between them. Two messages with the same id from two senders are
included (`relay_mailbox`). Four messages suffice for both ends to turn the ratchet and
for keys to be skipped, kept and used. Two group messages suffice for one to stand
behind another that its last reader will never take, and a third fills the list and
drops the first. A crash may come between any two of the steps of a reset. What the
bounds do not reach: more than one restart of a relay with mail, three senders, groups
of four (what is proved holds of them all the same), an overrun of the buffer of
`WebPresence` (what does not fit is dropped silently, and no property is about it).

`CHECK_DEADLOCK FALSE` is set where a part of the system may stop: all messages and
logins of `DMSessions` used up, all polls of `Transports` answered, all uploads over
and the clock at its end, all sockets and pages opened and closed. `dm`
and `groups_live` check for deadlock (a poll is always possible).

Symmetry is used for model values that no definition tells apart, and in no run with a
liveness property. Sets of different parts may have the same model values there (`Users`
and `Names`; `Tabs`, `Viewers` and `Fids`): one permutation then serves all of them, and
as a behaviour is of one part, it permutes what that part has. In `GroupKeys` names are
numbers, because the code compares them (`min(members)`), and there is no symmetry.

### Fairness

* `DirectMessages`: a waiting thread goes on, because every socket has a timeout
  (`UDPTransport.query`); the poll loop of a user keeps polling, whether it finds
  something or not (`start_poll_loop`). Nothing is assumed of what the network does to
  sends, and the relay answers as it likes: even if every request is lost, `SendsReturn`
  holds. Of polls it is assumed that they reach the relay again and again: `Poll` is one
  step, the query and its handler, and `MailboxesDrain` rests on its fairness.
* `GroupMail`: request threads and poll loops go on (weak fairness of what comes next).
  Polling the mail has strong fairness: `start_poll_loop` polls it in **every** cycle
  before it may look at the keys, and the module lets it look at the keys at any time, so that
  without it a loop could look at nothing else. Users owe no request.

## 4. What is proved

For all values of the constants, by TLAPS. The assumptions are the `ASSUME`s of the
modules: signs and ranges of the constants, 300 > 2·120 for the nonces
(`TTLAssumption`), two users in `DMSessions` (`PeersAssumption`).

| Module | Theorem | States | Inductive invariant |
|---|---|---|---|
| `RelayMailboxProofs` | `TypeCorrect` | `TypeOK` | itself |
| | `DeliveredAtMostOnce` | `AtMostOnce` | with `Remembered` |
| | `MessagesIntact` | `Intact` | with `AssemblyOfOne` |
| | `AcknowledgementsHonest` | `AckIsHonest` | `AckInv` |
| | `KeepsPromise` | `ImplementsPromise`, the refinement | `TypeOK` |
| | `NoGhosts` | `NoGhostAssembly` | itself |
| | `ServesFresh` | `ServedFresh`, of steps | `FreshInv` |
| `DirectMessagesProofs` | `ClientsAreSenders` | `DMSpec => Spec` of `RelayMailbox` | `NetInv` |
| | `OkIsTrue` | `OkUnlessDropped` | `OkInv` |
| | `SentInOrder` | `InSendingOrder` | `OrderInv` |
| `PollAuthProofs` | `TypeCorrect`, `TransportTypes` | `PATypeOK`, `TRTypeOK` | themselves |
| | `AcceptedOnce` | `SignedPollOnce` | with `OnRecord` |
| | `ReplaysWithinWindow` | `ReplayWindow` | `NearSigned` |
| | `ReplaysAreReal` | `NoFalseReplay` | with `EveryRecordGranted` |
| | `AnswersAreOwn` | `AnswerIsItsOwn` | `OwnInv` |
| | `PollTakesOnce` | `TakenOnce` | with `OwnInv`, `SparedInv` |
| | `BridgeForwardsOnce` | `ForwardedOnce` | `SeenInv` |
| `PeerKeysProofs` | `RegistryTypes` | `RGTypeOK` | itself |
| | `KeysStay` | `KeyStays` | `PinInv` |
| | `FoldersAreCurrent` | `FolderIsCurrent` | `FolderInv` |
| | `NoKeyTwice` | `KeysUnique` | `KeysInv` |
| | `ReadKeysErased` | `KeysErased` | `SessionInv` (`EraseInv`) |
| | `NothingReadTwice` | `ReadOnce` | `SessionInv` (`SpentInv`) |
| | `OneSessionReads` | `OneSessionReadable` | `TalkInv` |
| `GroupKeysProofs` | `GroupTypes`, `GroupMailTypes` | `GKTypeOK`, `GMTypeOK` | themselves |
| | `OneKeyEach` | `OneKeyPerLeave` | `LeaveInv` |
| | `LockedOut` | `DepartedLockedOut` | `LockInv` |
| | `MembersAgree` | `CalmLeavesAgree` | `AgreeInv` |
| | `KeptMeansWanted` | `KeptForSomebody` | `KeptInv` |
| | `WhatIsCurrentOpens` | `CurrentMailOpens` | `EraInv` |
| `FileRelayProofs` | `FileTypes` | `FRTypeOK`, `WireInv` | themselves |
| | `OkMeansComplete` | `OkUnlessReopened` | `FileInv`, `UploadInv` |
| | `AnnouncedAtMostOnce` | `AnnouncedOnce` | `AnnounceInv` |
| | `WholeOrNothing` | `FetchedWhole` | `FetchInv` |
| | `WaitsForAddressee` | `KeptForAddressee`, of steps | `FileInv` |
| `WebServerProofs` | `StreamTypes`, `PresenceTypes`, `AccountTypes` | `LSTypeOK`, `WPTypeOK`, the types of `Accounts` | themselves |
| | `EndIsHeard` | `ViewersHearOfEnd` | `TellInv` |
| | `RosterIsPresent` | `NoGhostsLive` | `GhostInv` |
| | `CountIsRight` | `CountsSockets` | `SocketInv` |
| | `HandedOver` | `BufferHandedOver` | `HeldOnce` |
| | `PolledFor` | `LoggedInIsPolled` | `PolledInv` |
| | `SameIdentity` | `IdentityKept` | `CalmInv`, `FirstInv` |
| | `OwnerGetsIn` | `OwnerCanGetIn` | `CalmInv`, `WayInv` |

TLC checked each inductive invariant on the instance of its run before it was proved,
`LockInv` and `AgreeInv` also with five users by simulation.

How the arguments go:

* **Mailboxes.** `AtMostOnce` is not inductive: a message in a mailbox may be queued
  again if the relay does not know it. By `Remembered`, whatever is in a mailbox
  or was handed out has a record in `delivered_mids`, or is `forgot`; then a chunk of it
  is acknowledged and not stored. The sweep, the cap and a poll leave a suffix of a
  mailbox (`NewestIsRest`, `SweptIsRest`). By `AssemblyOfOne` an unfinished assembly
  holds chunks of the message that opened it only, as `Conflict` keeps all others out.
  `KeepsPromise` maps each step to one of `AtMostOnceMailbox` or a stutter. For
  `ServedFresh` a mailbox is in the order of its `ts`, and nothing in it was due at
  the last sweep.
* **Sending.** The clients with their network are one environment among those that
  `RelayMailbox` allows, so that its theorems hold of the composition. `OkInv` follows
  a thread through its chunks: what the relay has confirmed it holds, has assembled or
  dropped.
* **Polls.** An accepted poll is out of its window or on record until it is
  (`OnRecord`): it was accepted no earlier than `Window` before its signed time, so that
  its record outlives the window. A poll that is served while the name is not pinned is
  none of these: it is not authorised at all, and §6 has what follows from it. Over two
  transports, `SparedInv`: a poll that took a message is recorded, and whatever says
  `EMPTY`, on its way, in a file or in a hand, is of a recorded poll that took none.
* **Names.** The table is a list by age; a name is in it once, and with the bundle it
  was pinned to (`PinInv`). The file of pins has nothing that the memory of the client
  has not, and every key that was trusted is pinned in memory, or was lost when the
  client ended before it was written (`PinsKept`). A folder in the table came with a nonce that
  is recorded, from who holds the name, and none that was dropped has a fresh one
  (`FolderInv`): all of one run of the relay, as a restart forgets the nonces, and
  `dropped` with them.
* **Session keys.** A state in memory or on disk is past all its owner has sealed
  on the sending chain (`Ahead`), and the two users never send on one chain: its
  length has the parity of who began the handshake (`SendsOn`). So a torn file or a
  login, which go back to an older state, do not go back behind a message sent.
* **Erased keys.** What becomes of a session when a message is decrypted opens only what
  it opened before, and chains further on (`OpensNoMore`, from what storing a skipped
  key, removing one, skipping and turning the ratchet do). So a state in memory or on
  disk that opens nothing its owner has read (`Clear`) stays so. A new session is clear
  because its handshake is: a secret has an ephemeral key of its own (`HandshakeInv`), and
  whoever has read a message of a session has begun it or has read its handshake
  (`Begun`). All this holds until a handshake is read twice (`EraseInv`), which takes a
  handshake without a one-time prekey or a prekey that a login brought back
  (`SpentInv`). `Stored` is a recursive function over the keys that are put; what it
  preserves is proved by a least counterexample (`LeastElement`).
* **One session.** Of the two ends one is always level with the other: it receives on the
  chain that the other sends on, and has the key of every message on its way in its
  store or ahead of it (`Level`). The other is behind by one turn: it has the keys of
  the chains before in its store, or ahead up to the length `pn` that the messages of
  the next chain say, and its turn gives that chain (`Behind`). To send
  keeps both; to read a message of the next chain swaps the two (`Paired`). Before the
  handshake is read its reader is the end that `InitResponder` will make of it (`End`),
  for which its one-time prekey is still there: what is on disk is in the pool, also
  after a login (`OneTalk`). While the store is not full, it loses nothing but
  what is read (`StoreHolds`), by the same least counterexample over the keys that are
  put (`StoredWithin`). All this is claimed under the conditions of the property
  (`Calm`), which once broken stay broken.
* **One key per departure.** Whoever changes the key is the lowest member as long as
  it is one (`LeastRekeys`), and the departures pay for the keys that were made, for
  the elections won and for the next one (`Budget`).
* **Who knows the key.** `LockInv` has a set of keys that nobody outside knows, and
  says that what members seal, what the relay stores for them and what their poll
  loops have fetched is of this set or was applied before (`Sound`). A loop that is about
  to assign a key is one of a member (`OfGroup`). The group is at
  rest, or shrinking (after a departure members alone work, for members; the lowest
  has yet to make the key, or everybody has it or is being sent it), or growing
  (after an invitation). `AgreeInv` sharpens this: without kicks either no key is left
  and the lowest member alone will make one, or one key is left and nobody is
  about to make another.
* **Group messages.** Whoever has read a message has read all before it, and the first is
  dropped when its last reader takes it (`KeptInv`). `EraInv`: within an era whatever
  any client holds, fetches or sends is the one key.
* **Files.** `FileInv` ties what is stored to the file that was sent; an inbox points to
  files that were complete (`AnnounceInv`). A header that is tried again, because its
  answer was lost, finds a file without chunks, as `send_file` sends none before an
  answer: it changes nothing that counts. Only a **late** header, one that is taken after
  a chunk of its file, empties it. Of a file without one the relay has every chunk that
  it confirmed, or nothing any more (`UploadInv`), and each late header is worth one
  more announcement at most.
* **Presence.** `SocketInv` says where each socket is counted: it has joined and the
  count has it, until the thread that serves its end takes it out. The count is too high
  only after a login was revoked while a page was open; `HeldOnce` has each event in one
  place, the hand of a loop, the buffer, the hand of a connect, or a screen; `PolledInv`
  follows the loop of a user that is logged in.
* **Streams.** Whoever watched a stream that is over is on the list of a thread that
  will tell it (`TellInv`); who has no page any more will be removed (`GhostInv`).
* **Accounts.** Unless something clashes, only resets overlap (`Calm`). Whatever a
  request has in hand is the first identity (`FirstInv`), and at each of its steps
  there is a way in, or will be at its end (`WayInv`); alone, it leaves one also if it
  is broken off.

Only model-checked:

* liveness (`SendsReturn`, `MailboxesDrain`, `Settles`, `EveryMemberReads`): out of the
  prover's reach;
* the properties that are violated (§6), of course.

## 5. What is not modelled

`PROJECT.json` lists every component with its status. In short:

* passkeys, backup codes, the limits on attempts and on answers (`_rrl_allow`), the
  admin password and pages: counters and checks of one request, which drop what the
  models drop anyway, or refuse it;
* anonymous users in `WebPresence`: its user has a registered account, whose
  messenger stays in `users` until the process ends;
* the legacy scheme of `send_dm` (1109-1112, a static shared key, when the peer has
  no bundle), and unsigned polls of unpinned names beyond `PassUnpinned`;
* call signalling and the chat of a stream: what comes in is passed on and changes
  nothing at the server;
* the HTTP exchange of `DoHTransport`; to the caller it is a transport that may fail
  after the relay has served the query, as UDP is;
* the cap of 500 names with unfinished folder keys, and two messages or invitations
  of one sender with the same random id in `FileRelay` and `Invitations`;
* threads inside `decrypt`: `RatchetThreads` splits `encrypt` and the turn of the
  ratchet, and `DMSessions` takes encrypt-and-store and decrypt-and-store as one
  step each, as the docstring of `RatchetSession` demands;
* the browser (`static/`), the terminal client, push, wire encoding, start-up: no
  protocol of their own, or none that TLC could say anything about.

## 6. Where the code and its documents disagree

1. **"ok" without a message** (`dm_ok`, `OkIsQueued`). `_send_chunked`
   (`web_client.py:1476`) takes `OK:chunk` for the last chunk as success. If the
   relay lost the assembly on the way, the last chunk opens a new one that nobody
   completes. `tests/test_reliability.py:6-8`: "each message is delivered exactly
   once". What does hold is `OkUnlessDropped`.
2. **A kick re-keys twice** (`groups_kick`, `CalmChangesAgree`). The kicker re-keys
   at once, and so does the elected member when its loop sees the group shrink;
   members may end with different keys. `docs/ratchet-plan.md:336-344` excludes
   such a race. What does hold is `CalmLeavesAgree`.
3. **A leaver comes back** (`groups_back`, `DepartedStayOut`). `rekey_group`
   (`web_client.py:1301`) invites everybody on a list it read before; who has left
   since is a member again. Its docstring says they get nothing.
4. **A repeated invitation is applied again** (`invites`, `ChangesOnce`). Once its
   chunks are complete the relay forgets the invitation (`server.py:407`). Late
   chunks of it make it whole once more, and a member that has left is back, with the
   key of then. The comment at `web_client.py:1180` says that a repeat is merely
   acknowledged, as for messages, which have `delivered_mids`. A retry of the last
   chunk alone leaves a new, incomplete assembly until the sweep; and, as in 1, "ok"
   for the last chunk does not say that the invitation was applied.
5. **A lost session is not restarted by the peer** (`sessions_lost`,
   `NewMessageRestarts`). The text at `web_client.py:1524` asks for a new message;
   the peer sends it in its old session, and it is answered with the same text.
6. **Two messages under one key** (`sessions_threads`, `MessageKeysUnique`).
   `RatchetSession` is to be used by one thread at a time (`ratchet.py:175`), but
   nothing sees to it: requests to `/api/send` run in threads of their own and beside
   the poll loop. Two of them may read the same chain key; the second of the two
   messages never opens.
7. **An old poll is served after a restart** (`polls_late`, `OldPollsRefused`). A
   restart forgets the pinned names as well as the nonces, and a poll of a name that is
   not pinned is not checked at all (`server.py:265`). So until its owner registers
   again, a poll of any age takes messages, though the docstring (`server.py:260-263`)
   says that its time is looked at whatever the relay remembers. `ReplayWindow` holds of
   the polls that are authorised, and of those only.

What the documents still say and the code has left behind: `docs/ratchet-plan.md:384-390`
describes one UDP socket shared by the poll loop and the requests, whose answers may
reach the wrong thread; `transport.py:49-54` opens one per query (`AnswerIsItsOwn`).
And `docs/ratchet-plan.md:173-174` says that a one-time prekey is never used again; a
login brings back from the disk those that were used since it was written
(`web_client.py:1536`), and a handshake with one of them is read a second time. This is
the exception of `ReadOnce`.

What the code does besides, and no property promises:

* **Presence.** A page that logs out is still connected, and when its socket closes
  the cookie of the handshake is revoked, so `on_disconnect` (`web_client.py:2973`)
  does not count it down. `online_sockets` (1637, "connected socket count") then
  stays above the number of sockets until the next restart, and events are emitted to
  nobody where they should be buffered and pushed: after a revocation `CountsSockets`
  promises only that the count is not too low. After a restart it may be too low: a
  socket that found no messenger when it opened and finds one when it closes takes the
  place of one that is open (`unheard`). Events are not
  promised in order: a live one may overtake the buffered ones of a connect, or those
  in the hand of a second loop. And a block that begins while a login is under way
  leaves the user logged in without a loop (`overlap` in `LoggedInIsPolled`): that case
  of the race on `running` is outside the property.
* **Group messages.** After a departure the first message may have no reader left to
  complete it; it stays, and every later one behind it, as only the first is ever
  removed (`server.py:460-472`) and `_evict` does not look at `group_mail`. The cap is
  all that bounds the list; it drops the oldest, so that a message all have read may
  come to stand first (`KeptForSomebody` excludes departures and a full list for these
  reasons). The answer to a request of `/api/groups` may be older than what the poll
  loop has applied meanwhile, and a client that was not told that it is out keeps its
  key and may invite with it when it is invited again. So `CurrentMailOpens` speaks
  of the time when one key was left, until another is made, somebody goes, or lists
  the groups.
* **Files.** A late duplicate of a header, which the network delivers after a chunk,
  replaces the file by an empty one (`server.py:689`): the upload may end with "ok"
  without the file, or announce it again (`lateHeaders` in `OkUnlessReopened` and
  `AnnouncedOnce`). A header that is only tried again does neither.
* **Streams.** `on_stream_end` checks under the lock, lets go of it, and ends whatever
  stream is there by then, also a next one; its viewers hear of the end all the same
  (`ViewersHearOfEnd`). A join is confirmed after the lock is let go, so that the
  confirmation may come after the word of the end; the order of the two is left out.
* **Accounts.** Two registrations of one name at once, or a crash in a deletion followed
  by a registration with another password, leave an account that opens no identity
  (`clash`); so do other writes of the accounts file at once, which takes no lock, and
  `OwnerCanGetIn` and `IdentityKept` let only resets overlap. A crash after
  `identity.key` is truncated leaves it empty, and the next login makes a new identity
  for the name (`torn`). After two crashes the owner may be locked out: one breaks off a
  reset, whose owner then remembers only the new password, and one empties the accounts
  (`OwnerCanGetIn` allows for one). A code can be used until the next one is written:
  reading it does not spend it.
* **Names and disk.** Every login registers the name anew and drops `disk_pubkey` with
  the old entry (`server.py:199`), though `disk_bridge.py:15-18` counts on it;
  `register_disk_pubkey` has no caller but its test. A pin that was not written, or
  was in the file when a crash tore it, is lost silently with the memory of the client
  (`web_client.py:1007-1011`, 180-190), and if the relay has restarted by then, another
  key may be trusted for the name: of two keys for one name `KeyStays` says that one
  was pinned in memory only (`unkept`). Query files are never deleted, the bridge's
  set of seen files only grows, and a bridge that starts anew forwards what is listed
  again: at most 50 files of each client (`ForwardedOnce` counts from its start).

## 7. Plan

Every safety property of a passing run is the property of a theorem. What is left is
extending the model: instances that the bounds exclude so far (groups of four, a
second restart), anonymous users and passkeys in `WebPresence`, backup codes in
`Accounts`, threads inside `decrypt`.

## 8. Running

    tlc -workers 2 -config MCRelayMailbox.cfg MCRelayMailbox
    tlapm RelayMailboxProofs.tla

`GroupKeysProofs` takes tlapm about five minutes, `PeerKeysProofs` about four, the others
less.
