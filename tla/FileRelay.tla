------------------------------- MODULE FileRelay -------------------------------
(***************************************************************************)
(* Files: a sender uploads a header and then chunk after chunk (send_file  *)
(* of web_client.py), the relay collects them and puts a pointer in the    *)
(* inbox of the addressee (_h_fheader, _h_fchunk of server.py), whose poll *)
(* loop learns of the file (poll_files, _h_fpoll), and whose user fetches  *)
(* it piece by piece (download_file, _h_fdownload).                        *)
(*                                                                         *)
(* Every query of an upload is tried again when no answer comes in time    *)
(* (_q_reliable), on a new socket; what was given up may still arrive, any *)
(* number of times. The relay serves one query at a time and sweeps before *)
(* each (_evict), as in RelayMailbox.                                      *)
(*                                                                         *)
(* The ids of two files differ: gen_msg_id draws 32 random bits, and the   *)
(* relay takes the chunks of one id for those of one file. A file is its   *)
(* number of chunks; it is downloaded in as many pieces as it has chunks.  *)
(***************************************************************************)
EXTENDS Integers, Sequences, FiniteSets, Functions, Lists

CONSTANTS Users,          \* names of addressees
          Fids,           \* file ids, one for each upload
          MaxFileChunks,  \* MAX_FILE_CHUNKS
          MaxFiles,       \* MAX_FILES
          FileTTL,        \* FILE_TTL
          EvictInterval,  \* EVICT_INTERVAL
          SendRetries,    \* SEND_RETRIES
          Sizes,          \* bound: the numbers of chunks that files have
          MaxLate,        \* bound of the number of times a header is taken late
          MaxNow,         \* bound of the clock
          MaxRestarts,    \* bound of the number of restarts of the relay
          Idle,           \* an upload that has not begun or has returned
          NoAnswer        \* the open socket has received nothing yet

ASSUME SizesAssumption ==
  /\ MaxFileChunks \in Nat \ {0}
  /\ MaxFiles \in Nat \ {0}
  /\ SendRetries \in Nat
  /\ MaxLate \in Nat
  /\ Sizes \subseteq Nat \ {0}

ASSUME TimesAssumption ==
  /\ FileTTL \in Nat
  /\ EvictInterval \in Nat \ {0}
  /\ MaxNow \in Nat
  /\ MaxRestarts \in Nat

VARIABLES now,        \* time.time() of the relay
          lastEvict,  \* self._last_evict
          files,      \* fid -> file: self.files
          inbox,      \* user -> sequence of fids: self.file_inbox
          restarts    \* how often the relay has restarted

VARIABLES sent,       \* fid -> addressee and number of chunks
          upload,     \* fid -> step and try its upload waits for: 0 is the header,
                      \* n the chunk n-1
          net,        \* requests of uploads that were put on the wire
          answer,     \* fid -> what its open socket has received
          outcome,    \* fid -> what send_file returned
          download    \* fid -> number of pieces a running download has

\* History.
VARIABLES begun,      \* fids of which the relay has taken a chunk
          lateHeaders,  \* fid -> how often its header was taken after a chunk of it
          announced,  \* fid -> how often its chunks were all there
          polled,     \* fids whose pointer a poll has taken
          fetched     \* <<fid, n>>: a download ended with n pieces

relayVars == <<lastEvict, files, inbox>>
clientVars == <<sent, upload, net, answer, outcome, download>>
taking == <<begun, lateHeaders, announced>>
history == <<taking, polled, fetched>>
vars == <<now, relayVars, restarts, clientVars, history>>

Time == 0 .. MaxNow
Sends == [to : Users, total : Sizes]
FileRecords == [to : Users, total : Sizes, got : SUBSET Nat, complete : BOOLEAN, ts : Time]

FRTypeOK ==
  /\ now \in Time /\ lastEvict \in Time
  /\ DOMAIN files \subseteq Fids
  /\ \A fid \in DOMAIN files : files[fid] \in FileRecords
  /\ inbox \in [Users -> Seq(Fids)]
  /\ restarts \in 0 .. MaxRestarts
  /\ DOMAIN sent \subseteq Fids
  /\ \A fid \in DOMAIN sent : sent[fid] \in Sends
  /\ upload \in [Fids -> [step : Nat, try : Nat] \cup {Idle}]
  /\ net \subseteq [fid : Fids, step : Nat]
  /\ answer \in [Fids -> {NoAnswer, "OK", "ERR"}]
  /\ DOMAIN outcome \subseteq Fids
  /\ \A fid \in DOMAIN outcome : outcome[fid] \in BOOLEAN
  /\ DOMAIN download \subseteq Fids
  /\ \A fid \in DOMAIN download : download[fid] \in Nat
  /\ lateHeaders \in [Fids -> Nat] /\ announced \in [Fids -> Nat]
  /\ begun \subseteq Fids
  /\ polled \subseteq Fids
  /\ fetched \subseteq Fids \X Nat

Nothing == [fid \in {} |-> 0]

Init ==
  /\ now = 0
  /\ lastEvict = 0
  /\ files = Nothing
  /\ inbox = [u \in Users |-> <<>>]
  /\ restarts = 0
  /\ sent = Nothing
  /\ upload = [fid \in Fids |-> Idle]
  /\ net = {}
  /\ answer = [fid \in Fids |-> NoAnswer]
  /\ outcome = Nothing
  /\ download = Nothing
  /\ lateHeaders = [fid \in Fids |-> 0] /\ announced = lateHeaders
  /\ begun = {} /\ polled = {} /\ fetched = {}

\* The dictionary f with f[x] set to v, and without the keys in S.
Put(f, x, v) == [y \in DOMAIN f \cup {x} |-> IF y = x THEN v ELSE f[y]]
Without(f, S) == Restrict(f, DOMAIN f \ S)

------------------------------------------------------------------------------
(* _evict *)

SweepDue == now - lastEvict >= EvictInterval
SweptLast == IF SweepDue THEN now ELSE lastEvict

SweptFiles ==
  IF SweepDue
  THEN Without(files, {fid \in DOMAIN files : now - files[fid].ts > FileTTL})
  ELSE files

\* Pointers to files that are gone are cleaned out.
SweptInbox ==
  IF SweepDue
  THEN [u \in Users |-> Only(inbox[u], DOMAIN SweptFiles)]
  ELSE inbox

\* The sweep that handle_query runs before every handler, and nothing else.
SweepOnly ==
  /\ lastEvict' = SweptLast /\ files' = SweptFiles /\ inbox' = SweptInbox
  /\ UNCHANGED taking

------------------------------------------------------------------------------
(* _h_fheader *)

Pending == UNION {Range(SweptInbox[u]) : u \in Users}

\* Mutant: a file that waits for its addressee may make room as well.
Evictable_All == DOMAIN SweptFiles

\* A file that no pointer waits for may make room for a new one.
Evictable == DOMAIN SweptFiles \ Pending

Full(fid) == fid \notin DOMAIN SweptFiles /\ Cardinality(DOMAIN SweptFiles) >= MaxFiles

Victims(fid) ==
  IF Full(fid)
  THEN {{f} : f \in {g \in Evictable :
                       \A h \in Evictable : SweptFiles[g].ts <= SweptFiles[h].ts}}
  ELSE {{}}

\* ERR:bad_total, or ERR:full.
RefuseHeader(fid) ==
  /\ sent[fid].total > MaxFileChunks \/ (Full(fid) /\ Evictable = {})
  /\ SweepOnly

\* Whatever the relay has of this id is replaced.
OpenFile(fid) ==
  /\ sent[fid].total <= MaxFileChunks
  /\ \E victim \in Victims(fid) :
       files' = Put(Without(SweptFiles, victim), fid,
                    [to |-> sent[fid].to, total |-> sent[fid].total, got |-> {},
                     complete |-> FALSE, ts |-> now])
  /\ lastEvict' = SweptLast /\ inbox' = SweptInbox
  /\ lateHeaders' = IF fid \in begun THEN [lateHeaders EXCEPT ![fid] = @ + 1] ELSE lateHeaders
  /\ UNCHANGED <<begun, announced>>

------------------------------------------------------------------------------
(* _h_fchunk; a sequence number out of range does not come from send_file *)

\* ERR:no_file.
RefuseChunk(fid) ==
  /\ fid \notin DOMAIN SweptFiles
  /\ SweepOnly

GotAll(fid, seq) ==
  Cardinality(SweptFiles[fid].got \cup {seq}) = SweptFiles[fid].total

\* OK:complete, for a file that is complete already.
AckChunk(fid, seq) ==
  /\ fid \in DOMAIN SweptFiles /\ SweptFiles[fid].complete
  /\ SweepOnly

\* OK:chunk.
StoreChunk(fid, seq) ==
  /\ fid \in DOMAIN SweptFiles /\ ~SweptFiles[fid].complete
  /\ ~GotAll(fid, seq)
  /\ files' = [SweptFiles EXCEPT ![fid].got = @ \cup {seq}]
  /\ lastEvict' = SweptLast /\ inbox' = SweptInbox
  /\ begun' = begun \cup {fid}
  /\ UNCHANGED <<lateHeaders, announced>>

\* Mutant: the file is not marked as complete.
CompleteFile_Unmarked(fid, seq) ==
  /\ fid \in DOMAIN SweptFiles /\ ~SweptFiles[fid].complete
  /\ GotAll(fid, seq)
  /\ files' = [SweptFiles EXCEPT ![fid].got = {}]
  /\ inbox' = [SweptInbox EXCEPT ![SweptFiles[fid].to] = Append(@, fid)]
  /\ lastEvict' = SweptLast
  /\ begun' = begun \cup {fid}
  /\ announced' = [announced EXCEPT ![fid] = @ + 1]
  /\ UNCHANGED lateHeaders

\* OK:complete: the pointer goes to the inbox.
CompleteFile(fid, seq) ==
  /\ fid \in DOMAIN SweptFiles /\ ~SweptFiles[fid].complete
  /\ GotAll(fid, seq)
  /\ files' = [SweptFiles EXCEPT ![fid].complete = TRUE, ![fid].got = {}]
  /\ inbox' = [SweptInbox EXCEPT ![SweptFiles[fid].to] = Append(@, fid)]
  /\ lastEvict' = SweptLast
  /\ begun' = begun \cup {fid}
  /\ announced' = [announced EXCEPT ![fid] = @ + 1]
  /\ UNCHANGED lateHeaders

------------------------------------------------------------------------------
(* send_file *)

\* The client puts try n of a step on the wire.
Query(fid, step, n) ==
  /\ upload' = [upload EXCEPT ![fid] = [step |-> step, try |-> n]]
  /\ net' = net \cup {[fid |-> fid, step |-> step]}
  /\ answer' = [answer EXCEPT ![fid] = NoAnswer]

Return(fid, ok) ==
  /\ upload' = [upload EXCEPT ![fid] = Idle]
  /\ answer' = [answer EXCEPT ![fid] = NoAnswer]
  /\ outcome' = Put(outcome, fid, ok)
  /\ UNCHANGED net

SendFile(fid, to, total) ==
  /\ fid \notin DOMAIN sent
  /\ sent' = Put(sent, fid, [to |-> to, total |-> total])
  /\ Query(fid, 0, 0)
  /\ UNCHANGED <<now, relayVars, restarts, outcome, download, history>>

\* Mutant: a refusal of the relay is taken for an answer like any other.
Receive_IgnoreErr(fid) ==
  /\ upload[fid] # Idle /\ answer[fid] # NoAnswer
  /\ LET step == upload[fid].step
     IN  IF step < sent[fid].total
         THEN Query(fid, step + 1, 0) /\ UNCHANGED outcome
         ELSE Return(fid, TRUE)
  /\ UNCHANGED <<now, relayVars, restarts, sent, download, history>>

\* The answer of the open socket: next step, or the end.
Receive(fid) ==
  /\ upload[fid] # Idle /\ answer[fid] # NoAnswer
  /\ LET step == upload[fid].step
     IN  IF answer[fid] = "OK" /\ step < sent[fid].total
         THEN Query(fid, step + 1, 0) /\ UNCHANGED outcome
         ELSE Return(fid, answer[fid] = "OK")
  /\ UNCHANGED <<now, relayVars, restarts, sent, download, history>>

\* ERR:timeout: the next try, or the end.
Timeout(fid) ==
  /\ upload[fid] # Idle
  /\ LET c == upload[fid]
     IN  IF c.try < SendRetries
         THEN Query(fid, c.step, c.try + 1) /\ UNCHANGED outcome
         ELSE Return(fid, FALSE)
  /\ UNCHANGED <<now, relayVars, restarts, sent, download, history>>

\* The answer goes to the socket that waits for it, or is lost; it is lost as
\* well when what was served is an earlier try.
Answer(r, a) ==
  \/ /\ upload[r.fid] # Idle /\ upload[r.fid].step = r.step
     /\ answer' = [answer EXCEPT ![r.fid] = a]
  \/ answer' = answer

\* A request of an upload reaches the relay: now, or much later, or again.
Serve(r) ==
  /\ \/ /\ r.step = 0 /\ (r.fid \in begun => lateHeaders[r.fid] < MaxLate)
        /\ \/ RefuseHeader(r.fid) /\ Answer(r, "ERR")
           \/ OpenFile(r.fid) /\ Answer(r, "OK")
     \/ /\ r.step > 0
        /\ \/ RefuseChunk(r.fid) /\ Answer(r, "ERR")
           \/ /\ \/ AckChunk(r.fid, r.step - 1)
                 \/ StoreChunk(r.fid, r.step - 1)
                 \/ CompleteFile(r.fid, r.step - 1)
              /\ Answer(r, "OK")
  /\ UNCHANGED <<now, restarts, sent, upload, net, outcome, download, polled, fetched>>

------------------------------------------------------------------------------
(* poll_files with _h_fpoll, download_file with _h_fdownload *)

Ready(fid) == fid \in DOMAIN SweptFiles /\ SweptFiles[fid].complete

\* The next pointer is taken out; the user learns of the file if it is there,
\* and if the answer is not lost.
PollFiles(u) ==
  /\ SweptInbox[u] # <<>>
  /\ inbox' = [SweptInbox EXCEPT ![u] = Tail(@)]
  /\ lastEvict' = SweptLast /\ files' = SweptFiles
  /\ LET fid == Head(SweptInbox[u])
     IN  IF Ready(fid)
         THEN \/ /\ polled' = polled \cup {fid}
                 /\ download' = Put(download, fid, 0)
              \/ /\ polled' = polled \cup {fid}
                 /\ UNCHANGED download
         ELSE UNCHANGED <<polled, download>>
  /\ UNCHANGED <<now, restarts, sent, upload, net, answer, outcome,
                 taking, fetched>>

\* Mutant: any answer without data ends the file.
DownloadPiece_ShortEnd(fid) ==
  /\ fid \in DOMAIN download
  /\ SweepOnly
  /\ LET n == download[fid] + 1
     IN  IF ~Ready(fid)
         THEN fetched' = fetched \cup {<<fid, n - 1>>} /\ download' = Without(download, {fid})
         ELSE IF n >= SweptFiles[fid].total
         THEN fetched' = fetched \cup {<<fid, n>>} /\ download' = Put(download, fid, 0)
         ELSE download' = Put(download, fid, n) /\ UNCHANGED fetched
  /\ UNCHANGED <<now, restarts, sent, upload, net, answer, outcome, polled>>

\* The next piece; without the file the download gives nothing. The user may
\* download the file again.
DownloadPiece(fid) ==
  /\ fid \in DOMAIN download
  /\ SweepOnly
  /\ LET n == download[fid] + 1
     IN  IF ~Ready(fid)
         THEN download' = Put(download, fid, 0) /\ UNCHANGED fetched
         ELSE IF n >= SweptFiles[fid].total
         THEN fetched' = fetched \cup {<<fid, n>>} /\ download' = Put(download, fid, 0)
         ELSE download' = Put(download, fid, n) /\ UNCHANGED fetched
  /\ UNCHANGED <<now, restarts, sent, upload, net, answer, outcome, polled>>

\* No answer to any try: the download gives nothing.
DownloadTimeout(fid) ==
  /\ fid \in DOMAIN download /\ download[fid] > 0
  /\ download' = Put(download, fid, 0)
  /\ UNCHANGED <<now, relayVars, restarts, sent, upload, net, answer, outcome, history>>

------------------------------------------------------------------------------
(* The rest of the relay's life *)

OtherQuery ==
  /\ SweepOnly
  /\ UNCHANGED <<now, restarts, clientVars, polled, fetched>>

Tick ==
  /\ now < MaxNow
  /\ now' = now + 1
  /\ UNCHANGED <<relayVars, restarts, clientVars, history>>

Restart ==
  /\ restarts < MaxRestarts
  /\ restarts' = restarts + 1
  /\ lastEvict' = now
  /\ files' = Nothing
  /\ inbox' = [u \in Users |-> <<>>]
  /\ UNCHANGED <<now, clientVars, history>>

Next ==
  \/ \E fid \in Fids :
       \/ \E to \in Users, total \in Sizes : SendFile(fid, to, total)
       \/ Receive(fid)
       \/ Timeout(fid)
       \/ DownloadPiece(fid)
       \/ DownloadTimeout(fid)
  \/ \E r \in net : Serve(r)
  \/ \E u \in Users : PollFiles(u)
  \/ OtherQuery
  \/ Tick
  \/ Restart

Spec == Init /\ [][Next]_vars

------------------------------------------------------------------------------
(* Correctness *)

\* A header of the file was taken after a chunk of it: as what was given up long ago
\* and arrives all the same, or a second time. A header that is tried again because
\* its answer was lost is not late: no chunk is sent before one was answered.
Reopened(fid) == lateHeaders[fid] > 0

Completed(fid) == announced[fid] > 0

\* send_file returns ok only for a file that was complete at the relay, unless a
\* late duplicate of its header emptied it under way: no sweep, restart, eviction
\* or lost answer, be it of the header or of a chunk, can make the sender believe
\* in a file that never came together.
OkUnlessReopened ==
  \A fid \in DOMAIN outcome : outcome[fid] => Completed(fid) \/ Reopened(fid)

\* A file is announced at most once, whatever is tried again or comes late, and once
\* more at most for each header that comes after a chunk (_h_fheader replaces a
\* complete file too). Without such a header its pointer is in one inbox, once, or
\* was taken.
AnnouncedOnce ==
  /\ \A fid \in Fids : announced[fid] <= 1 + lateHeaders[fid]
  /\ \A u, v \in Users : \A i \in DOMAIN inbox[u], j \in DOMAIN inbox[v] :
       ~Reopened(inbox[u][i]) =>
         /\ inbox[u][i] \notin polled
         /\ inbox[u][i] = inbox[v][j] => u = v /\ i = j

\* A download that ends well has all of the file, even when the file is swept,
\* lost or replaced between two pieces (download_file: "не отдаём огрызок").
FetchedWhole == \A f \in fetched : f[2] = sent[f[1]].total

\* A complete file waits for its addressee, pointer and data, until a poll takes
\* it: no flood of headers removes it, only its age, a restart or, in this very step,
\* a late header of its own (_h_fheader: "При переполнении НЕ вымываем файл,
\* ждущий выдачи").
Awaits(fid) ==
  /\ fid \in DOMAIN files /\ files[fid].complete
  /\ fid \in Range(inbox[files[fid].to])

KeptForAddressee ==
  [][\A fid \in DOMAIN files : Awaits(fid) =>
       \/ Awaits(fid)'
       \/ fid \in polled'
       \/ lateHeaders'[fid] > lateHeaders[fid]
       \/ restarts' # restarts
       \/ now - files[fid].ts > FileTTL]_vars
==============================================================================
