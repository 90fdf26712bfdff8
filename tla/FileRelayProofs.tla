---------------------------- MODULE FileRelayProofs ----------------------------
(***************************************************************************)
(* Theorems about FileRelay, for every value of its constants.             *)
(***************************************************************************)
EXTENDS FileRelay, ListProofs

------------------------------------------------------------------------------
(* Inductive invariants *)

USE DEF taking

\* What the relay has of a file is of the file that was sent, and a file that is
\* not complete was complete as often, at most, as its header came late.
FileOk(fid) ==
  LET file == files[fid]
  IN  /\ fid \in DOMAIN sent
      /\ file.to = sent[fid].to /\ file.total = sent[fid].total
      /\ file.got \subseteq 0 .. file.total - 1
      /\ file.complete => Completed(fid)
      /\ ~file.complete => /\ file.got # 0 .. file.total - 1
                           /\ announced[fid] <= lateHeaders[fid]

FileInv ==
  /\ \A fid \in DOMAIN files : FileOk(fid)
  /\ \A fid \in Fids : announced[fid] <= 1 + lateHeaders[fid]
  /\ \A fid \in Fids : Completed(fid) => fid \in begun

\* Only steps of files that were sent are on the wire.
WireInv ==
  /\ \A r \in net : r.fid \in DOMAIN sent /\ r.step \in 0 .. sent[r.fid].total
  /\ \A fid \in Fids : upload[fid] # Idle =>
       fid \in DOMAIN sent /\ upload[fid].step \in 0 .. sent[fid].total
  /\ DOMAIN outcome \subseteq DOMAIN sent

\* Step s of the upload that is under way has been answered with OK.
Confirmed(fid, s) ==
  \/ s < upload[fid].step
  \/ s = upload[fid].step /\ answer[fid] = "OK" /\ answer[fid] # NoAnswer

\* Of a file without a late header that was never complete, the relay has every
\* chunk that was confirmed, or nothing any more; the last chunk is not confirmed.
Covered(fid) ==
  /\ Confirmed(fid, 1) => fid \in begun
  /\ ~Completed(fid) /\ ~Reopened(fid) =>
       /\ ~Confirmed(fid, sent[fid].total)
       /\ fid \in DOMAIN files =>
            \A s \in 1 .. sent[fid].total : Confirmed(fid, s) => s - 1 \in files[fid].got

\* The inductive invariant behind OkUnlessReopened.
UploadInv ==
  /\ FileInv
  /\ WireInv
  /\ \A fid \in Fids : upload[fid] # Idle => Covered(fid)
  /\ OkUnlessReopened

CompletedFids == {fid \in Fids : Completed(fid)}

\* In the inboxes b are files of com only, and of a file without a late header one
\* pointer at most, and none when it is in pol; late counts the late headers.
PointersOk(b, pol, late, com) ==
  /\ \A u \in Users : \A i \in DOMAIN b[u] : b[u][i] \in com
  /\ \A u, v \in Users : \A i \in DOMAIN b[u], j \in DOMAIN b[v] :
       ~(late[b[u][i]] > 0) =>
         /\ b[u][i] \notin pol
         /\ b[u][i] = b[v][j] => u = v /\ i = j

\* With FileInv, the inductive invariant behind AnnouncedOnce.
AnnounceInv ==
  /\ PointersOk(inbox, polled, lateHeaders, CompletedFids)
  /\ polled \subseteq CompletedFids

\* With FileInv, the inductive invariant behind FetchedWhole.
FetchInv ==
  /\ \A fid \in DOMAIN download : fid \in DOMAIN sent /\ download[fid] < sent[fid].total
  /\ \A f \in fetched : f[1] \in DOMAIN sent
  /\ FetchedWhole

------------------------------------------------------------------------------
(* Type correctness *)

\* The sweep takes files away, and the pointers to them.
LEMMA SweptTypes ==
  ASSUME FRTypeOK
  PROVE  /\ SweptLast \in Time
         /\ DOMAIN SweptFiles \subseteq DOMAIN files
         /\ \A fid \in DOMAIN SweptFiles : SweptFiles[fid] = files[fid]
         /\ SweptInbox \in [Users -> Seq(Fids)]
<1>1. SweptLast \in Time
  BY DEF FRTypeOK, SweptLast
<1>2. /\ DOMAIN SweptFiles \subseteq DOMAIN files
      /\ \A fid \in DOMAIN SweptFiles : SweptFiles[fid] = files[fid]
  BY DEF SweptFiles, Without, Restrict
<1>3. \A u \in Users : Only(inbox[u], DOMAIN SweptFiles) \in Seq(Fids)
  BY OnlyProperties DEF FRTypeOK
<1>4. SweptInbox \in [Users -> Seq(Fids)]
  BY <1>3 DEF SweptInbox, FRTypeOK
<1>5. QED
  BY <1>1, <1>2, <1>4

\* What the relay does on a request of an upload keeps the types.
LEMMA ServeTypes ==
  ASSUME FRTypeOK, WireInv, NEW r \in net, Serve(r)
  PROVE  FRTypeOK'
<1> DEFINE fid == r.fid
<1> USE DEF FRTypeOK
<1>1. /\ fid \in Fids /\ r.step \in Nat /\ fid \in DOMAIN sent /\ sent[fid] \in Sends
      /\ UNCHANGED <<now, restarts, sent, upload, net, outcome, download, polled, fetched>>
  BY DEF Serve, WireInv
<1>2. answer' \in [Fids -> {NoAnswer, "OK", "ERR"}]
  BY <1>1 DEF Serve, Answer
<1> HIDE DEF fid
<1>3. CASE SweepOnly
  BY <1>1, <1>2, <1>3, SweptTypes DEF SweepOnly
<1>4. CASE OpenFile(fid)
  <2>1. sent[fid].to \in Users /\ sent[fid].total \in Sizes /\ now \in Time
    BY <1>1 DEF Sends
  <2>2. [to |-> sent[fid].to, total |-> sent[fid].total, got |-> {}, complete |-> FALSE,
         ts |-> now] \in FileRecords
    BY <2>1 DEF FileRecords
  <2>3. DOMAIN files' \subseteq Fids /\ \A f \in DOMAIN files' : files'[f] \in FileRecords
    BY <1>1, <1>4, <2>2, SweptTypes DEF OpenFile, Put, Without, Restrict
  <2>4. /\ lastEvict' = SweptLast /\ inbox' = SweptInbox
        /\ UNCHANGED <<begun, announced>> /\ lateHeaders' \in [Fids -> Nat]
    BY <1>1, <1>4 DEF OpenFile
  <2>5. QED
    BY <1>1, <1>2, <2>3, <2>4, SweptTypes
<1>5. CASE r.step > 0 /\ StoreChunk(fid, r.step - 1)
  <2>1. fid \in DOMAIN SweptFiles /\ SweptFiles[fid] \in FileRecords /\ r.step - 1 \in Nat
    <3>1. fid \in DOMAIN SweptFiles
      BY <1>5 DEF StoreChunk
    <3>2. SweptFiles[fid] \in FileRecords
      BY <3>1, SweptTypes
    <3>3. QED
      BY <1>1, <1>5, <3>1, <3>2
  <2>2. [SweptFiles[fid] EXCEPT !.got = @ \cup {r.step - 1}] \in FileRecords
    BY <2>1 DEF FileRecords
  <2>3. files' = [SweptFiles EXCEPT ![fid] = [SweptFiles[fid] EXCEPT !.got = @ \cup {r.step - 1}]]
    BY <1>5 DEF StoreChunk
  <2>4. DOMAIN files' \subseteq Fids /\ \A f \in DOMAIN files' : files'[f] \in FileRecords
    BY <2>2, <2>3, SweptTypes
  <2>5. begun' \subseteq Fids /\ UNCHANGED <<lateHeaders, announced>>
    BY <1>1, <1>5 DEF StoreChunk
  <2>6. QED
    BY <1>1, <1>2, <1>5, <2>4, <2>5, SweptTypes DEF StoreChunk
<1>6. CASE r.step > 0 /\ CompleteFile(fid, r.step - 1)
  <2> DEFINE done == [SweptFiles[fid] EXCEPT !.complete = TRUE, !.got = {}]
  <2>1. fid \in DOMAIN SweptFiles /\ SweptFiles[fid] \in FileRecords
    BY <1>6, SweptTypes DEF CompleteFile
  <2>2. done \in FileRecords /\ SweptFiles[fid].to \in Users
    BY <2>1 DEF FileRecords
  <2>3. files' = [SweptFiles EXCEPT ![fid] = done]
    BY <1>6 DEF CompleteFile
  <2> HIDE DEF done
  <2>4. DOMAIN files' \subseteq Fids /\ \A f \in DOMAIN files' : files'[f] \in FileRecords
    BY <2>2, <2>3, SweptTypes
  <2>5. inbox' \in [Users -> Seq(Fids)]
    <3>1. inbox' = [SweptInbox EXCEPT ![SweptFiles[fid].to] = Append(SweptInbox[SweptFiles[fid].to], fid)]
      BY <1>6 DEF CompleteFile
    <3>2. Append(SweptInbox[SweptFiles[fid].to], fid) \in Seq(Fids)
      BY <1>1, <2>2, SweptTypes, AppendProperties
    <3>3. QED
      BY <3>1, <3>2, SweptTypes
  <2>6. /\ begun' \subseteq Fids /\ UNCHANGED lateHeaders /\ announced' \in [Fids -> Nat]
        /\ lastEvict' = SweptLast
    BY <1>1, <1>6 DEF CompleteFile
  <2>7. QED
    BY <1>1, <1>2, <2>4, <2>5, <2>6, SweptTypes
<1>7. QED
  BY <1>3, <1>4, <1>5, <1>6 DEF Serve, RefuseHeader, RefuseChunk, AckChunk, fid

\* A step that the client takes keeps the types.
LEMMA ClientTypes ==
  ASSUME FRTypeOK, WireInv, NEW fid \in Fids,
         (\E to \in Users, total \in Sizes : SendFile(fid, to, total)) \/ Receive(fid) \/ Timeout(fid)
  PROVE  FRTypeOK'
<1> USE DEF FRTypeOK
<1>1. ASSUME NEW step \in Nat, NEW n \in Nat, Query(fid, step, n)
      PROVE  /\ upload' \in [Fids -> [step : Nat, try : Nat] \cup {Idle}]
             /\ net' \subseteq [fid : Fids, step : Nat]
             /\ answer' \in [Fids -> {NoAnswer, "OK", "ERR"}]
  BY <1>1 DEF Query
<1>2. ASSUME NEW ok \in BOOLEAN, Return(fid, ok)
      PROVE  /\ upload' \in [Fids -> [step : Nat, try : Nat] \cup {Idle}]
             /\ net' = net
             /\ answer' \in [Fids -> {NoAnswer, "OK", "ERR"}]
             /\ DOMAIN outcome' \subseteq Fids
             /\ \A f \in DOMAIN outcome' : outcome'[f] \in BOOLEAN
  BY <1>2 DEF Return, Put
<1>3. upload[fid] # Idle => upload[fid].step \in Nat /\ upload[fid].try \in Nat
  OBVIOUS
<1>4. ASSUME NEW to \in Users, NEW total \in Sizes, SendFile(fid, to, total)
      PROVE  FRTypeOK'
  <2>1. [to |-> to, total |-> total] \in Sends
    BY DEF Sends
  <2>2. DOMAIN sent' \subseteq Fids /\ \A f \in DOMAIN sent' : sent'[f] \in Sends
    BY <1>4, <2>1 DEF SendFile, Put
  <2>3. QED
    BY <1>1, <1>4, <2>2 DEF SendFile, relayVars, history
<1>5. CASE Receive(fid)
  <2>1. /\ UNCHANGED <<now, lastEvict, files, inbox, restarts, sent, download, begun, lateHeaders, announced,
                       polled, fetched>>
        /\ upload[fid].step + 1 \in Nat
    BY <1>3, <1>5 DEF Receive, relayVars, history
  <2>2. \/ Query(fid, upload[fid].step + 1, 0) /\ UNCHANGED outcome
        \/ Return(fid, answer[fid] = "OK")
    BY <1>5 DEF Receive
  <2>3. QED
    BY <1>1, <1>2, <2>1, <2>2
<1>6. CASE Timeout(fid)
  <2>1. /\ UNCHANGED <<now, lastEvict, files, inbox, restarts, sent, download, begun, lateHeaders, announced,
                       polled, fetched>>
        /\ upload[fid].step \in Nat /\ upload[fid].try + 1 \in Nat
    BY <1>3, <1>6 DEF Timeout, relayVars, history
  <2>2. \/ Query(fid, upload[fid].step, upload[fid].try + 1) /\ UNCHANGED outcome
        \/ Return(fid, FALSE)
    BY <1>6 DEF Timeout
  <2>3. QED
    BY <1>1, <1>2, <2>1, <2>2
<1>7. QED
  BY <1>4, <1>5, <1>6

\* So does a step of the addressee.
LEMMA UserTypes ==
  ASSUME FRTypeOK,
         \/ \E u \in Users : PollFiles(u)
         \/ \E fid \in Fids : DownloadPiece(fid) \/ DownloadTimeout(fid)
  PROVE  FRTypeOK'
<1> USE DEF FRTypeOK
<1>1. ASSUME NEW u \in Users, PollFiles(u) PROVE FRTypeOK'
  <2> DEFINE s == SweptInbox[u]
             fid == Head(s)
  <2>1. s \in Seq(Fids) /\ s # <<>>
    BY <1>1, SweptTypes DEF PollFiles
  <2>2. fid \in Fids /\ Tail(s) \in Seq(Fids)
    BY <2>1, HeadTailProperties
  <2>3. /\ inbox' = [SweptInbox EXCEPT ![u] = Tail(s)] /\ lastEvict' = SweptLast /\ files' = SweptFiles
        /\ UNCHANGED <<now, restarts, sent, upload, net, answer, outcome, begun, lateHeaders, announced, fetched>>
        /\ polled' \in {polled, polled \cup {fid}} /\ download' \in {download, Put(download, fid, 0)}
    BY <1>1 DEF PollFiles
  <2> HIDE DEF s, fid
  <2>4. inbox' \in [Users -> Seq(Fids)]
    BY <2>2, <2>3, SweptTypes
  <2>5. DOMAIN download' \subseteq Fids /\ \A f \in DOMAIN download' : download'[f] \in Nat
    BY <2>2, <2>3 DEF Put
  <2>6. QED
    BY <2>2, <2>3, <2>4, <2>5, SweptTypes
<1>2. ASSUME NEW fid \in Fids, DownloadPiece(fid) PROVE FRTypeOK'
  <2>1. /\ SweepOnly /\ fid \in DOMAIN download
        /\ UNCHANGED <<now, restarts, sent, upload, net, answer, outcome, polled>>
    BY <1>2 DEF DownloadPiece
  <2>2. /\ download' \in {Put(download, fid, 0), Put(download, fid, download[fid] + 1)}
        /\ fetched' \in {fetched, fetched \cup {<<fid, download[fid] + 1>>}}
    BY <1>2 DEF DownloadPiece
  <2>3. DOMAIN download' \subseteq Fids /\ \A f \in DOMAIN download' : download'[f] \in Nat
    BY <2>1, <2>2 DEF Put
  <2>4. fetched' \subseteq Fids \X Nat
    BY <2>1, <2>2
  <2>5. QED
    BY <2>1, <2>3, <2>4, SweptTypes DEF SweepOnly
<1>3. ASSUME NEW fid \in Fids, DownloadTimeout(fid) PROVE FRTypeOK'
  BY <1>3 DEF DownloadTimeout, Put, relayVars, history
<1>4. QED
  BY <1>1, <1>2, <1>3

\* Only steps of files that were sent are on the wire.
LEMMA WireStep ==
  ASSUME FRTypeOK, WireInv, [Next]_vars
  PROVE  WireInv'
<1> USE DEF WireInv
<1>1. ASSUME NEW fid \in Fids, NEW step, NEW n, Query(fid, step, n),
             DOMAIN sent \subseteq DOMAIN sent', \A f \in DOMAIN sent : sent'[f] = sent[f],
             fid \in DOMAIN sent', step \in 0 .. sent'[fid].total, UNCHANGED outcome
      PROVE  WireInv'
  <2> DEFINE c == [step |-> step, try |-> n]
             r == [fid |-> fid, step |-> step]
  <2>1. c.step = step /\ r.fid = fid /\ r.step = step
    OBVIOUS
  <2>2. upload' = [upload EXCEPT ![fid] = c] /\ net' = net \cup {r} /\ DOMAIN upload = Fids
    BY <1>1 DEF Query, FRTypeOK
  <2> HIDE DEF c, r
  <2>3. ASSUME NEW q \in net' PROVE q.fid \in DOMAIN sent' /\ q.step \in 0 .. sent'[q.fid].total
    BY <1>1, <2>1, <2>2
  <2>4. ASSUME NEW f \in Fids, upload'[f] # Idle
        PROVE  f \in DOMAIN sent' /\ upload'[f].step \in 0 .. sent'[f].total
    BY <1>1, <2>1, <2>2, <2>4
  <2>5. QED
    BY <1>1, <2>3, <2>4
<1>2. ASSUME NEW fid \in Fids, NEW ok, Return(fid, ok), UNCHANGED sent, fid \in DOMAIN sent
      PROVE  WireInv'
  <2>1. /\ upload' = [upload EXCEPT ![fid] = Idle] /\ DOMAIN upload = Fids /\ net' = net
        /\ DOMAIN outcome' = DOMAIN outcome \cup {fid}
    BY <1>2 DEF Return, FRTypeOK, Put
  <2>2. QED
    BY <1>2, <2>1
<1>3. \A fid \in DOMAIN sent : sent[fid].total \in Nat
  BY SizesAssumption DEF FRTypeOK, Sends
<1>4. ASSUME NEW fid \in Fids, NEW to \in Users, NEW total \in Sizes, SendFile(fid, to, total)
      PROVE  WireInv'
  <2>1. /\ fid \notin DOMAIN sent /\ Query(fid, 0, 0) /\ UNCHANGED outcome
        /\ DOMAIN sent' = DOMAIN sent \cup {fid} /\ sent'[fid].total = total
        /\ \A f \in DOMAIN sent : sent'[f] = sent[f]
    BY <1>4 DEF SendFile, Put
  <2>2. 0 \in 0 .. total
    BY SizesAssumption
  <2>3. QED
    BY <1>1, <2>1, <2>2
<1>5. ASSUME NEW fid \in Fids, Receive(fid) PROVE WireInv'
  <2>1. /\ fid \in DOMAIN sent /\ upload[fid].step \in 0 .. sent[fid].total
        /\ UNCHANGED sent
    BY <1>5 DEF Receive
  <2>2. CASE Query(fid, upload[fid].step + 1, 0) /\ UNCHANGED outcome /\ upload[fid].step < sent[fid].total
    <3>1. upload[fid].step + 1 \in 0 .. sent[fid].total
      BY <1>3, <2>1, <2>2
    <3>2. QED
      BY <1>1, <2>1, <2>2, <3>1
  <2>3. CASE Return(fid, answer[fid] = "OK")
    BY <1>2, <2>1, <2>3
  <2>4. QED
    BY <1>5, <2>2, <2>3 DEF Receive
<1>6. ASSUME NEW fid \in Fids, Timeout(fid) PROVE WireInv'
  <2>1. /\ fid \in DOMAIN sent /\ upload[fid].step \in 0 .. sent[fid].total
        /\ UNCHANGED sent
    BY <1>6 DEF Timeout
  <2>2. CASE Query(fid, upload[fid].step, upload[fid].try + 1) /\ UNCHANGED outcome
    BY <1>1, <2>1, <2>2
  <2>3. CASE Return(fid, FALSE)
    BY <1>2, <2>1, <2>3
  <2>4. QED
    BY <1>6, <2>2, <2>3 DEF Timeout
<1>7. ASSUME UNCHANGED <<sent, upload, net, outcome>> PROVE WireInv'
  BY <1>7
<1>8. ASSUME NEW fid \in Fids, DownloadPiece(fid) \/ DownloadTimeout(fid) PROVE WireInv'
  BY <1>7, <1>8 DEF DownloadPiece, DownloadTimeout
<1>9. ASSUME NEW r \in net, Serve(r) PROVE WireInv'
  BY <1>7, <1>9 DEF Serve
<1>10. ASSUME NEW u \in Users, PollFiles(u) PROVE WireInv'
  BY <1>7, <1>10 DEF PollFiles
<1>11. CASE OtherQuery \/ Tick \/ Restart \/ UNCHANGED vars
  BY <1>7, <1>11 DEF OtherQuery, Tick, Restart, vars, clientVars
<1>12. QED
  BY <1>4, <1>5, <1>6, <1>8, <1>9, <1>10, <1>11 DEF Next

\* The variables keep their types, and only steps of files that were sent are on
\* the wire.
THEOREM FileTypes == Spec => [](FRTypeOK /\ WireInv)
<1>1. Init => FRTypeOK /\ WireInv
  <2>1. <<>> \in Seq(Fids)
    OBVIOUS
  <2>2. QED
    BY <2>1, TimesAssumption DEF Init, FRTypeOK, WireInv, Nothing, Time
<1>2. FRTypeOK /\ WireInv /\ [Next]_vars => (FRTypeOK /\ WireInv)'
  <2> SUFFICES ASSUME FRTypeOK, WireInv, [Next]_vars PROVE FRTypeOK'
    BY WireStep
  <2>1. ASSUME NEW fid \in Fids,
               (\E to \in Users, total \in Sizes : SendFile(fid, to, total))
                 \/ Receive(fid) \/ Timeout(fid)
        PROVE  FRTypeOK'
    BY <2>1, ClientTypes
  <2>2. ASSUME NEW fid \in Fids, DownloadPiece(fid) \/ DownloadTimeout(fid) PROVE FRTypeOK'
    BY <2>2, UserTypes
  <2>3. ASSUME NEW r \in net, Serve(r) PROVE FRTypeOK'
    BY <2>3, ServeTypes
  <2>4. ASSUME NEW u \in Users, PollFiles(u) PROVE FRTypeOK'
    BY <2>4, UserTypes
  <2>5. CASE OtherQuery
    BY <2>5, SweptTypes DEF OtherQuery, SweepOnly, clientVars, FRTypeOK
  <2>6. CASE Tick
    BY <2>6, TimesAssumption DEF Tick, Time, relayVars, clientVars, history, FRTypeOK
  <2>7. CASE Restart
    <3>1. <<>> \in Seq(Fids)
      OBVIOUS
    <3>2. /\ restarts' \in 0 .. MaxRestarts /\ lastEvict' \in Time
          /\ DOMAIN files' = {} /\ inbox' \in [Users -> Seq(Fids)]
      BY <2>7, <3>1, TimesAssumption DEF Restart, Nothing, FRTypeOK
    <3>3. UNCHANGED <<now, sent, upload, net, answer, outcome, download, taking, polled, fetched>>
      BY <2>7 DEF Restart, clientVars, history
    <3>4. QED
      BY <3>2, <3>3 DEF FRTypeOK
  <2>8. CASE UNCHANGED vars
    BY <2>8 DEF vars, relayVars, clientVars, history, FRTypeOK
  <2>9. QED
    BY <2>1, <2>2, <2>3, <2>4, <2>5, <2>6, <2>7, <2>8 DEF Next
<1>3. QED
  BY <1>1, <1>2, PTL DEF Spec

------------------------------------------------------------------------------
(* What the relay has of a file *)

\* The types, and the invariants of the wire and of the files.
BaseInv == FRTypeOK /\ WireInv /\ FileInv

\* The number of chunks of a file.
LEMMA ChunkCount ==
  ASSUME NEW n \in Nat \ {0}
  PROVE  Cardinality(0 .. n - 1) = n
<1>1. Cardinality(0 .. n - 1) = IF 0 > n - 1 THEN 0 ELSE (n - 1) - 0 + 1
  BY FS_Interval
<1>2. QED
  BY <1>1

\* A step that leaves files as they are, or takes them away.
LEMMA FewerFiles ==
  ASSUME BaseInv,
         \A fid \in DOMAIN files' : fid \in DOMAIN files /\ files'[fid] = files[fid],
         \A fid \in DOMAIN sent : fid \in DOMAIN sent' /\ sent'[fid] = sent[fid],
         UNCHANGED <<begun, lateHeaders, announced>>
  PROVE  FileInv'
<1> SUFFICES ASSUME NEW fid \in DOMAIN files' PROVE FileOk(fid)'
  BY DEF FileInv, BaseInv, Completed
<1>1. FileOk(fid) /\ files'[fid] = files[fid]
  BY DEF BaseInv, FileInv
<1>2. QED
  BY <1>1 DEF FileOk, Completed

\* A query that only sweeps.
LEMMA SweptFileInv ==
  ASSUME BaseInv, SweepOnly, UNCHANGED sent
  PROVE  FileInv'
<1>1. \A fid \in DOMAIN files' : fid \in DOMAIN files /\ files'[fid] = files[fid]
  BY SweptTypes DEF SweepOnly, BaseInv
<1>2. QED
  BY <1>1, FewerFiles DEF SweepOnly

\* A header gives an empty file; it is late if the file was ever complete.
LEMMA OpenFileInv ==
  ASSUME BaseInv, NEW fid \in DOMAIN sent, OpenFile(fid), UNCHANGED sent
  PROVE  FileInv'
<1> DEFINE new == [to |-> sent[fid].to, total |-> sent[fid].total, got |-> {},
                   complete |-> FALSE, ts |-> now]
<1>1. /\ fid \in Fids /\ sent[fid].total \in Nat \ {0} /\ UNCHANGED <<begun, announced>>
      /\ announced \in [Fids -> Nat] /\ lateHeaders \in [Fids -> Nat]
      /\ lateHeaders' = IF fid \in begun THEN [lateHeaders EXCEPT ![fid] = lateHeaders[fid] + 1]
                        ELSE lateHeaders
  BY SizesAssumption DEF BaseInv, FRTypeOK, Sends, OpenFile
<1>2. /\ new.to = sent[fid].to /\ new.total = sent[fid].total /\ new.got = {} /\ ~new.complete
  OBVIOUS
<1>3. \A f \in DOMAIN files' : \/ f = fid /\ files'[f] = new
                               \/ f # fid /\ f \in DOMAIN files /\ files'[f] = files[f]
  BY SweptTypes DEF OpenFile, Put, Without, Restrict, BaseInv
<1> HIDE DEF new
<1>4. \A f \in Fids : /\ announced'[f] <= 1 + lateHeaders'[f]
                      /\ Completed(f)' => f \in begun'
  <2> SUFFICES ASSUME NEW f \in Fids PROVE announced'[f] <= 1 + lateHeaders'[f]
    BY <1>1 DEF BaseInv, FileInv, Completed
  <2>1. /\ announced[f] \in Nat /\ lateHeaders[f] \in Nat /\ announced'[f] = announced[f]
        /\ lateHeaders'[f] \in {lateHeaders[f], lateHeaders[f] + 1}
        /\ announced[f] <= 1 + lateHeaders[f]
    BY <1>1 DEF BaseInv, FileInv
  <2>2. QED
    BY <2>1
<1> SUFFICES ASSUME NEW f \in DOMAIN files' PROVE FileOk(f)'
  BY <1>4 DEF FileInv
<1>5. CASE f # fid
  <2>1. /\ FileOk(f) /\ files'[f] = files[f] /\ announced'[f] = announced[f]
        /\ lateHeaders'[f] = lateHeaders[f]
    BY <1>1, <1>3, <1>5 DEF BaseInv, FileInv, FRTypeOK
  <2>2. QED
    BY <1>1, <2>1 DEF FileOk, Completed
<1>6. CASE f = fid
  <2>1. files'[fid] = new
    BY <1>1, <1>3, <1>6
  <2>2. new.got # 0 .. new.total - 1 /\ new.got \subseteq 0 .. new.total - 1
    <3>1. 0 \in 0 .. new.total - 1 /\ 0 \notin new.got
      BY <1>1, <1>2
    <3>2. QED
      BY <1>2, <3>1
  <2>3. announced'[fid] <= lateHeaders'[fid]
    <3>1. /\ announced[fid] \in Nat /\ lateHeaders[fid] \in Nat
          /\ announced[fid] <= 1 + lateHeaders[fid]
          /\ fid \notin begun => announced[fid] = 0
      BY <1>1 DEF BaseInv, FileInv, Completed
    <3>2. fid \in begun => lateHeaders'[fid] = lateHeaders[fid] + 1
      BY <1>1
    <3>3. fid \notin begun => lateHeaders' = lateHeaders
      BY <1>1
    <3>4. announced' = announced
      BY <1>1
    <3>5. QED
      BY <3>1, <3>2, <3>3, <3>4
  <2>4. QED
    BY <1>1, <1>2, <1>6, <2>1, <2>2, <2>3 DEF FileOk
<1>7. QED
  BY <1>5, <1>6

\* The file of a request that StoreChunk or CompleteFile serves.
LEMMA SweptFile ==
  ASSUME BaseInv, NEW fid \in DOMAIN SweptFiles
  PROVE  /\ fid \in Fids /\ SweptFiles[fid] = files[fid] /\ files[fid] \in FileRecords /\ FileOk(fid)
         /\ fid \in DOMAIN files /\ files[fid].total \in Nat \ {0} /\ files[fid].to \in Users
         /\ announced[fid] \in Nat /\ lateHeaders[fid] \in Nat
BY SweptTypes, SizesAssumption DEF BaseInv, FileInv, FRTypeOK, FileRecords

\* A chunk that does not complete the file leaves it incomplete.
LEMMA StoreFileInv ==
  ASSUME BaseInv, NEW fid \in DOMAIN sent, NEW seq \in 0 .. sent[fid].total - 1,
         StoreChunk(fid, seq), UNCHANGED sent
  PROVE  FileInv' /\ files'[fid].got = files[fid].got \cup {seq}
<1> DEFINE with == [files[fid] EXCEPT !.got = files[fid].got \cup {seq}]
           n == files[fid].total
<1>1. /\ fid \in DOMAIN SweptFiles /\ ~files[fid].complete /\ files[fid] \in FileRecords
      /\ FileOk(fid) /\ n \in Nat \ {0} /\ SweptFiles[fid] = files[fid]
      /\ UNCHANGED <<lateHeaders, announced>> /\ begun' = begun \cup {fid}
  BY SweptFile DEF StoreChunk
<1>2. files' = [SweptFiles EXCEPT ![fid] = with]
  BY <1>1 DEF StoreChunk
<1>3. /\ with.to = files[fid].to /\ with.total = n /\ ~with.complete
      /\ with.got = files[fid].got \cup {seq}
  BY <1>1 DEF FileRecords
<1> HIDE DEF with, n
<1>4. with.got # 0 .. n - 1
  <2>1. Cardinality(with.got) # n
    BY <1>1, <1>3 DEF StoreChunk, GotAll, n
  <2>2. QED
    BY <1>1, <2>1, ChunkCount
<1>5. with.got \subseteq 0 .. n - 1
  BY <1>1, <1>3 DEF FileOk, n
<1>6. ASSUME NEW f \in DOMAIN files' PROVE FileOk(f)'
  <2>1. CASE f # fid
    <3>1. f \in DOMAIN files /\ files'[f] = files[f]
      BY <1>2, <2>1, SweptTypes DEF BaseInv
    <3>2. QED
      BY <1>1, <3>1 DEF BaseInv, FileInv, FileOk, Completed
  <2>2. CASE f = fid
    <3>1. files'[fid] = with
      BY <1>1, <1>2
    <3>2. QED
      BY <1>1, <1>3, <1>4, <1>5, <2>2, <3>1 DEF FileOk, n
  <2>3. QED
    BY <2>1, <2>2
<1>7. QED
  BY <1>1, <1>2, <1>3, <1>6 DEF FileInv, BaseInv, Completed

\* The chunk that completes it makes it complete.
LEMMA CompleteFileInv ==
  ASSUME BaseInv, NEW fid \in DOMAIN sent, NEW seq \in 0 .. sent[fid].total - 1,
         CompleteFile(fid, seq), UNCHANGED sent
  PROVE  FileInv'
<1> DEFINE done == [files[fid] EXCEPT !.complete = TRUE, !.got = {}]
<1>1. /\ fid \in DOMAIN SweptFiles /\ files[fid] \in FileRecords
      /\ FileOk(fid) /\ SweptFiles[fid] = files[fid]
      /\ announced[fid] \in Nat /\ lateHeaders[fid] \in Nat /\ announced[fid] <= lateHeaders[fid]
      /\ UNCHANGED lateHeaders /\ begun' = begun \cup {fid}
      /\ announced' = [announced EXCEPT ![fid] = announced[fid] + 1]
  BY SweptFile DEF CompleteFile, FileOk
<1>2. files' = [SweptFiles EXCEPT ![fid] = done]
  BY <1>1 DEF CompleteFile
<1>3. /\ done.to = files[fid].to /\ done.total = files[fid].total /\ done.complete
      /\ done.got = {}
  BY <1>1 DEF FileRecords
<1> HIDE DEF done
<1>4. /\ announced'[fid] = announced[fid] + 1
      /\ \A f \in Fids : f # fid => announced'[f] = announced[f]
      /\ fid \in Fids /\ DOMAIN files \subseteq Fids
  BY <1>1, SweptFile DEF BaseInv, FRTypeOK
<1>5. ASSUME NEW f \in DOMAIN files' PROVE FileOk(f)'
  <2>1. CASE f # fid
    <3>1. f \in DOMAIN files /\ files'[f] = files[f]
      BY <1>2, <2>1, SweptTypes DEF BaseInv
    <3>2. QED
      BY <1>1, <1>4, <2>1, <3>1 DEF BaseInv, FileInv, FileOk, Completed
  <2>2. CASE f = fid
    <3>1. files'[fid] = done
      BY <1>1, <1>2
    <3>2. QED
      BY <1>1, <1>3, <1>4, <2>2, <3>1 DEF FileOk, Completed
  <2>3. QED
    BY <2>1, <2>2
<1>6. ASSUME NEW f \in Fids
      PROVE  /\ announced'[f] <= 1 + lateHeaders'[f]
             /\ Completed(f)' => f \in begun'
  <2>1. CASE f = fid
    BY <1>1, <1>4, <2>1
  <2>2. CASE f # fid
    BY <1>1, <1>4, <2>2 DEF FileInv, BaseInv, Completed
  <2>3. QED
    BY <2>1, <2>2
<1>7. QED
  BY <1>5, <1>6 DEF FileInv

\* The relay keeps what it has of the files straight in every step.
LEMMA FileStep ==
  ASSUME BaseInv, [Next]_vars
  PROVE  FileInv'
<1>1. ASSUME UNCHANGED <<files, sent, begun, lateHeaders, announced>> PROVE FileInv'
  BY <1>1, FewerFiles
<1>2. ASSUME NEW fid \in Fids, NEW to \in Users, NEW total \in Sizes, SendFile(fid, to, total)
      PROVE  FileInv'
  <2>1. /\ \A f \in DOMAIN sent : f \in DOMAIN sent' /\ sent'[f] = sent[f]
        /\ UNCHANGED <<files, begun, lateHeaders, announced>>
    BY <1>2 DEF SendFile, Put, relayVars, history
  <2>2. QED
    BY <2>1, FewerFiles
<1>3. ASSUME NEW fid \in Fids, Receive(fid) \/ Timeout(fid) \/ DownloadTimeout(fid)
      PROVE  FileInv'
  BY <1>1, <1>3 DEF Receive, Timeout, DownloadTimeout, relayVars, history
<1>4. ASSUME NEW fid \in Fids, DownloadPiece(fid) PROVE FileInv'
  BY <1>4, SweptFileInv DEF DownloadPiece
<1>5. ASSUME NEW r \in net, Serve(r) PROVE FileInv'
  <2>1. /\ r.fid \in DOMAIN sent /\ r.step \in 0 .. sent[r.fid].total /\ UNCHANGED sent
        /\ sent[r.fid].total \in Nat
    BY <1>5, SizesAssumption DEF Serve, BaseInv, WireInv, FRTypeOK, Sends
  <2>2. CASE SweepOnly
    BY <2>1, <2>2, SweptFileInv
  <2>3. CASE OpenFile(r.fid)
    BY <2>1, <2>3, OpenFileInv
  <2>4. CASE r.step > 0 /\ (StoreChunk(r.fid, r.step - 1) \/ CompleteFile(r.fid, r.step - 1))
    <3>1. r.step - 1 \in 0 .. sent[r.fid].total - 1
      BY <2>1, <2>4
    <3>2. QED
      BY <2>1, <2>4, <3>1, StoreFileInv, CompleteFileInv
  <2>5. QED
    BY <1>5, <2>2, <2>3, <2>4 DEF Serve, RefuseHeader, RefuseChunk, AckChunk
<1>6. ASSUME NEW u \in Users, PollFiles(u) PROVE FileInv'
  <2>1. \A fid \in DOMAIN files' : fid \in DOMAIN files /\ files'[fid] = files[fid]
    BY <1>6, SweptTypes DEF PollFiles, BaseInv
  <2>2. QED
    BY <1>6, <2>1, FewerFiles DEF PollFiles
<1>7. CASE OtherQuery
  BY <1>7, SweptFileInv DEF OtherQuery, clientVars
<1>8. CASE Restart
  <2>1. DOMAIN files' = {} /\ UNCHANGED <<sent, begun, lateHeaders, announced>>
    BY <1>8 DEF Restart, Nothing, clientVars, history
  <2>2. QED
    BY <2>1, FewerFiles
<1>9. CASE Tick \/ UNCHANGED vars
  BY <1>1, <1>9 DEF Tick, vars, relayVars, clientVars, history
<1>10. QED
  BY <1>2, <1>3, <1>4, <1>5, <1>6, <1>7, <1>8, <1>9 DEF Next

LEMMA BaseInductive == Spec => []BaseInv
<1>1. Init => FileInv
  BY DEF Init, FileInv, Nothing, Completed
<1>2. BaseInv /\ [Next]_vars => FileInv'
  BY FileStep
<1>3. QED
  BY <1>1, <1>2, FileTypes, PTL DEF Spec, BaseInv

------------------------------------------------------------------------------
(* FetchedWhole *)

\* A file that a poll announces, or a download reads, has the number of chunks it
\* was sent with.
LEMMA ReadySize ==
  ASSUME BaseInv, NEW fid, Ready(fid)
  PROVE  fid \in DOMAIN sent /\ SweptFiles[fid].total = sent[fid].total /\ sent[fid].total \in Nat \ {0}
<1>1. fid \in DOMAIN SweptFiles
  BY DEF Ready
<1>2. QED
  BY <1>1, SweptFile DEF FileOk

\* A download never has more pieces than the file, and ends with all of them.
LEMMA FetchStep ==
  ASSUME BaseInv, FetchInv, [Next]_vars
  PROVE  FetchInv'
<1>1. /\ \A fid \in DOMAIN download : download[fid] \in Nat /\ sent[fid].total \in Nat \ {0}
      /\ \A fid \in DOMAIN sent : sent[fid].total \in Nat \ {0}
  BY SizesAssumption DEF BaseInv, FRTypeOK, FetchInv, Sends
<1>2. ASSUME UNCHANGED <<sent, download, fetched>> PROVE FetchInv'
  BY <1>2 DEF FetchInv, FetchedWhole
<1>3. ASSUME NEW fid \in DOMAIN sent, NEW n \in Nat, n < sent[fid].total,
             download' = Put(download, fid, n), UNCHANGED sent,
             fetched' \subseteq fetched \cup {<<fid, sent[fid].total>>}
      PROVE  FetchInv'
  <2>1. ASSUME NEW f \in DOMAIN download'
        PROVE  f \in DOMAIN sent' /\ download'[f] < sent'[f].total
    BY <1>3, <2>1 DEF Put, FetchInv
  <2>2. \A f \in fetched' : f[1] \in DOMAIN sent' /\ f[2] = sent'[f[1]].total
    BY <1>3 DEF FetchInv, FetchedWhole
  <2>3. QED
    BY <2>1, <2>2 DEF FetchInv, FetchedWhole
<1>4. ASSUME NEW fid \in Fids, NEW to \in Users, NEW total \in Sizes, SendFile(fid, to, total)
      PROVE  FetchInv'
  <2>1. /\ \A f \in DOMAIN sent : f \in DOMAIN sent' /\ sent'[f] = sent[f]
        /\ UNCHANGED <<download, fetched>>
    BY <1>4 DEF SendFile, Put, history
  <2>2. QED
    BY <2>1 DEF FetchInv, FetchedWhole
<1>5. ASSUME NEW fid \in Fids, Receive(fid) \/ Timeout(fid) PROVE FetchInv'
  BY <1>2, <1>5 DEF Receive, Timeout, history
<1>6. ASSUME NEW fid \in Fids, DownloadTimeout(fid) PROVE FetchInv'
  <2>1. fid \in DOMAIN sent /\ download' = Put(download, fid, 0) /\ UNCHANGED <<sent, fetched>>
    BY <1>6 DEF DownloadTimeout, history, FetchInv
  <2>2. QED
    BY <1>1, <1>3, <2>1
<1>7. ASSUME NEW fid \in Fids, DownloadPiece(fid) PROVE FetchInv'
  <2> DEFINE n == download[fid] + 1
  <2>1. fid \in DOMAIN sent /\ n \in Nat /\ n - 1 < sent[fid].total /\ UNCHANGED sent
    BY <1>1, <1>7 DEF DownloadPiece, FetchInv
  <2>2. CASE download' = Put(download, fid, 0) /\ UNCHANGED fetched
    BY <1>1, <1>3, <2>1, <2>2
  <2>3. CASE /\ Ready(fid) /\ n >= SweptFiles[fid].total
             /\ fetched' = fetched \cup {<<fid, n>>} /\ download' = Put(download, fid, 0)
    <3>1. n = sent[fid].total
      BY <1>1, <2>1, <2>3, ReadySize
    <3>2. QED
      BY <1>1, <1>3, <2>1, <2>3, <3>1
  <2>4. CASE /\ Ready(fid) /\ ~(n >= SweptFiles[fid].total)
             /\ download' = Put(download, fid, n) /\ UNCHANGED fetched
    <3>1. n < sent[fid].total
      BY <1>1, <2>1, <2>4, ReadySize
    <3>2. QED
      BY <1>3, <2>1, <2>4, <3>1
  <2>5. QED
    BY <1>7, <2>2, <2>3, <2>4 DEF DownloadPiece
<1>8. ASSUME NEW u \in Users, PollFiles(u) PROVE FetchInv'
  <2> DEFINE fid == Head(SweptInbox[u])
  <2>1. UNCHANGED <<sent, fetched>>
    BY <1>8 DEF PollFiles
  <2>2. CASE UNCHANGED download
    BY <1>2, <2>1, <2>2
  <2>3. CASE Ready(fid) /\ download' = Put(download, fid, 0)
    BY <1>3, <2>1, <2>3, ReadySize
  <2>4. QED
    BY <1>8, <2>2, <2>3 DEF PollFiles
<1>9. ASSUME NEW r \in net, Serve(r) PROVE FetchInv'
  BY <1>2, <1>9 DEF Serve
<1>10. CASE OtherQuery \/ Tick \/ Restart \/ UNCHANGED vars
  BY <1>2, <1>10 DEF OtherQuery, Tick, Restart, vars, clientVars, history
<1>11. QED
  BY <1>4, <1>5, <1>6, <1>7, <1>8, <1>9, <1>10 DEF Next

\* A download that ends well has all of the file, whatever is swept, lost or
\* replaced between two pieces (download_file).
THEOREM WholeOrNothing == Spec => []FetchedWhole
<1>1. Init => FetchInv
  BY DEF Init, FetchInv, FetchedWhole, Nothing
<1>2. BaseInv /\ FetchInv /\ [Next]_vars => FetchInv'
  BY FetchStep
<1>3. FetchInv => FetchedWhole
  BY DEF FetchInv
<1>4. QED
  BY <1>1, <1>2, <1>3, BaseInductive, PTL DEF Spec

------------------------------------------------------------------------------
(* KeptForAddressee *)

\* A file that is not too old survives the sweep, and so does its pointer.
LEMMA SweepKeeps ==
  ASSUME BaseInv, NEW fid \in DOMAIN files, Awaits(fid), ~(now - files[fid].ts > FileTTL)
  PROVE  /\ fid \in DOMAIN SweptFiles /\ SweptFiles[fid] = files[fid]
         /\ fid \in Range(SweptInbox[files[fid].to])
         /\ fid \in Pending
<1> DEFINE to == files[fid].to
<1>1. to \in Users /\ inbox \in [Users -> Seq(Fids)]
  BY DEF BaseInv, FRTypeOK, FileRecords
<1>2. fid \in DOMAIN SweptFiles
  BY DEF SweptFiles, Without, Restrict
<1>3. SweptFiles[fid] = files[fid]
  BY <1>2, SweptTypes DEF BaseInv
<1>4. fid \in Range(inbox[to])
  BY DEF Awaits
<1> HIDE DEF to
<1>5. fid \in Range(SweptInbox[to])
  <2>1. inbox[to] \in Seq(Fids)
    BY <1>1
  <2>2. Range(Only(inbox[to], DOMAIN SweptFiles)) = Range(inbox[to]) \cap DOMAIN SweptFiles
    BY <2>1, OnlyElements
  <2>3. SweptInbox[to] = inbox[to] \/ SweptInbox[to] = Only(inbox[to], DOMAIN SweptFiles)
    BY <1>1 DEF SweptInbox
  <2>4. QED
    BY <1>2, <1>4, <2>2, <2>3
<1>6. QED
  BY <1>1, <1>2, <1>3, <1>5 DEF Pending, to

\* A request of an upload does not disturb a file that waits.
LEMMA ServeKeeps ==
  ASSUME BaseInv, NEW r \in net, Serve(r),
         NEW fid \in DOMAIN files, Awaits(fid), ~(now - files[fid].ts > FileTTL)
  PROVE  Awaits(fid)' \/ lateHeaders'[fid] > lateHeaders[fid]
<1> DEFINE to == files[fid].to
<1>1. /\ fid \in DOMAIN SweptFiles /\ SweptFiles[fid] = files[fid]
      /\ fid \in Range(SweptInbox[to]) /\ fid \in Pending /\ files[fid].complete
      /\ fid \in begun /\ lateHeaders[fid] \in Nat /\ to \in Users
  BY SweepKeeps, SweptFile DEF Awaits, FileOk, BaseInv, FileInv
<1>2. SweptInbox \in [Users -> Seq(Fids)] /\ lateHeaders \in [Fids -> Nat]
  BY SweptTypes DEF BaseInv, FRTypeOK
<1>3. ASSUME fid \in DOMAIN files', files'[fid] = files[fid], fid \in Range(inbox'[to])
      PROVE  Awaits(fid)'
  BY <1>1, <1>3 DEF Awaits
<1> HIDE DEF to
<1>4. CASE SweepOnly
  BY <1>1, <1>3, <1>4 DEF SweepOnly
<1>5. CASE OpenFile(r.fid)
  <2>1. CASE r.fid = fid
    <3>1. fid \in Fids
      BY DEF BaseInv, FRTypeOK
    <3>2. QED
      BY <1>1, <1>2, <1>5, <2>1, <3>1 DEF OpenFile
  <2>2. CASE r.fid # fid
    <3> DEFINE new == [to |-> sent[r.fid].to, total |-> sent[r.fid].total, got |-> {},
                       complete |-> FALSE, ts |-> now]
    <3>1. PICK victim \in Victims(r.fid) : files' = Put(Without(SweptFiles, victim), r.fid, new)
      BY <1>5 DEF OpenFile
    <3>2. fid \notin victim
      BY <1>1 DEF Victims, Evictable
    <3>3. fid \in DOMAIN files' /\ files'[fid] = files[fid]
      BY <1>1, <2>2, <3>1, <3>2 DEF Put, Without, Restrict
    <3>4. QED
      BY <1>1, <1>3, <1>5, <3>3 DEF OpenFile
  <2>3. QED
    BY <2>1, <2>2
<1>6. CASE StoreChunk(r.fid, r.step - 1)
  <2>1. r.fid # fid
    BY <1>1, <1>6 DEF StoreChunk
  <2>2. QED
    BY <1>1, <1>3, <1>6, <2>1 DEF StoreChunk
<1>7. CASE CompleteFile(r.fid, r.step - 1)
  <2> DEFINE seq == r.step - 1
             other == SweptFiles[r.fid].to
  <2>1. r.fid # fid
    BY <1>1, <1>7 DEF CompleteFile
  <2>2. fid \in DOMAIN files' /\ files'[fid] = files[fid]
    BY <1>1, <1>7, <2>1 DEF CompleteFile
  <2>3. /\ inbox' = [SweptInbox EXCEPT ![other] = Append(SweptInbox[other], r.fid)]
        /\ r.fid \in Fids
    BY <1>7 DEF CompleteFile, Serve, BaseInv, FRTypeOK
  <2> HIDE DEF other
  <2>4. CASE other # to
    BY <1>1, <1>2, <1>3, <2>2, <2>3, <2>4
  <2>5. CASE other = to
    <3> DEFINE s == SweptInbox[to]
    <3>1. s \in Seq(Fids) /\ inbox'[to] = Append(s, r.fid) /\ fid \in Range(s)
      BY <1>1, <1>2, <2>3, <2>5
    <3> HIDE DEF s
    <3>2. PICK i \in 1 .. Len(s) : s[i] = fid
      BY <3>1, LenProperties DEF Range
    <3>3. i \in DOMAIN Append(s, r.fid) /\ Append(s, r.fid)[i] = fid
      BY <2>3, <3>1, <3>2, AppendProperties, LenProperties
    <3>4. fid \in Range(inbox'[to])
      BY <3>1, <3>3 DEF Range
    <3>5. QED
      BY <1>3, <2>2, <3>4
  <2>6. QED
    BY <2>4, <2>5
<1>8. QED
  BY <1>4, <1>5, <1>6, <1>7 DEF Serve, RefuseHeader, RefuseChunk, AckChunk

\* A poll takes the file, or leaves it.
LEMMA PollKeeps ==
  ASSUME BaseInv, NEW u \in Users, PollFiles(u),
         NEW fid \in DOMAIN files, Awaits(fid), ~(now - files[fid].ts > FileTTL)
  PROVE  Awaits(fid)' \/ fid \in polled'
<1> DEFINE to == files[fid].to
           s == SweptInbox[u]
<1>1. /\ fid \in DOMAIN SweptFiles /\ SweptFiles[fid] = files[fid]
      /\ fid \in Range(SweptInbox[to]) /\ to \in Users /\ files[fid].complete
  BY SweepKeeps, SweptFile DEF Awaits
<1>2. SweptInbox \in [Users -> Seq(Fids)] /\ s # <<>>
  BY SweptTypes DEF BaseInv, PollFiles
<1>3. files' = SweptFiles /\ inbox' = [SweptInbox EXCEPT ![u] = Tail(s)]
  BY DEF PollFiles
<1>4. fid = Head(s) => fid \in polled'
  BY <1>1 DEF PollFiles, Ready
<1> HIDE DEF s
<1>5. ASSUME fid # Head(s), u = to PROVE fid \in Range(inbox'[to])
  <2>1. s \in Seq(Fids) /\ fid \in Range(s) /\ inbox'[to] = Tail(s)
    BY <1>1, <1>2, <1>3, <1>5 DEF s
  <2>2. PICK i \in 1 .. Len(s) : s[i] = fid
    BY <2>1, LenProperties DEF Range
  <2>3. i # 1 /\ Len(s) \in Nat
    BY <1>2, <1>5, <2>1, <2>2, HeadTailProperties, LenProperties
  <2>4. /\ Tail(s) \in Seq(Fids) /\ Len(Tail(s)) = Len(s) - 1
        /\ \A j \in 1 .. Len(Tail(s)) : Tail(s)[j] = s[j + 1]
    BY <1>2, <2>1, HeadTailProperties
  <2>5. i - 1 \in 1 .. Len(Tail(s)) /\ Tail(s)[i - 1] = fid
    BY <2>2, <2>3, <2>4
  <2>6. QED
    BY <2>1, <2>4, <2>5, LenProperties DEF Range
<1>6. u # to => fid \in Range(inbox'[to])
  BY <1>1, <1>2, <1>3
<1>7. fid \in Range(inbox'[to]) => Awaits(fid)'
  BY <1>1, <1>3 DEF Awaits
<1>8. QED
  BY <1>4, <1>5, <1>6, <1>7

\* A complete file waits for its addressee, pointer and data, until a poll takes
\* it, it is too old, the relay restarts or, in that step, a header of its own comes
\* late (_h_fheader).
THEOREM WaitsForAddressee == Spec => KeptForAddressee
<1> DEFINE Keeps ==
      \A fid \in DOMAIN files : Awaits(fid) =>
        \/ Awaits(fid)'
        \/ fid \in polled'
        \/ lateHeaders'[fid] > lateHeaders[fid]
        \/ restarts' # restarts
        \/ now - files[fid].ts > FileTTL
<1>1. BaseInv /\ [Next]_vars => [Keeps]_vars
  <2> SUFFICES ASSUME BaseInv, [Next]_vars, NEW fid \in DOMAIN files, Awaits(fid),
                      ~(now - files[fid].ts > FileTTL), restarts' = restarts,
                      vars' # vars
               PROVE  Awaits(fid)' \/ fid \in polled' \/ lateHeaders'[fid] > lateHeaders[fid]
    OBVIOUS
  <2>1. UNCHANGED <<files, inbox>> => Awaits(fid)'
    BY DEF Awaits
  <2>2. SweepOnly => Awaits(fid)'
    BY SweepKeeps DEF SweepOnly, Awaits
  <2>3. ASSUME NEW f \in Fids, DownloadPiece(f) PROVE Awaits(fid)'
    BY <2>2, <2>3 DEF DownloadPiece
  <2>4. ASSUME NEW f \in Fids,
               (\E to \in Users, total \in Sizes : SendFile(f, to, total))
                 \/ Receive(f) \/ Timeout(f) \/ DownloadTimeout(f)
        PROVE  Awaits(fid)'
    BY <2>1, <2>4 DEF SendFile, Receive, Timeout, DownloadTimeout, relayVars
  <2>5. ASSUME NEW r \in net, Serve(r) PROVE Awaits(fid)' \/ lateHeaders'[fid] > lateHeaders[fid]
    BY <2>5, ServeKeeps
  <2>6. ASSUME NEW u \in Users, PollFiles(u) PROVE Awaits(fid)' \/ fid \in polled'
    BY <2>6, PollKeeps
  <2>7. CASE OtherQuery
    BY <2>2, <2>7 DEF OtherQuery
  <2>8. CASE Tick
    BY <2>1, <2>8 DEF Tick, relayVars
  <2>9. ~Restart
    BY DEF Restart, BaseInv, FRTypeOK
  <2>10. QED
    BY <2>3, <2>4, <2>5, <2>6, <2>7, <2>8, <2>9 DEF Next
<1>2. QED
  BY <1>1, BaseInductive, PTL DEF Spec, KeptForAddressee

------------------------------------------------------------------------------
(* AnnouncedOnce *)

\* Lists of which every one is part of the list in b, in its order.
LEMMA PointersFewer ==
  ASSUME NEW b \in [Users -> Seq(Fids)], NEW c \in [Users -> Seq(Fids)],
         NEW pol, NEW late, NEW com, PointersOk(b, pol, late, com),
         \A u \in Users : c[u] = b[u] \/ \E T : c[u] = Only(b[u], T)
  PROVE  PointersOk(c, pol, late, com)
<1>1. ASSUME NEW u \in Users
      PROVE  \E at : /\ \A n \in DOMAIN c[u] : at[n] \in DOMAIN b[u] /\ c[u][n] = b[u][at[n]]
                     /\ \A n, m \in DOMAIN c[u] : at[n] = at[m] => n = m
  <2>1. b[u] \in Seq(Fids) /\ c[u] \in Seq(Fids)
    OBVIOUS
  <2>2. /\ DOMAIN c[u] = 1 .. Len(c[u]) /\ Len(c[u]) \in Nat
        /\ DOMAIN b[u] = 1 .. Len(b[u]) /\ Len(b[u]) \in Nat
    BY <2>1, LenProperties
  <2>3. CASE c[u] = b[u]
    <3> DEFINE at == [n \in DOMAIN c[u] |-> n]
    <3>1. /\ \A n \in DOMAIN c[u] : at[n] \in DOMAIN b[u] /\ c[u][n] = b[u][at[n]]
          /\ \A n, m \in DOMAIN c[u] : at[n] = at[m] => n = m
      BY <2>3
    <3>2. QED
      BY <3>1
  <2>4. CASE \E T : c[u] = Only(b[u], T)
    <3>1. PICK T : c[u] = Only(b[u], T)
      BY <2>4
    <3>2. PICK at : Selects(at, b[u], T, c[u])
      BY <2>1, <3>1, OnlyProperties
    <3>3. \A n \in DOMAIN c[u] : at[n] \in DOMAIN b[u] /\ c[u][n] = b[u][at[n]]
      BY <2>2, <3>2 DEF Selects
    <3>4. \A n, m \in DOMAIN c[u] : n < m => at[n] < at[m]
      BY <2>2, <3>2 DEF Selects
    <3>5. \A n, m \in DOMAIN c[u] : at[n] = at[m] => n = m
      <4> SUFFICES ASSUME NEW n \in DOMAIN c[u], NEW m \in DOMAIN c[u], n # m
                   PROVE  at[n] # at[m]
        OBVIOUS
      <4>1. n < m \/ m < n
        BY <2>2
      <4>2. at[n] \in Int /\ at[m] \in Int
        BY <2>2, <3>3
      <4>3. QED
        BY <3>4, <4>1, <4>2
    <3>6. QED
      BY <3>3, <3>5
  <2>5. QED
    BY <2>3, <2>4
<1>2. \A u \in Users : \A i \in DOMAIN c[u] : c[u][i] \in com
  BY <1>1 DEF PointersOk
<1>3. ASSUME NEW u \in Users, NEW v \in Users, NEW i \in DOMAIN c[u], NEW j \in DOMAIN c[v],
             ~(late[c[u][i]] > 0)
      PROVE  /\ c[u][i] \notin pol
             /\ c[u][i] = c[v][j] => u = v /\ i = j
  <2>1. PICK at : /\ \A n \in DOMAIN c[u] : at[n] \in DOMAIN b[u] /\ c[u][n] = b[u][at[n]]
                  /\ \A n, m \in DOMAIN c[u] : at[n] = at[m] => n = m
    BY <1>1
  <2>2. PICK bt : \A n \in DOMAIN c[v] : bt[n] \in DOMAIN b[v] /\ c[v][n] = b[v][bt[n]]
    BY <1>1
  <2>3. c[u][i] \notin pol
    BY <1>3, <2>1 DEF PointersOk
  <2>4. ASSUME c[u][i] = c[v][j] PROVE u = v
    <3>1. /\ at[i] \in DOMAIN b[u] /\ bt[j] \in DOMAIN b[v]
          /\ ~(late[b[u][at[i]]] > 0) /\ b[u][at[i]] = b[v][bt[j]]
      BY <1>3, <2>1, <2>2, <2>4
    <3>2. QED
      BY <3>1 DEF PointersOk
  <2>5. ASSUME c[u][i] = c[v][j] PROVE i = j
    <3>1. u = v
      BY <2>4, <2>5
    <3>2. at[i] = at[j]
      BY <1>3, <2>1, <2>5, <3>1 DEF PointersOk
    <3>3. QED
      BY <2>1, <3>1, <3>2
  <2>6. QED
    BY <2>3, <2>4, <2>5
<1>4. QED
  BY <1>2, <1>3 DEF PointersOk

\* A new pointer, to a file that was never complete before, or has a late header.
LEMMA PointersMore ==
  ASSUME NEW b \in [Users -> Seq(Fids)], NEW pol, NEW late, NEW com, PointersOk(b, pol, late, com),
         NEW u \in Users, NEW fid \in Fids, fid \in com => late[fid] > 0, pol \subseteq com
  PROVE  PointersOk([b EXCEPT ![u] = Append(b[u], fid)], pol, late, com \cup {fid})
<1> DEFINE c == [b EXCEPT ![u] = Append(b[u], fid)]
           last == Len(b[u]) + 1
<1>1. /\ \A v \in Users : v # u => c[v] = b[v]
      /\ DOMAIN c[u] = DOMAIN b[u] \cup {last} /\ last \notin DOMAIN b[u]
      /\ \A i \in DOMAIN b[u] : c[u][i] = b[u][i]
      /\ c[u][last] = fid
  <2>1. b[u] \in Seq(Fids) /\ c[u] = Append(b[u], fid) /\ \A v \in Users : v # u => c[v] = b[v]
    OBVIOUS
  <2>2. DOMAIN b[u] = 1 .. Len(b[u]) /\ Len(b[u]) \in Nat
    BY <2>1, LenProperties
  <2>3. /\ Append(b[u], fid) \in Seq(Fids) /\ Len(Append(b[u], fid)) = Len(b[u]) + 1
        /\ \A i \in 1 .. Len(b[u]) : Append(b[u], fid)[i] = b[u][i]
        /\ Append(b[u], fid)[Len(b[u]) + 1] = fid
    BY <2>1, AppendProperties
  <2>4. DOMAIN Append(b[u], fid) = 1 .. (Len(b[u]) + 1)
    BY <2>3, LenProperties
  <2>5. QED
    BY <2>1, <2>2, <2>3, <2>4
<1> HIDE DEF c, last
<1>2. ASSUME NEW v \in Users, NEW i \in DOMAIN c[v]
      PROVE  \/ i \in DOMAIN b[v] /\ c[v][i] = b[v][i] /\ b[v][i] \in com
             \/ v = u /\ i = last /\ c[v][i] = fid
  BY <1>1, <1>2 DEF PointersOk
<1>3. \A v \in Users : \A i \in DOMAIN c[v] : c[v][i] \in com \cup {fid}
  BY <1>2
<1>4. ASSUME NEW v \in Users, NEW w \in Users, NEW i \in DOMAIN c[v], NEW j \in DOMAIN c[w],
             ~(late[c[v][i]] > 0)
      PROVE  /\ c[v][i] \notin pol
             /\ c[v][i] = c[w][j] => v = w /\ i = j
  <2>1. CASE i \in DOMAIN b[v] /\ c[v][i] = b[v][i] /\ b[v][i] \in com
    <3>1. CASE j \in DOMAIN b[w] /\ c[w][j] = b[w][j]
      BY <1>4, <2>1, <3>1 DEF PointersOk
    <3>2. CASE w = u /\ j = last /\ c[w][j] = fid
      BY <1>4, <2>1, <3>2 DEF PointersOk
    <3>3. QED
      BY <1>2, <3>1, <3>2
  <2>2. CASE v = u /\ i = last /\ c[v][i] = fid
    <3>1. fid \notin com
      BY <1>4, <2>2
    <3>2. QED
      BY <1>2, <2>2, <3>1
  <2>3. QED
    BY <1>2, <2>1, <2>2
<1>5. QED
  BY <1>3, <1>4 DEF PointersOk, c

\* The first pointer is taken out.
LEMMA PointersTaken ==
  ASSUME NEW b \in [Users -> Seq(Fids)], NEW pol, NEW late, NEW com, PointersOk(b, pol, late, com),
         NEW u \in Users, b[u] # <<>>, NEW more \in SUBSET {Head(b[u])}
  PROVE  /\ PointersOk([b EXCEPT ![u] = Tail(b[u])], pol \cup more, late, com)
         /\ Head(b[u]) \in com
<1> DEFINE c == [b EXCEPT ![u] = Tail(b[u])]
           d(v) == IF v = u THEN 1 ELSE 0
<1>1. /\ 1 \in DOMAIN b[u] /\ Head(b[u]) = b[u][1]
      /\ \A v \in Users : \A i \in DOMAIN c[v] :
           /\ i \in Nat \ {0} /\ i + d(v) \in DOMAIN b[v] /\ c[v][i] = b[v][i + d(v)]
  <2>1. b[u] \in Seq(Fids) /\ c[u] = Tail(b[u]) /\ \A v \in Users : v # u => c[v] = b[v]
    OBVIOUS
  <2>2. \A v \in Users : DOMAIN b[v] = 1 .. Len(b[v]) /\ Len(b[v]) \in Nat
    BY LenProperties
  <2>3. /\ Head(b[u]) = b[u][1] /\ Len(b[u]) > 0
        /\ Tail(b[u]) \in Seq(Fids) /\ Len(Tail(b[u])) = Len(b[u]) - 1
        /\ \A j \in 1 .. Len(Tail(b[u])) : Tail(b[u])[j] = b[u][j + 1]
    BY <2>1, <2>2, HeadTailProperties, EmptySeq
  <2>4. DOMAIN Tail(b[u]) = 1 .. (Len(b[u]) - 1)
    BY <2>3, LenProperties
  <2> HIDE DEF c
  <2>5. ASSUME NEW v \in Users, NEW i \in DOMAIN c[v]
        PROVE  /\ i \in Nat \ {0} /\ i + d(v) \in DOMAIN b[v] /\ c[v][i] = b[v][i + d(v)]
    BY <2>1, <2>2, <2>3, <2>4, SMTT(30)
  <2>6. QED
    BY <2>2, <2>3, <2>5
<1> HIDE DEF c
<1>2. \A v \in Users : \A i \in DOMAIN c[v] : c[v][i] \in com
  BY <1>1 DEF PointersOk
<1>3. ASSUME NEW v \in Users, NEW w \in Users, NEW i \in DOMAIN c[v], NEW j \in DOMAIN c[w],
             ~(late[c[v][i]] > 0)
      PROVE  /\ c[v][i] \notin pol \cup more
             /\ c[v][i] = c[w][j] => v = w /\ i = j
  <2>1. /\ i + d(v) \in DOMAIN b[v] /\ c[v][i] = b[v][i + d(v)] /\ ~(late[b[v][i + d(v)]] > 0)
        /\ j + d(w) \in DOMAIN b[w] /\ c[w][j] = b[w][j + d(w)]
    BY <1>1, <1>3
  <2>2. c[v][i] \notin pol
    BY <2>1 DEF PointersOk
  <2>3. c[v][i] # Head(b[u])
    <3>1. ~(v = u /\ i + d(v) = 1)
      BY <1>1
    <3>2. QED
      BY <1>1, <2>1, <3>1 DEF PointersOk
  <2>4. ASSUME c[v][i] = c[w][j] PROVE v = w /\ i = j
    <3> DEFINE m == i + d(v)
               n == j + d(w)
    <3>1. /\ m \in DOMAIN b[v] /\ n \in DOMAIN b[w]
          /\ ~(late[b[v][m]] > 0) /\ b[v][m] = b[w][n]
      BY <2>1, <2>4
    <3> HIDE DEF m, n
    <3>2. v = w /\ m = n
      BY <3>1 DEF PointersOk
    <3>3. i \in Nat /\ j \in Nat
      BY <1>1
    <3>4. QED
      BY <3>2, <3>3 DEF m, n
  <2>5. QED
    BY <2>2, <2>3, <2>4
<1>4. Head(b[u]) \in com
  BY <1>1 DEF PointersOk
<1>5. QED
  BY <1>2, <1>3, <1>4 DEF PointersOk, c

\* A header that is taken again.
LEMMA PointersOpened ==
  ASSUME NEW b \in [Users -> Seq(Fids)], NEW pol, NEW late \in [Fids -> Nat], NEW com,
         PointersOk(b, pol, late, com), NEW fid \in Fids
  PROVE  PointersOk(b, pol, [late EXCEPT ![fid] = late[fid] + 1], com)
<1> DEFINE new == [late EXCEPT ![fid] = late[fid] + 1]
<1>1. \A f \in Fids : ~(new[f] > 0) => ~(late[f] > 0)
  OBVIOUS
<1>2. \A u \in Users : \A i \in DOMAIN b[u] : b[u][i] \in Fids
  <2> SUFFICES ASSUME NEW u \in Users, NEW i \in DOMAIN b[u] PROVE b[u][i] \in Fids
    OBVIOUS
  <2>1. b[u] \in Seq(Fids)
    OBVIOUS
  <2>2. QED
    BY <2>1, LenProperties
<1> HIDE DEF new
<1>3. QED
  BY <1>1, <1>2 DEF PointersOk, new

\* The sweep leaves of every inbox a part.
LEMMA PointersSwept ==
  ASSUME BaseInv, AnnounceInv
  PROVE  /\ PointersOk(SweptInbox, polled, lateHeaders, CompletedFids)
         /\ SweptInbox \in [Users -> Seq(Fids)] /\ lateHeaders \in [Fids -> Nat]
         /\ polled \subseteq CompletedFids
<1>1. /\ inbox \in [Users -> Seq(Fids)] /\ SweptInbox \in [Users -> Seq(Fids)]
      /\ lateHeaders \in [Fids -> Nat]
  BY SweptTypes DEF BaseInv, FRTypeOK
<1>2. \A u \in Users : SweptInbox[u] = inbox[u] \/ \E T : SweptInbox[u] = Only(inbox[u], T)
  BY <1>1 DEF SweptInbox
<1>3. PointersOk(inbox, polled, lateHeaders, CompletedFids) /\ polled \subseteq CompletedFids
  BY DEF AnnounceInv
<1>4. PointersOk(SweptInbox, polled, lateHeaders, CompletedFids)
  BY <1>1, <1>2, <1>3, PointersFewer
<1>5. QED
  BY <1>1, <1>3, <1>4

\* A pointer is made for a file that had none, and is taken once.
LEMMA AnnounceStep ==
  ASSUME BaseInv, AnnounceInv, [Next]_vars
  PROVE  AnnounceInv'
<1>1. /\ PointersOk(SweptInbox, polled, lateHeaders, CompletedFids)
      /\ SweptInbox \in [Users -> Seq(Fids)] /\ lateHeaders \in [Fids -> Nat]
      /\ polled \subseteq CompletedFids
  BY PointersSwept
<1>2. ASSUME PointersOk(inbox', polled', lateHeaders', CompletedFids'),
             polled' \subseteq CompletedFids'
      PROVE  AnnounceInv'
  BY <1>2 DEF AnnounceInv, PointersOk
<1>3. ASSUME UNCHANGED <<inbox, polled, begun, lateHeaders, announced>> PROVE AnnounceInv'
  BY <1>3 DEF AnnounceInv, PointersOk, CompletedFids, Completed
<1>4. ASSUME SweepOnly, UNCHANGED polled PROVE AnnounceInv'
  BY <1>1, <1>2, <1>4 DEF SweepOnly, CompletedFids, Completed
<1>5. ASSUME NEW fid \in Fids,
             (\E to \in Users, total \in Sizes : SendFile(fid, to, total))
               \/ Receive(fid) \/ Timeout(fid) \/ DownloadTimeout(fid)
      PROVE  AnnounceInv'
  BY <1>3, <1>5 DEF SendFile, Receive, Timeout, DownloadTimeout, relayVars, history
<1>6. ASSUME NEW fid \in Fids, DownloadPiece(fid) PROVE AnnounceInv'
  BY <1>4, <1>6 DEF DownloadPiece
<1>7. ASSUME NEW r \in net, Serve(r) PROVE AnnounceInv'
  <2> DEFINE fid == r.fid
  <2>1. fid \in Fids /\ UNCHANGED polled
    BY <1>7 DEF Serve, BaseInv, FRTypeOK
  <2> HIDE DEF fid
  <2>2. CASE SweepOnly
    BY <1>4, <2>1, <2>2
  <2>3. CASE OpenFile(fid)
    <3>1. /\ inbox' = SweptInbox /\ CompletedFids' = CompletedFids
          /\ lateHeaders' \in {lateHeaders, [lateHeaders EXCEPT ![fid] = lateHeaders[fid] + 1]}
      BY <2>3 DEF OpenFile, CompletedFids, Completed
    <3>2. PointersOk(SweptInbox, polled, [lateHeaders EXCEPT ![fid] = lateHeaders[fid] + 1],
                     CompletedFids)
      BY <1>1, <2>1, PointersOpened
    <3>3. QED
      BY <1>1, <1>2, <2>1, <3>1, <3>2
  <2>4. CASE StoreChunk(fid, r.step - 1)
    BY <1>1, <1>2, <2>1, <2>4 DEF StoreChunk, CompletedFids, Completed
  <2>5. CASE CompleteFile(fid, r.step - 1)
    <3> DEFINE u == SweptFiles[fid].to
    <3>1. /\ inbox' = [SweptInbox EXCEPT ![u] = Append(SweptInbox[u], fid)]
          /\ announced' = [announced EXCEPT ![fid] = announced[fid] + 1] /\ UNCHANGED lateHeaders
          /\ fid \in DOMAIN SweptFiles /\ ~SweptFiles[fid].complete
      BY <2>5 DEF CompleteFile
    <3>2. /\ SweptFiles[fid] = files[fid] /\ u \in Users /\ FileOk(fid)
      BY <3>1, SweptFile
    <3>3. fid \in CompletedFids => lateHeaders[fid] > 0
      BY <3>1, <3>2, SweptFile DEF FileOk, CompletedFids, Completed
    <3>6. CompletedFids' = CompletedFids \cup {fid}
      <4>1. announced \in [Fids -> Nat]
        BY DEF BaseInv, FRTypeOK
      <4>2. /\ announced'[fid] > 0
            /\ \A f \in Fids : f # fid => announced'[f] = announced[f]
        BY <2>1, <3>1, <4>1
      <4>3. QED
        BY <2>1, <4>2 DEF CompletedFids, Completed
    <3> HIDE DEF u
    <3>4. PointersOk([SweptInbox EXCEPT ![u] = Append(SweptInbox[u], fid)], polled, lateHeaders,
                     CompletedFids \cup {fid})
      BY <1>1, <2>1, <3>2, <3>3, PointersMore
    <3>5. QED
      BY <1>1, <1>2, <2>1, <3>1, <3>4, <3>6
  <2>6. QED
    BY <1>7, <2>2, <2>3, <2>4, <2>5 DEF Serve, RefuseHeader, RefuseChunk, AckChunk, fid
<1>8. ASSUME NEW u \in Users, PollFiles(u) PROVE AnnounceInv'
  <2>1. PICK more \in SUBSET {Head(SweptInbox[u])} : polled' = polled \cup more
    <3>1. polled' = polled \cup {} \/ polled' = polled \cup {Head(SweptInbox[u])}
      BY <1>8 DEF PollFiles
    <3>2. QED
      BY <3>1
  <2>2. /\ inbox' = [SweptInbox EXCEPT ![u] = Tail(SweptInbox[u])] /\ SweptInbox[u] # <<>>
        /\ UNCHANGED <<begun, lateHeaders, announced>>
    BY <1>8 DEF PollFiles
  <2>3. /\ PointersOk([SweptInbox EXCEPT ![u] = Tail(SweptInbox[u])], polled \cup more, lateHeaders, CompletedFids)
        /\ Head(SweptInbox[u]) \in CompletedFids
    BY <1>1, <2>2, PointersTaken
  <2>4. QED
    BY <1>1, <1>2, <2>1, <2>2, <2>3 DEF CompletedFids, Completed
<1>9. CASE OtherQuery
  BY <1>4, <1>9 DEF OtherQuery
<1>10. CASE Restart
  <2>1. \A u \in Users : DOMAIN inbox'[u] = {}
    BY <1>10 DEF Restart
  <2>2. UNCHANGED <<polled, begun, lateHeaders, announced>>
    BY <1>10 DEF Restart, history
  <2>3. QED
    BY <1>1, <1>2, <2>1, <2>2 DEF PointersOk, CompletedFids, Completed
<1>11. CASE Tick \/ UNCHANGED vars
  BY <1>3, <1>11 DEF Tick, vars, relayVars, history
<1>12. QED
  BY <1>5, <1>6, <1>7, <1>8, <1>9, <1>10, <1>11 DEF Next

\* A file is announced at most once, whatever is tried again or comes late, and once
\* more at most for each header that comes after a chunk; without such a header its
\* pointer is in one inbox, once, or was taken.
THEOREM AnnouncedAtMostOnce == Spec => []AnnouncedOnce
<1>1. Init => AnnounceInv
  BY DEF Init, AnnounceInv, PointersOk
<1>2. BaseInv /\ AnnounceInv /\ [Next]_vars => AnnounceInv'
  BY AnnounceStep
<1>3. BaseInv /\ AnnounceInv => AnnouncedOnce
  BY DEF BaseInv, FileInv, AnnounceInv, PointersOk, AnnouncedOnce, Reopened
<1>4. QED
  BY <1>1, <1>2, <1>3, BaseInductive, PTL DEF Spec

------------------------------------------------------------------------------
(* OkUnlessReopened *)

\* A step after which no more is confirmed, and the relay has as much as before, or
\* nothing.
LEMMA CoveredKept ==
  ASSUME NEW fid, Covered(fid), fid \in DOMAIN sent, sent'[fid] = sent[fid],
         sent[fid].total \in Nat,
         \A s \in Nat : Confirmed(fid, s)' => Confirmed(fid, s),
         lateHeaders'[fid] = lateHeaders[fid], announced'[fid] = announced[fid], begun \subseteq begun',
         fid \in DOMAIN files' => fid \in DOMAIN files /\ files'[fid] = files[fid]
  PROVE  Covered(fid)'
<1>1. \A s \in Nat : Confirmed(fid, s)' => Confirmed(fid, s)
  OBVIOUS
<1>2. \A s \in 1 .. sent[fid].total : s \in Nat
  OBVIOUS
<1>3. Confirmed(fid, 1)' => Confirmed(fid, 1)
  BY <1>1
<1> DEFINE n == sent[fid].total
<1>4. ASSUME NEW m, m = n, Confirmed(fid, m)' PROVE Confirmed(fid, n)
  BY <1>1, <1>4
<1>5. Confirmed(fid, 1)' => fid \in begun'
  BY <1>3 DEF Covered
<1>6. ASSUME ~Completed(fid)', ~Reopened(fid)'
      PROVE  /\ ~Confirmed(fid, sent[fid].total)'
             /\ fid \in DOMAIN files' =>
                  \A s \in 1 .. sent'[fid].total : Confirmed(fid, s)' => s - 1 \in files'[fid].got
  <2>1. /\ ~Confirmed(fid, sent[fid].total)
        /\ fid \in DOMAIN files =>
             \A s \in 1 .. sent[fid].total : Confirmed(fid, s) => s - 1 \in files[fid].got
    BY <1>6 DEF Covered, Reopened, Completed
  <2>2. ~Confirmed(fid, sent[fid].total)'
    BY <1>4, <2>1 DEF Confirmed
  <2>3. QED
    BY <1>1, <1>2, <2>1, <2>2
<1>7. QED
  BY <1>5, <1>6 DEF Covered

\* The upload of a request that the relay serves.
LEMMA ServeCovered ==
  ASSUME BaseInv, UploadInv, NEW r \in net, Serve(r),
         NEW fid, fid = r.fid, upload[fid] # Idle
  PROVE  Covered(fid)'
<1> DEFINE n == sent[fid].total
<1>1. /\ fid \in Fids /\ fid \in DOMAIN sent /\ n \in Nat \ {0} /\ r.step \in 0 .. n
      /\ UNCHANGED <<sent, upload>> /\ Covered(fid) /\ upload[fid].step \in 0 .. n
      /\ upload[fid] # Idle
      /\ announced \in [Fids -> Nat] /\ lateHeaders \in [Fids -> Nat]
      /\ answer \in [Fids -> {NoAnswer, "OK", "ERR"}]
  <2>1. fid \in Fids /\ fid \in DOMAIN sent /\ r.step \in 0 .. n
    BY DEF BaseInv, FRTypeOK, WireInv
  <2>2. n \in Nat \ {0}
    BY <2>1, SizesAssumption DEF BaseInv, FRTypeOK, Sends
  <2>3. UNCHANGED <<sent, upload>> /\ Covered(fid) /\ upload[fid].step \in 0 .. n
    BY <2>1 DEF Serve, UploadInv, BaseInv, WireInv
  <2>4. QED
    BY <2>1, <2>2, <2>3 DEF BaseInv, FRTypeOK
<1> HIDE DEF n
<1>2. ASSUME answer' = answer \/ Answer(r, "ERR"), NEW s \in Nat, Confirmed(fid, s)'
      PROVE  Confirmed(fid, s)
  BY <1>1, <1>2 DEF Confirmed, Answer
<1>3. ASSUME Answer(r, "OK"), NEW s \in Nat, Confirmed(fid, s)'
      PROVE  Confirmed(fid, s) \/ (s = r.step /\ upload[fid].step = r.step)
  BY <1>1, <1>3 DEF Confirmed, Answer
<1>4. \A f \in DOMAIN SweptFiles : SweptFiles[f] = files[f] /\ f \in DOMAIN files /\ FileOk(f)
  BY SweptFile
<1>5. n = sent[fid].total /\ n = sent'[fid].total
  BY <1>1 DEF n
<1>6. ASSUME Completed(fid)', fid \in begun' PROVE Covered(fid)'
  BY <1>6 DEF Covered
<1>7. CASE SweepOnly /\ Answer(r, "ERR")
  <2>1. /\ UNCHANGED <<begun, lateHeaders, announced>>
        /\ fid \in DOMAIN files' => fid \in DOMAIN files /\ files'[fid] = files[fid]
    BY <1>4, <1>7 DEF SweepOnly
  <2>2. sent[fid].total \in Nat
    BY <1>1 DEF n
  <2>3. QED
    BY <1>1, <1>2, <1>7, <2>1, <2>2, CoveredKept
<1>8. CASE AckChunk(fid, r.step - 1)
  BY <1>1, <1>4, <1>6, <1>8 DEF AckChunk, SweepOnly, FileOk, BaseInv, FileInv, Completed
<1>9. CASE OpenFile(fid) /\ Answer(r, "OK") /\ r.step = 0
  <2>1. /\ UNCHANGED <<begun, announced>>
        /\ fid \in begun => lateHeaders'[fid] > 0
    BY <1>1, <1>9 DEF OpenFile
  <2>2. ASSUME ~Reopened(fid)', NEW s \in Nat, s > 0 PROVE ~Confirmed(fid, s)'
    <3>1. fid \notin begun
      BY <2>1, <2>2 DEF Reopened
    <3>2. ~Confirmed(fid, 1)
      BY <1>1, <3>1 DEF Covered
    <3>3. ~(1 < upload[fid].step) /\ upload'[fid] = upload[fid]
      BY <1>1, <3>2 DEF Confirmed
    <3>6. answer'[fid] = answer[fid] \/ upload[fid].step = 0
      BY <1>1, <1>9 DEF Answer
    <3>4. /\ ~(s < upload[fid].step)
          /\ s = upload[fid].step => ~(answer'[fid] = "OK" /\ answer'[fid] # NoAnswer)
      BY <1>1, <2>2, <3>2, <3>3, <3>6 DEF Confirmed
    <3>5. QED
      BY <3>3, <3>4 DEF Confirmed
  <2>3. ASSUME ~Reopened(fid)'
        PROVE  /\ ~Confirmed(fid, sent[fid].total)'
               /\ \A s \in 1 .. sent'[fid].total : ~Confirmed(fid, s)'
    <3>1. ASSUME NEW m, m = n PROVE ~Confirmed(fid, m)'
      BY <1>1, <2>2, <2>3, <3>1
    <3>2. \A s \in 1 .. n : s \in Nat /\ s > 0
      BY <1>1
    <3>3. \A s \in 1 .. n : ~Confirmed(fid, s)'
      BY <2>2, <2>3, <3>2
    <3>4. ~Confirmed(fid, sent[fid].total)'
      BY <1>5, <3>1 DEF Confirmed
    <3>5. QED
      BY <1>5, <3>3, <3>4
  <2>4. Confirmed(fid, 1)' => fid \in begun'
    BY <1>1, <1>9, <2>1 DEF Covered, Confirmed, Answer
  <2>5. QED
    BY <2>3, <2>4 DEF Covered
<1>10. CASE StoreChunk(fid, r.step - 1) /\ Answer(r, "OK") /\ r.step > 0
  <2> DEFINE seq == r.step - 1
             got == files[fid].got
  <2>1. /\ fid \in DOMAIN SweptFiles /\ fid \in DOMAIN files /\ FileOk(fid)
        /\ UNCHANGED <<lateHeaders, announced>> /\ fid \in begun'
    BY <1>4, <1>10 DEF StoreChunk
  <2>2. seq \in 0 .. sent[fid].total - 1
    BY <1>1, <1>5, <1>10
  <2>3. FileInv' /\ files'[fid].got = got \cup {seq}
    BY <1>1, <1>10, <2>2, StoreFileInv
  <2>4. fid \in DOMAIN files' /\ ~files'[fid].complete
    BY <1>4, <1>10, <2>1, SweptFile DEF StoreChunk, FileRecords
  <2>5. files'[fid].got # 0 .. n - 1 /\ files'[fid].got \subseteq 0 .. n - 1
    BY <1>5, <2>3, <2>4 DEF FileInv, FileOk
  <2> HIDE DEF got, seq
  <2>6. ASSUME ~Completed(fid)', ~Reopened(fid)'
        PROVE  /\ \A s \in 1 .. n : Confirmed(fid, s)' => s - 1 \in files'[fid].got
               /\ \A m : m = n => ~Confirmed(fid, m)'
    <3>1. /\ ~Confirmed(fid, n)
          /\ \A s \in 1 .. n : Confirmed(fid, s) => s - 1 \in got
      BY <1>1, <1>5, <2>1, <2>6 DEF Covered, Reopened, Completed, got
    <3>2. ASSUME NEW s \in 1 .. n, Confirmed(fid, s)' PROVE s - 1 \in files'[fid].got
      <4>1. s \in Nat
        BY <1>1
      <4>2. Confirmed(fid, s) \/ s = r.step
        BY <1>3, <1>10, <3>2, <4>1
      <4>3. QED
        BY <2>3, <3>1, <4>2 DEF seq
    <3>3. ASSUME NEW m, m = n, Confirmed(fid, m)' PROVE FALSE
      <4>1. n = r.step /\ upload[fid].step = n
        BY <1>1, <1>3, <1>10, <3>1, <3>3
      <4>2. \A s \in 1 .. n : s # n => Confirmed(fid, s)
        BY <1>1, <4>1 DEF Confirmed
      <4>3. \A i \in 0 .. n - 1 : i + 1 \in 1 .. n /\ i = (i + 1) - 1 /\ (i # n - 1 => i + 1 # n)
        BY <1>1
      <4>4. \A i \in 0 .. n - 1 : i # n - 1 => i \in got
        BY <3>1, <4>2, <4>3
      <4>5. 0 .. n - 1 \subseteq files'[fid].got
        BY <2>3, <4>1, <4>4 DEF seq
      <4>6. QED
        BY <2>5, <4>5
    <3>4. QED
      BY <3>2, <3>3
  <2>7. ASSUME ~Completed(fid)', ~Reopened(fid)'
        PROVE  /\ ~Confirmed(fid, sent[fid].total)'
               /\ \A s \in 1 .. sent'[fid].total : Confirmed(fid, s)' => s - 1 \in files'[fid].got
    <3>1. ~Confirmed(fid, sent[fid].total)'
      BY <1>5, <2>6, <2>7 DEF Confirmed
    <3>2. QED
      BY <1>5, <2>6, <2>7, <3>1
  <2>8. QED
    BY <2>1, <2>7 DEF Covered
<1>11. CASE CompleteFile(fid, r.step - 1)
  BY <1>1, <1>6, <1>11 DEF CompleteFile, Completed
<1>12. QED
  BY <1>7, <1>8, <1>9, <1>10, <1>11 DEF Serve, RefuseHeader, RefuseChunk

\* What is confirmed of an upload is at the relay after every step.
LEMMA UploadStep ==
  ASSUME BaseInv, UploadInv, [Next]_vars
  PROVE  UploadInv'
<1> DEFINE Covers == \A fid \in Fids : upload[fid] # Idle => Covered(fid)
<1>1. /\ \A fid \in Fids : upload[fid] # Idle =>
           /\ Covered(fid) /\ fid \in DOMAIN sent /\ upload[fid].step \in 0 .. sent[fid].total
      /\ \A fid \in DOMAIN sent : sent[fid].total \in Nat \ {0}
      /\ announced \in [Fids -> Nat] /\ lateHeaders \in [Fids -> Nat]
      /\ answer \in [Fids -> {NoAnswer, "OK", "ERR"}]
      /\ DOMAIN upload = Fids /\ DOMAIN sent \subseteq Fids /\ DOMAIN outcome \subseteq Fids
  BY SizesAssumption DEF BaseInv, FRTypeOK, WireInv, UploadInv, Sends
<1>2. FileInv' /\ WireInv'
  BY FileStep, WireStep DEF BaseInv
<1>3. ASSUME \A fid \in DOMAIN outcome' : outcome'[fid] => Completed(fid)' \/ Reopened(fid)',
             \A fid \in Fids : upload'[fid] # Idle => Covered(fid)'
      PROVE  UploadInv'
  BY <1>2, <1>3 DEF UploadInv, OkUnlessReopened
<1>4. OkUnlessReopened
  BY DEF UploadInv
\* A step that leaves the uploads, and takes files away at most.
<1>5. ASSUME UNCHANGED <<sent, upload, answer, outcome, begun, lateHeaders, announced>>,
             \A fid \in DOMAIN files' : fid \in DOMAIN files /\ files'[fid] = files[fid]
      PROVE  UploadInv'
  <2>1. ASSUME NEW fid \in Fids, upload'[fid] # Idle PROVE Covered(fid)'
    <3>1. /\ Covered(fid) /\ fid \in DOMAIN sent /\ sent[fid].total \in Nat
      BY <1>1, <1>5, <2>1
    <3>2. \A s \in Nat : Confirmed(fid, s)' => Confirmed(fid, s)
      BY <1>5 DEF Confirmed
    <3>3. QED
      BY <1>5, <3>1, <3>2, CoveredKept
  <2>2. QED
    BY <1>3, <1>4, <1>5, <2>1 DEF OkUnlessReopened, Reopened, Completed
\* A step of send_file: the other uploads are as they were.
<1>6. ASSUME NEW fid \in Fids, UNCHANGED <<files, begun, lateHeaders, announced>>,
             \A f \in DOMAIN sent : f \in DOMAIN sent' /\ sent'[f] = sent[f],
             \A f \in Fids : f # fid => upload'[f] = upload[f] /\ answer'[f] = answer[f],
             upload'[fid] # Idle => Covered(fid)',
             \A f \in DOMAIN outcome' : outcome'[f] =>
               (f \in DOMAIN outcome /\ outcome[f]) \/ Completed(f) \/ Reopened(f)
      PROVE  UploadInv'
  <2>1. ASSUME NEW f \in Fids, upload'[f] # Idle, f # fid PROVE Covered(f)'
    <3>1. /\ Covered(f) /\ f \in DOMAIN sent /\ sent[f].total \in Nat /\ sent'[f] = sent[f]
      BY <1>1, <1>6, <2>1
    <3>2. upload'[f] = upload[f] /\ answer'[f] = answer[f]
      BY <1>6, <2>1
    <3>3. \A s \in Nat : Confirmed(f, s)' => Confirmed(f, s)
      BY <3>2 DEF Confirmed
    <3>4. QED
      BY <1>6, <3>1, <3>3, CoveredKept
  <2>2. \A f \in DOMAIN outcome' : outcome'[f] => Completed(f)' \/ Reopened(f)'
    BY <1>4, <1>6 DEF OkUnlessReopened, Reopened, Completed
  <2>3. QED
    BY <1>3, <1>6, <2>1, <2>2
<1>7. ASSUME NEW fid \in Fids, NEW to \in Users, NEW total \in Sizes, SendFile(fid, to, total)
      PROVE  UploadInv'
  <2>1. /\ \A f \in DOMAIN sent : f \in DOMAIN sent' /\ sent'[f] = sent[f]
        /\ UNCHANGED <<files, begun, lateHeaders, announced, outcome>>
        /\ \A f \in Fids : f # fid => upload'[f] = upload[f] /\ answer'[f] = answer[f]
        /\ sent'[fid].total = total
    BY <1>1, <1>7 DEF SendFile, Query, Put, relayVars, history
  <2>2. upload'[fid].step = 0 /\ answer'[fid] = NoAnswer
    BY <1>1, <1>7 DEF SendFile, Query
  <2>3. \A s \in Nat : ~Confirmed(fid, s)'
    BY <2>2 DEF Confirmed
  <2>4. Covered(fid)'
    <3>1. total \in Nat \ {0}
      BY SizesAssumption
    <3>2. ~Confirmed(fid, 1)'
      BY <2>3
    <3>3. ~Confirmed(fid, sent[fid].total)'
      BY <2>1, <2>2, <3>1 DEF Confirmed
    <3>4. \A s \in 1 .. sent'[fid].total : ~Confirmed(fid, s)'
      BY <2>1, <2>3, <3>1
    <3>5. QED
      BY <3>2, <3>3, <3>4 DEF Covered
  <2>5. QED
    BY <1>6, <2>1, <2>4
\* The next step, or the same step again.
<1>8. ASSUME NEW fid \in Fids, NEW step \in Nat, NEW n, Query(fid, step, n), upload[fid] # Idle,
             step = upload[fid].step \/ (step = upload[fid].step + 1 /\ answer[fid] = "OK"
                                         /\ answer[fid] # NoAnswer),
             UNCHANGED <<files, begun, lateHeaders, announced, outcome, sent>>
      PROVE  UploadInv'
  <2>1. /\ \A f \in Fids : f # fid => upload'[f] = upload[f] /\ answer'[f] = answer[f]
        /\ upload'[fid].step = step /\ answer'[fid] = NoAnswer
    BY <1>1, <1>8 DEF Query
  <2>2. \A s \in Nat : Confirmed(fid, s)' => s < step
    BY <2>1 DEF Confirmed
  <2>3. \A s \in Nat : s < step => Confirmed(fid, s)
    <3>1. upload[fid].step \in Nat
      BY <1>1, <1>8
    <3>2. QED
      BY <1>8, <3>1 DEF Confirmed
  <2>4. /\ Covered(fid) /\ fid \in DOMAIN sent /\ sent[fid].total \in Nat
    BY <1>1, <1>8
  <2>5. Covered(fid)'
    BY <1>8, <2>2, <2>3, <2>4, CoveredKept
  <2>6. QED
    BY <1>6, <1>8, <2>1, <2>5
<1>9. ASSUME NEW fid \in Fids, NEW ok \in BOOLEAN, Return(fid, ok),
             ok => Completed(fid) \/ Reopened(fid),
             UNCHANGED <<files, begun, lateHeaders, announced, sent>>
      PROVE  UploadInv'
  <2>1. /\ \A f \in Fids : f # fid => upload'[f] = upload[f] /\ answer'[f] = answer[f]
        /\ upload'[fid] = Idle
        /\ \A f \in DOMAIN outcome' : IF f = fid THEN outcome'[f] = ok
                                      ELSE f \in DOMAIN outcome /\ outcome'[f] = outcome[f]
    BY <1>1, <1>9 DEF Return, Put
  <2>2. QED
    BY <1>6, <1>9, <2>1
<1>10. ASSUME NEW fid \in Fids, Receive(fid) PROVE UploadInv'
  <2> DEFINE step == upload[fid].step
             n == sent[fid].total
  <2>1. /\ upload[fid] # Idle /\ answer[fid] # NoAnswer
        /\ UNCHANGED <<files, begun, lateHeaders, announced, sent>>
        /\ step \in 0 .. n /\ n \in Nat \ {0} /\ Covered(fid)
    BY <1>1, <1>10 DEF Receive, relayVars, history
  <2>2. CASE answer[fid] = "OK" /\ Query(fid, step + 1, 0) /\ UNCHANGED outcome
    <3>1. step + 1 \in Nat
      BY <2>1
    <3>2. QED
      BY <1>8, <2>1, <2>2, <3>1
  <2>3. CASE ~(answer[fid] = "OK" /\ step < n) /\ Return(fid, answer[fid] = "OK")
    <3>1. ASSUME answer[fid] = "OK" PROVE Completed(fid) \/ Reopened(fid)
      <4>1. n = step
        BY <2>1, <2>3, <3>1
      <4>2. Confirmed(fid, n)
        BY <2>1, <3>1, <4>1 DEF Confirmed
      <4>3. QED
        BY <2>1, <4>2 DEF Covered
    <3>2. QED
      BY <1>9, <2>1, <2>3, <3>1
  <2>4. QED
    BY <1>10, <2>2, <2>3 DEF Receive
<1>11. ASSUME NEW fid \in Fids, Timeout(fid) PROVE UploadInv'
  <2>1. /\ upload[fid] # Idle /\ UNCHANGED <<files, begun, lateHeaders, announced, sent>>
        /\ upload[fid].step \in Nat
    BY <1>1, <1>11 DEF Timeout, relayVars, history
  <2>2. CASE Query(fid, upload[fid].step, upload[fid].try + 1) /\ UNCHANGED outcome
    BY <1>8, <2>1, <2>2
  <2>3. CASE Return(fid, FALSE)
    BY <1>9, <2>1, <2>3
  <2>4. QED
    BY <1>11, <2>2, <2>3 DEF Timeout
<1>12. ASSUME NEW r \in net, Serve(r) PROVE UploadInv'
  <2>1. /\ r.fid \in Fids /\ UNCHANGED <<sent, upload, outcome>>
        /\ \A f \in Fids : f # r.fid => answer'[f] = answer[f]
    BY <1>1, <1>12 DEF Serve, Answer, BaseInv, FRTypeOK
  <2>2. /\ begun \subseteq begun'
        /\ lateHeaders' \in {lateHeaders, [lateHeaders EXCEPT ![r.fid] = lateHeaders[r.fid] + 1]}
        /\ announced' \in {announced, [announced EXCEPT ![r.fid] = announced[r.fid] + 1]}
    BY <1>12 DEF Serve, RefuseHeader, OpenFile, RefuseChunk, AckChunk, StoreChunk,
                 CompleteFile, SweepOnly
  <2>7. \A f \in Fids : /\ f # r.fid => /\ lateHeaders'[f] = lateHeaders[f]
                                        /\ announced'[f] = announced[f]
                        /\ lateHeaders[f] > 0 => lateHeaders'[f] > 0
                        /\ announced[f] > 0 => announced'[f] > 0
    BY <1>1, <2>1, <2>2
  <2>3. \A f \in DOMAIN files' : f # r.fid => f \in DOMAIN files /\ files'[f] = files[f]
    <3> DEFINE new == [to |-> sent[r.fid].to, total |-> sent[r.fid].total, got |-> {},
                       complete |-> FALSE, ts |-> now]
    <3>1. \/ files' = SweptFiles
          \/ \E S : files' = Put(Without(SweptFiles, S), r.fid, new)
          \/ \E x : files' = [SweptFiles EXCEPT ![r.fid] = x]
      BY <1>12 DEF Serve, RefuseHeader, OpenFile, RefuseChunk, AckChunk, StoreChunk,
                   CompleteFile, SweepOnly
    <3> HIDE DEF new
    <3>2. ASSUME NEW S, files' = Put(Without(SweptFiles, S), r.fid, new),
                 NEW f \in DOMAIN files', f # r.fid
          PROVE  f \in DOMAIN SweptFiles /\ files'[f] = SweptFiles[f]
      BY <3>2 DEF Put, Without, Restrict
    <3>3. \A f \in DOMAIN files' : f # r.fid => f \in DOMAIN SweptFiles /\ files'[f] = SweptFiles[f]
      BY <3>1, <3>2
    <3>4. QED
      BY <3>3, SweptTypes DEF BaseInv
  <2>4. ASSUME NEW f \in Fids, upload'[f] # Idle PROVE Covered(f)'
    <3>1. CASE f = r.fid
      BY <1>12, <2>1, <2>4, <3>1, ServeCovered
    <3>2. CASE f # r.fid
      <4>1. /\ Covered(f) /\ f \in DOMAIN sent /\ sent[f].total \in Nat
        BY <1>1, <2>1, <2>4
      <4>2. \A s \in Nat : Confirmed(f, s)' => Confirmed(f, s)
        BY <2>1, <3>2 DEF Confirmed
      <4>3. QED
        BY <2>1, <2>2, <2>3, <2>7, <3>2, <4>1, <4>2, CoveredKept
    <3>3. QED
      BY <3>1, <3>2
  <2>5. ASSUME NEW f \in DOMAIN outcome', outcome'[f]
        PROVE  Completed(f)' \/ Reopened(f)'
    <3>1. f \in Fids /\ (Completed(f) \/ Reopened(f))
      BY <1>1, <1>4, <2>1, <2>5 DEF OkUnlessReopened
    <3>2. QED
      BY <2>7, <3>1 DEF Reopened, Completed
  <2>6. QED
    BY <1>3, <2>4, <2>5
<1>13. ASSUME SweepOnly, UNCHANGED <<sent, upload, answer, outcome>> PROVE UploadInv'
  BY <1>5, <1>13, SweptTypes DEF SweepOnly, BaseInv
<1>14. ASSUME NEW fid \in Fids, DownloadPiece(fid) PROVE UploadInv'
  BY <1>13, <1>14 DEF DownloadPiece
<1>15. ASSUME NEW fid \in Fids, DownloadTimeout(fid) PROVE UploadInv'
  BY <1>5, <1>15 DEF DownloadTimeout, relayVars, history
<1>16. ASSUME NEW u \in Users, PollFiles(u) PROVE UploadInv'
  BY <1>5, <1>16, SweptTypes DEF PollFiles, BaseInv
<1>17. CASE OtherQuery
  BY <1>13, <1>17 DEF OtherQuery, clientVars
<1>18. CASE Restart
  <2>1. DOMAIN files' = {} /\ UNCHANGED <<sent, upload, answer, outcome, begun, lateHeaders, announced>>
    BY <1>18 DEF Restart, clientVars, history, Nothing
  <2>2. QED
    BY <1>5, <2>1
<1>19. CASE Tick \/ UNCHANGED vars
  BY <1>5, <1>19 DEF Tick, vars, relayVars, clientVars, history
<1>20. QED
  BY <1>7, <1>10, <1>11, <1>12, <1>14, <1>15, <1>16, <1>17, <1>18, <1>19 DEF Next

\* send_file returns ok only for a file that was complete at the relay, unless a
\* header of it was taken after a chunk; one tried again before that is no excuse.
THEOREM OkMeansComplete == Spec => []OkUnlessReopened
<1>1. Init => UploadInv
  BY DEF Init, UploadInv, FileInv, WireInv, OkUnlessReopened, Nothing, Completed
<1>2. BaseInv /\ UploadInv /\ [Next]_vars => UploadInv'
  BY UploadStep
<1>3. UploadInv => OkUnlessReopened
  BY DEF UploadInv
<1>4. QED
  BY <1>1, <1>2, <1>3, BaseInductive, PTL DEF Spec
==============================================================================
