----------------------------- MODULE FolderSync -----------------------------
(***************************************************************************)
(* The folder sync daemon (cmd/afs/sync_*.go) for one regular file.        *)
(*                                                                         *)
(* An application edits the file in the local folder, a peer publishes     *)
(* competing versions of it to the workspace in Redis, and the daemon's    *)
(* goroutines carry changes across: the watcher, the event loop, the       *)
(* uploader, the downloader and the full sweep.  They share the baseline   *)
(* entry of the path and the folder itself, and run at the same time.      *)
(*                                                                         *)
(* A version of the file is a number: its bytes, its hash and, on the      *)
(* local side, its modification time and inode, which the daemon compares  *)
(* together.  Two versions have the same size when SameSize holds, and     *)
(* different sizes otherwise.  Directories, symlinks, modes, renames and   *)
(* chunked transfers are left out.                                         *)
(***************************************************************************)
EXTENDS Naturals, Sequences, FiniteSets

CONSTANTS
    MaxLocal,     \* changes the application makes
    MaxPeer,      \* changes the peer publishes
    Deletes,      \* who may delete the file: "app", "peer"
    QueueCap,     \* capacity of each channel (256 in the code)
    Busy,         \* may other paths fill the channels
    Faults,       \* what may fail: the Redis calls of a worker, the link, the daemon
    MaxFaults,    \* how many of those failures happen
    SameSize,     \* do edits keep the size of the file
    LateEdits,    \* may the file change once the subscription was renewed
    StageWrites,  \* may the file change between a download's two snapshots
    None          \* no file, no value

ASSUME BoundsAssumption ==
    /\ MaxLocal \in Nat /\ MaxPeer \in Nat /\ MaxFaults \in Nat
    /\ QueueCap \in Nat \ {0}
    /\ Deletes \subseteq {"app", "peer"}
    /\ Faults \subseteq {"upload", "download", "event", "sweep", "link", "crash"}
    /\ Busy \in BOOLEAN /\ SameSize \in BOOLEAN /\ LateEdits \in BOOLEAN /\ StageWrites \in BOOLEAN

ASSUME NoneAssumption == None \notin Nat

VARIABLES
    local,            \* the version in the folder
    copies,           \* versions kept as conflict copies
    remote,           \* the published inode: version and revision
    entry,            \* SyncEntry of the path
    pending,          \* pendingUploads of the path
    echo,             \* echoSuppressor.pending of the path
    watch,            \* a debounced watcher notification
    localEvents, remoteEvents,              \* events in the two channels
    uploads, uploadResults,                 \* uploadCh and its results
    downloads, downloadResults,             \* downloadCh and its results
    timers,           \* delayed delete operations
    sweepReq,         \* fullSweepCh or the watcher's rescan channel is full
    status,           \* initial sweep, without or with the subscription
    saved,            \* the entry in the state file
    loop, up, down, sweep,                  \* the four goroutines
    tally,            \* changes and faults so far, and whether a sweep followed them
    mine, theirs,     \* the application's and the peer's latest version
    published, seen   \* versions that were ever remote, ever local

folder == <<local, copies, seen>>
server == <<remote, published>>
daemon == <<entry, pending, echo, status, saved>>
events == <<watch, localEvents, remoteEvents>>
queues == <<uploads, uploadResults, downloads, downloadResults, timers>>
people == <<tally, mine, theirs>>
vars == <<folder, server, daemon, events, queues, sweepReq, loop, up, down, sweep, people>>

Version == 0 .. (MaxLocal + MaxPeer)
Maybe == Version \cup {None}

(* Entries[path]; version 0 stands for a path that is not in the map. *)
SyncEntry == [hash: Maybe, lm: Maybe, rm: Nat, ver: Nat, deleted: BOOLEAN]
NoEntry == [hash |-> None, lm |-> None, rm |-> 0, ver |-> 0, deleted |-> FALSE]
Known(e) == e.ver # 0
Live(e) == Known(e) /\ ~e.deleted
Tombstone(e) == Known(e) /\ e.deleted

NoEcho == [kind |-> "none", hash |-> None]
FileEcho(h) == [kind |-> "file", hash |-> h]
DeleteEcho == [kind |-> "delete", hash |-> None]

UploadOp == [kind: {"file", "delete"}, hash: Maybe, stored: SyncEntry, ver: Nat]
DownloadOp == [kind: {"file", "delete"}, stored: SyncEntry, conflict: BOOLEAN]
NoUpload == [kind |-> "file", hash |-> None, stored |-> NoEntry, ver |-> 0]
NoDownload == [kind |-> "file", stored |-> NoEntry, conflict |-> FALSE]

Outcome == {"done", "skipped", "conflict", "error"}
UploadResult == [op: UploadOp, outcome: Outcome, rm: Nat]
DownloadResult == [kind: {"file", "delete"}, outcome: Outcome, hash: Maybe, rm: Nat,
                   lm: Maybe, copy: BOOLEAN]

IdleLoop == [pc |-> "idle", stored |-> NoEntry, rm |-> 0]
IdleUp == [pc |-> "idle", op |-> NoUpload, rm |-> 0]
IdleDown == [pc |-> "idle", op |-> NoDownload, snap |-> None, rm |-> 0, hash |-> None, copy |-> FALSE]
IdleSweep == [pc |-> "idle", l |-> None, r |-> None, rm |-> 0, base |-> NoEntry,
              conflict |-> FALSE, hash |-> None]

-----------------------------------------------------------------------------
(* The revision of the published inode, 0 when the path is missing. *)
Stat == IF remote.data = None THEN 0 ELSE remote.rev

(* A channel with n messages about this path blocks the sender or has room. *)
Room(q) == Len(q) < QueueCap

(* Whether a send that does not block succeeds. *)
Accepts(n) ==
    {ok \in BOOLEAN : IF ok THEN n < QueueCap ELSE n = QueueCap \/ Busy}

Elems(q) == {q[i] : i \in 1 .. Len(q)}

(* nextVersion: a number no entry, operation or plan in memory refers to.  *)
(* The code compares versions for equality only.                           *)
UsedVersions ==
    LET ops == Elems(uploads) \cup timers \cup {up.op} \cup {r.op : r \in Elems(uploadResults)}
        loads == Elems(downloads) \cup {down.op}
    IN  {entry.ver, loop.stored.ver, sweep.base.ver}
        \cup {o.ver : o \in ops} \cup {o.stored.ver : o \in ops \cup loads}
nextVersion ==
    CHOOSE v \in 1 .. (Cardinality(UsedVersions) + 1) : v \notin UsedVersions

(* A local change, which the watcher notices once it is installed. *)
Local(v) ==
    /\ StageWrites \/ down.pc # "stage"
    /\ local' = v /\ seen' = (seen \cup {v}) \ {None} /\ watch' = (status # "boot")

(* Echo and Rm under WithExpectedStat: the inode is still the observed one. *)
Publish(v) ==
    /\ remote' = [data |-> v, rev |-> remote.rev + 1]
    /\ published' = published \cup {v}

requestFullSweep == sweepReq' = TRUE
NoSweep == UNCHANGED sweepReq

(* One of the failures: of a Redis call, of the link, of the daemon. *)
Fault(what) ==
    /\ what \in Faults /\ tally.faults < MaxFaults
    /\ tally' = [tally EXCEPT !.faults = @ + 1, !.swept = "no"]

-----------------------------------------------------------------------------
(* Is the file still edited?  Without LateEdits every change comes before  *)
(* the subscription is renewed, and the recovery is watched to its end.    *)
Open == LateEdits \/ tally.faults = 0 \/ status # "online"

(* The application. *)
MayEdit ==
    /\ Open /\ tally.local < MaxLocal
    /\ tally' = [tally EXCEPT !.local = @ + 1, !.swept = "no"]

AppWrite ==
    /\ MayEdit
    /\ LET v == tally.local + 1 IN Local(v) /\ mine' = v
    /\ UNCHANGED <<copies, server, daemon, localEvents, remoteEvents, queues, sweepReq,
                   loop, up, down, sweep, theirs>>

AppDelete ==
    /\ MayEdit /\ "app" \in Deletes /\ local # None
    /\ Local(None) /\ mine' = None
    /\ UNCHANGED <<copies, server, daemon, localEvents, remoteEvents, queues, sweepReq,
                   loop, up, down, sweep, theirs>>

(* Mutant: a full channel drops the notification. *)
Notify_Drop ==
    /\ \/ status # "online" /\ UNCHANGED remoteEvents
       \/ /\ status = "online"
          /\ \E ok \in Accepts(remoteEvents) : remoteEvents' = remoteEvents + IF ok THEN 1 ELSE 0
    /\ NoSweep

(* remoteSubscriptionPump.send: a full channel becomes a sweep.  Without   *)
(* the subscription the notification is lost.                              *)
Notify ==
    \/ status # "online" /\ UNCHANGED <<remoteEvents, sweepReq>>
    \/ /\ status = "online"
       /\ \E ok \in Accepts(remoteEvents) :
             /\ remoteEvents' = remoteEvents + IF ok THEN 1 ELSE 0
             /\ sweepReq' = (sweepReq \/ ~ok)

(* The peer publishes a version or removes the file. *)
PeerChange(v) ==
    /\ Open /\ tally.peer < MaxPeer
    /\ tally' = [tally EXCEPT !.peer = @ + 1, !.swept = "no"]
    /\ theirs' = v
    /\ Notify
    /\ UNCHANGED <<folder, daemon, watch, localEvents, queues, loop, up, down, sweep, mine>>

PeerWrite == Publish(MaxLocal + tally.peer + 1) /\ PeerChange(MaxLocal + tally.peer + 1)

PeerDelete ==
    /\ "peer" \in Deletes /\ remote.data # None
    /\ remote' = [remote EXCEPT !.data = None]
    /\ UNCHANGED published
    /\ PeerChange(None)

(* syncWatcher.flush after the debounce: an event, or a rescan when full. *)
flush ==
    /\ watch /\ watch' = FALSE
    /\ \E ok \in Accepts(localEvents) :
          /\ localEvents' = localEvents + IF ok THEN 1 ELSE 0
          /\ sweepReq' = (sweepReq \/ ~ok)
    /\ UNCHANGED <<folder, server, daemon, remoteEvents, queues, loop, up, down, sweep, people>>

-----------------------------------------------------------------------------
(* The event loop.  Its queues never block it: an overflow becomes a sweep. *)
queueUpload(op) ==
    \E ok \in Accepts(Len(uploads)) :
        /\ uploads' = IF ok THEN Append(uploads, op) ELSE uploads
        /\ sweepReq' = (sweepReq \/ ~ok)

(* With a sweep in any case when the result also asks for one. *)
queueDownload(op, rescan) ==
    \E ok \in Accepts(Len(downloads)) :
        /\ downloads' = IF ok THEN Append(downloads, op) ELSE downloads
        /\ sweepReq' = (sweepReq \/ ~ok \/ rescan)

(* The upload is tracked while it or its result is queued. *)
enqueueTrackedUpload(op) ==
    /\ queueUpload(op)
    /\ pending' = IF uploads' = uploads THEN pending ELSE [pending EXCEPT !.count = @ + 1]

deferScanForPendingUpload == pending.count > 0
Rescan == [pending EXCEPT !.rescan = TRUE]

handleLocalFile ==
    \/ /\ deferScanForPendingUpload
       /\ pending' = Rescan
       /\ UNCHANGED <<uploads, sweepReq>>
    \/ /\ ~deferScanForPendingUpload
       /\ Known(entry) /\ entry.hash = local
       /\ UNCHANGED <<pending, uploads, sweepReq>>
    \/ /\ ~deferScanForPendingUpload
       /\ ~(Known(entry) /\ entry.hash = local)
       /\ enqueueTrackedUpload([kind |-> "file", hash |-> local, stored |-> entry, ver |-> 0])

(* A tombstone at once; the remote deletion is sent 150 ms later. *)
handleLocalDelete ==
    \/ ~Live(entry) /\ UNCHANGED <<entry, timers>>
    \/ /\ Live(entry)
       /\ entry' = [entry EXCEPT !.deleted = TRUE, !.ver = nextVersion]
       /\ timers' = timers \cup {[kind |-> "delete", hash |-> None, stored |-> entry,
                                  ver |-> nextVersion]}

(* Every local event takes the echo expectation; only a matching one is    *)
(* dropped.                                                                *)
handleLocalEvent ==
    /\ loop.pc = "idle" /\ localEvents > 0
    /\ localEvents' = localEvents - 1
    /\ echo' = NoEcho
    /\ \/ /\ echo = IF local = None THEN DeleteEcho ELSE FileEcho(local)
          /\ UNCHANGED <<entry, timers, uploads, pending, sweepReq>>
       \/ /\ local = None /\ echo # DeleteEcho
          /\ handleLocalDelete
          /\ UNCHANGED <<uploads, pending, sweepReq>>
       \/ /\ local # None /\ echo # FileEcho(local)
          /\ handleLocalFile
          /\ UNCHANGED <<entry, timers>>
    /\ UNCHANGED <<folder, server, watch, remoteEvents, uploadResults, downloads,
                   downloadResults, status, saved, loop, up, down, sweep, people>>

(* enqueueUploadOpAsync after its delay. *)
SendDelete ==
    /\ \E op \in timers : timers' = timers \ {op} /\ queueUpload(op)
    /\ UNCHANGED <<folder, server, daemon, events, uploadResults, downloads,
                   downloadResults, loop, up, down, sweep, people>>

(* The first Stat of handleRemoteEvent.  A tombstoned path is skipped, a   *)
(* failed call ends it.                                                    *)
LookRemote ==
    \/ Tombstone(entry) /\ loop' = IdleLoop /\ UNCHANGED tally
    \/ ~Tombstone(entry) /\ loop' = [pc |-> "act", stored |-> entry, rm |-> Stat] /\ UNCHANGED tally
    \/ ~Tombstone(entry) /\ Fault("event") /\ loop' = IdleLoop

handleRemoteEvent ==
    /\ \/ loop.pc = "idle" /\ remoteEvents > 0 /\ remoteEvents' = remoteEvents - 1
       \/ loop.pc = "look" /\ UNCHANGED remoteEvents
    /\ LookRemote
    /\ UNCHANGED <<folder, server, daemon, watch, localEvents, queues, sweepReq, up, down, sweep,
                   mine, theirs>>

detectConflict(stored) == Known(stored) /\ local # None /\ local # stored.hash

(* The rest of handleRemoteEvent.  An absent file is looked up again, and  *)
(* its deletion queued under a new version of the live entry.              *)
ActRemote ==
    /\ loop.pc = "act" /\ loop' = IdleLoop
    /\ LET stored == loop.stored
           found == loop.rm # 0 \/ (Live(stored) /\ Stat # 0)
       IN  \/ /\ found
              /\ queueDownload([kind |-> "file", stored |-> stored,
                                conflict |-> detectConflict(stored)], FALSE)
              /\ UNCHANGED entry
           \/ /\ ~found /\ Live(stored) /\ entry.ver # stored.ver
              /\ requestFullSweep
              /\ UNCHANGED <<entry, downloads>>
           \/ /\ ~found /\ Live(stored) /\ entry.ver = stored.ver
              /\ entry' = [entry EXCEPT !.ver = nextVersion]
              /\ queueDownload([kind |-> "delete", stored |-> entry', conflict |-> FALSE], FALSE)
           \/ /\ ~found /\ ~Live(stored)
              /\ UNCHANGED <<entry, downloads, sweepReq>>
    /\ UNCHANGED <<folder, server, pending, echo, status, saved, events, uploads, uploadResults,
                   downloadResults, timers, up, down, sweep, people>>

(* A delayed result that an entry recorded meanwhile supersedes. *)
uploadResultObsolete(res) ==
    /\ Known(entry)
    /\ \/ entry.deleted
       \/ res.rm # 0 /\ entry.rm > res.rm
       \/ /\ entry.ver # res.op.stored.ver /\ entry.hash # res.op.hash
          /\ local # None /\ local = entry.lm /\ local = entry.hash

(* Mutant: the operation stays tracked after its result. *)
finishPendingUpload_Leak(op) == UNCHANGED pending

finishPendingUpload(op) ==
    pending' = IF op.kind = "file" THEN [count |-> 0, rescan |-> FALSE] ELSE pending

UploadDone(op, rm) ==
    \/ /\ op.kind = "file"
       /\ entry' = [hash |-> op.hash, lm |-> IF rm = 0 THEN None ELSE op.hash, rm |-> rm,
                    ver |-> nextVersion, deleted |-> FALSE]
       /\ sweepReq' = (sweepReq \/ pending.rescan)
    \/ /\ op.kind = "delete"
       /\ entry' = IF Tombstone(entry) /\ entry.ver = op.ver THEN NoEntry ELSE entry
       /\ requestFullSweep

handleUploadResult ==
    /\ loop.pc = "idle" /\ uploadResults # <<>>
    /\ uploadResults' = Tail(uploadResults)
    /\ LET res == Head(uploadResults)
           op == res.op
           stale == op.kind = "file" /\ uploadResultObsolete(res)
       IN  /\ finishPendingUpload(op)
           /\ \/ /\ res.outcome \in {"skipped", "error"} \/ stale
                 /\ requestFullSweep
                 /\ UNCHANGED <<entry, downloads, loop>>
              \/ /\ res.outcome = "conflict" /\ op.kind = "delete"
                 /\ entry' = IF Tombstone(entry) THEN NoEntry ELSE entry
                 /\ loop' = [IdleLoop EXCEPT !.pc = "look"]
                 /\ UNCHANGED <<downloads, sweepReq>>
              \/ /\ res.outcome = "conflict" /\ op.kind = "file" /\ ~stale
                 /\ queueDownload([kind |-> "file", stored |-> op.stored, conflict |-> TRUE],
                                  pending.rescan)
                 /\ UNCHANGED <<entry, loop>>
              \/ /\ res.outcome = "done" /\ ~stale
                 /\ UploadDone(op, res.rm)
                 /\ UNCHANGED <<downloads, loop>>
    /\ UNCHANGED <<folder, server, echo, status, saved, events, uploads, downloadResults, timers,
                   up, down, sweep, people>>

(* The downloaded version is still the one in the folder. *)
localCandidateUnchanged(res) == local # None /\ local = res.lm /\ local = res.hash

handleDownloadResult ==
    /\ loop.pc = "idle" /\ downloadResults # <<>>
    /\ downloadResults' = Tail(downloadResults)
    /\ LET res == Head(downloadResults)
           file == res.outcome = "done" /\ res.kind = "file"
       IN  /\ sweepReq' = (sweepReq \/ res.copy \/ res.outcome = "skipped"
                           \/ (file /\ Tombstone(entry)))
           /\ \/ /\ ~file
                 /\ UNCHANGED <<folder, watch, entry>>
              \/ /\ file /\ Tombstone(entry)
                 /\ IF localCandidateUnchanged(res) THEN Local(None) ELSE UNCHANGED <<local, seen, watch>>
                 /\ UNCHANGED <<copies, entry>>
              \/ /\ file /\ ~Tombstone(entry)
                 /\ entry' = [hash |-> res.hash, lm |-> res.lm, rm |-> res.rm,
                              ver |-> nextVersion, deleted |-> FALSE]
                 /\ UNCHANGED <<folder, watch>>
    /\ UNCHANGED <<server, pending, echo, status, saved, localEvents, remoteEvents, uploads,
                   uploadResults, downloads, timers, loop, up, down, sweep, people>>

-----------------------------------------------------------------------------
(* The uploader.  A result that is not an answer to the operation carries  *)
(* its kind only.                                                          *)
send(op, outcome, rm) ==
    /\ Room(uploadResults)
    /\ uploadResults' = Append(uploadResults,
           [op |-> IF outcome \in {"skipped", "error"} THEN [NoUpload EXCEPT !.kind = op.kind]
                   ELSE op,
            outcome |-> outcome, rm |-> rm])
    /\ up' = IdleUp

uploaderFrame == <<folder, daemon, events, downloads, downloadResults, timers, sweepReq, loop,
                   down, sweep, mine, theirs>>

(* queuedFileCurrent, or for a deletion that the file is still absent. *)
queuedFileCurrent(op) == local = op.hash

(* Mutant: the upload ignores the baseline. *)
MatchesStored_Any(op) == TRUE

(* syncRemoteMatchesStored, and the same test in processFile. *)
MatchesStored(op) == remote.data \in {None, op.stored.hash}

(* Dequeues an operation, reads the published file and compares it with    *)
(* the queued content and the baseline.  The operation goes on only while  *)
(* the folder holds the queued version.                                    *)
TakeUpload ==
    /\ up.pc = "idle" /\ uploads # <<>>
    /\ uploads' = Tail(uploads)
    /\ LET op == Head(uploads)
           matching == op.kind = "file" /\ remote.data = op.hash
       IN  \/ ~queuedFileCurrent(op) /\ send(op, "skipped", 0)
           \/ /\ queuedFileCurrent(op) /\ ~matching /\ ~MatchesStored(op)
              /\ send(op, "conflict", Stat)
           \/ /\ queuedFileCurrent(op) /\ (matching \/ MatchesStored(op))
              /\ up' = [pc |-> IF matching THEN "match" ELSE "publish", op |-> op, rm |-> Stat]
              /\ UNCHANGED uploadResults
    /\ UNCHANGED <<uploaderFrame, server, tally>>

(* finishMatchingFileUpload: the same bytes are already published. *)
Match ==
    /\ up.pc = "match"
    /\ \/ ~(queuedFileCurrent(up.op) /\ Stat # 0) /\ send(up.op, "skipped", 0)
       \/ /\ queuedFileCurrent(up.op) /\ Stat # 0
          /\ up' = [up EXCEPT !.pc = "finish"]
          /\ UNCHANGED uploadResults
    /\ UNCHANGED <<uploaderFrame, server, uploads, tally>>

(* Echo with the observed stat as its condition. *)
PublishFile ==
    /\ up.pc = "publish" /\ up.op.kind = "file"
    /\ \/ /\ up.rm # Stat
          /\ send(up.op, "conflict", 0)
          /\ UNCHANGED server
       \/ /\ up.rm = Stat
          /\ Publish(up.op.hash)
          /\ up' = [up EXCEPT !.pc = "finish"]
          /\ UNCHANGED uploadResults
    /\ UNCHANGED <<uploaderFrame, uploads, tally>>

(* Rm with the same condition; a file that is gone counts as removed. *)
PublishDelete ==
    /\ up.pc = "publish" /\ up.op.kind = "delete"
    /\ \/ /\ Stat \notin {0, up.rm}
          /\ send(up.op, "conflict", 0)
          /\ UNCHANGED remote
       \/ /\ Stat \in {0, up.rm}
          /\ remote' = [remote EXCEPT !.data = None]
          /\ send(up.op, "done", 0)
    /\ UNCHANGED <<uploaderFrame, published, uploads, tally>>

(* finishFileUpload: the stat recorded is read after the write. *)
FinishUpload ==
    /\ up.pc = "finish"
    /\ send(up.op, "done", Stat)
    /\ UNCHANGED <<uploaderFrame, server, uploads, tally>>

UploadFails ==
    /\ Fault("upload")
    /\ \/ /\ up.pc = "idle" /\ uploads # <<>>
          /\ uploads' = Tail(uploads) /\ send(Head(uploads), "error", 0)
       \/ up.pc # "idle" /\ send(up.op, "error", 0) /\ UNCHANGED uploads
    /\ UNCHANGED <<uploaderFrame, server>>

-----------------------------------------------------------------------------
(* The downloader. *)
Downloaded(outcome, lm, copy) ==
    /\ Room(downloadResults)
    /\ downloadResults' = Append(downloadResults,
           [kind |-> down.op.kind, outcome |-> outcome, lm |-> lm, copy |-> copy,
            hash |-> IF outcome = "done" THEN down.hash ELSE None,
            rm |-> IF outcome = "done" THEN down.rm ELSE 0])
    /\ down' = IdleDown

downloaderFrame == <<server, pending, status, saved, localEvents, remoteEvents, uploads,
                     uploadResults, timers, sweepReq, loop, up, sweep, mine, theirs>>

(* snapshotDownloadLocal with the operation; a deletion is confirmed first. *)
TakeDownload ==
    /\ down.pc = "idle" /\ downloads # <<>>
    /\ down' = [IdleDown EXCEPT !.op = Head(downloads), !.snap = local,
                   !.pc = IF Head(downloads).kind = "file" THEN "stat" ELSE "confirm"]
    /\ downloads' = Tail(downloads)
    /\ UNCHANGED <<downloaderFrame, folder, watch, entry, echo, downloadResults, tally>>

matchesStored(v, stored) == IF v = None THEN ~Live(stored) ELSE Live(stored) /\ v = stored.hash

DownloadStat ==
    /\ down.pc = "stat"
    /\ \/ /\ Stat # 0
          /\ down' = [down EXCEPT !.pc = "cat", !.rm = Stat]
          /\ UNCHANGED downloadResults
       \/ /\ Stat = 0 /\ local = down.snap /\ matchesStored(down.snap, down.op.stored)
          /\ down' = [down EXCEPT !.pc = "confirm", !.op.kind = "delete"]
          /\ UNCHANGED downloadResults
       \/ /\ Stat = 0 /\ ~(local = down.snap /\ matchesStored(down.snap, down.op.stored))
          /\ Downloaded("skipped", None, FALSE)
    /\ UNCHANGED <<downloaderFrame, folder, watch, entry, echo, downloads, tally>>

(* Cat, then the checks of the folder against the first snapshot. *)
DownloadCat ==
    /\ down.pc = "cat"
    /\ LET same == local = down.snap
           wanted == down.op.conflict \/ matchesStored(down.snap, down.op.stored)
       IN  \/ /\ remote.data = None
              /\ Downloaded("error", None, FALSE)
           \/ /\ remote.data # None /\ (~same \/ (local # remote.data /\ ~wanted))
              /\ Downloaded("skipped", None, FALSE)
           \/ /\ remote.data # None /\ same /\ (local = remote.data \/ wanted)
              /\ down' = [down EXCEPT !.hash = remote.data,
                             !.pc = IF local = remote.data THEN "record" ELSE "stage"]
              /\ UNCHANGED downloadResults
    /\ UNCHANGED <<downloaderFrame, folder, watch, entry, echo, downloads, tally>>

(* writeLocalFile takes a second snapshot of the destination. *)
StageDownload ==
    /\ down.pc = "stage"
    /\ down' = [down EXCEPT !.pc = "commit", !.snap = local]
    /\ UNCHANGED <<downloaderFrame, folder, watch, entry, echo, downloads, downloadResults, tally>>

(* moveLocalToConflict and the rename of the staged file. *)
Replace(v, conflict) ==
    /\ copies' = IF conflict THEN (copies \cup {local}) \ {None} ELSE copies
    /\ Local(v)

(* Mutant: the destination is not looked at again before the rename. *)
CommitDownload_NoRecheck ==
    /\ down.pc = "commit"
    /\ Replace(down.hash, down.op.conflict)
    /\ down' = [down EXCEPT !.pc = "mark", !.copy = down.op.conflict /\ local # None]
    /\ UNCHANGED <<downloaderFrame, entry, echo, downloads, downloadResults, tally>>

CommitDownload ==
    /\ down.pc = "commit"
    /\ \/ /\ local # down.snap
          /\ Downloaded("skipped", None, FALSE)
          /\ UNCHANGED <<folder, watch>>
       \/ /\ local = down.snap
          /\ Replace(down.hash, down.op.conflict)
          /\ down' = [down EXCEPT !.pc = "mark", !.copy = down.op.conflict /\ local # None]
          /\ UNCHANGED downloadResults
    /\ UNCHANGED <<downloaderFrame, entry, echo, downloads, tally>>

(* markFile after the rename, then sendFileResult's Lstat. *)
RecordDownload ==
    /\ down.pc \in {"mark", "record"}
    /\ echo' = IF down.pc = "mark" THEN FileEcho(down.hash) ELSE echo
    /\ Downloaded(IF local = None THEN "error" ELSE "done", local, down.copy)
    /\ UNCHANGED <<downloaderFrame, folder, watch, entry, downloads, tally>>

(* applySyncRemoteDelete under the state lock: what becomes of the folder, *)
(* the entry and the echo when the entry is still the expected one.        *)
Changed(stored) == local # None /\ ~(Known(stored) /\ local = stored.hash)
RemoveLocal(stored) ==
    /\ copies' = IF Changed(stored) THEN copies \cup {local} ELSE copies
    /\ echo' = IF Changed(stored) THEN echo ELSE DeleteEcho
    /\ entry' = NoEntry
    /\ IF local = None THEN UNCHANGED <<local, seen, watch>> ELSE Local(None)

(* applyConfirmedSyncRemoteDelete: is the file still absent? *)
ConfirmDelete ==
    /\ down.pc = "confirm"
    /\ \/ /\ Stat # 0 /\ Downloaded("skipped", None, FALSE)
       \/ /\ Stat = 0 /\ down' = [down EXCEPT !.pc = "remove"] /\ UNCHANGED downloadResults
    /\ UNCHANGED <<downloaderFrame, folder, watch, entry, echo, downloads, tally>>

DeleteLocal ==
    /\ down.pc = "remove"
    /\ \/ /\ entry.ver # down.op.stored.ver
          /\ Downloaded("skipped", None, FALSE)
          /\ UNCHANGED <<folder, watch, entry, echo>>
       \/ /\ entry.ver = down.op.stored.ver
          /\ RemoveLocal(down.op.stored)
          /\ Downloaded("done", None, Changed(down.op.stored))
    /\ UNCHANGED <<downloaderFrame, downloads, tally>>

(* A failed call before the destination is replaced. *)
DownloadFails ==
    /\ down.pc \in {"stat", "cat", "confirm"} /\ Fault("download")
    /\ Downloaded("error", None, FALSE)
    /\ UNCHANGED <<downloaderFrame, folder, watch, entry, echo, downloads>>

-----------------------------------------------------------------------------
(* The full sweep, fullReconciler.warmStart, beside all the workers. *)
sweepFrame == <<localEvents, remoteEvents, queues, status, saved, loop, up, down, mine, theirs>>

SweepTo(pc) == sweep' = [sweep EXCEPT !.pc = pc]

(* No worker is busy, no event or operation queued. *)
Idle ==
    /\ loop.pc = "idle" /\ up.pc = "idle" /\ down.pc = "idle"
    /\ ~watch /\ localEvents = 0 /\ remoteEvents = 0
    /\ uploads = <<>> /\ uploadResults = <<>> /\ downloads = <<>> /\ downloadResults = <<>>
    /\ timers = {}

(* scanLocalMeta. *)
ScanLocal ==
    /\ sweep.pc = "idle" /\ sweepReq
    /\ sweepReq' = FALSE
    /\ sweep' = [IdleSweep EXCEPT !.pc = "offline", !.l = local]
    /\ tally' = [tally EXCEPT !.swept = IF Idle THEN "running" ELSE "no"]
    /\ UNCHANGED <<sweepFrame, folder, server, daemon, watch>>

(* A live entry whose file is missing, in the scan and now, is tombstoned. *)
detectOfflineDeletes ==
    /\ sweep.pc = "offline" /\ SweepTo("remote")
    /\ entry' = IF Live(entry) /\ sweep.l = None /\ local = None
                    THEN [entry EXCEPT !.deleted = TRUE, !.ver = nextVersion] ELSE entry
    /\ UNCHANGED <<sweepFrame, folder, server, pending, echo, watch, sweepReq, tally>>

(* scanRemoteMeta. *)
ScanRemote ==
    /\ sweep.pc = "remote"
    /\ sweep' = [sweep EXCEPT !.pc = "plan", !.r = remote.data, !.rm = Stat]
    /\ UNCHANGED <<sweepFrame, folder, server, daemon, watch, sweepReq, tally>>

(* metaMatch and observedChangedFromStored compare sizes and times with    *)
(* the entry, whose size is that of its hash, and no content.              *)
EqualSize(v, w) == SameSize \/ v = w
metaMatch ==
    /\ Known(entry) /\ EqualSize(sweep.l, sweep.r) /\ EqualSize(sweep.l, entry.hash)
    /\ sweep.l = entry.lm /\ sweep.rm = entry.rm

LocalChanged == ~EqualSize(sweep.l, entry.hash) \/ (entry.lm # None /\ sweep.l # entry.lm)

(* Mutant: the remote side is taken for unchanged. *)
RemoteChanged_Never == FALSE
RemoteChanged == ~EqualSize(sweep.r, entry.hash) \/ (entry.rm # 0 /\ sweep.rm # entry.rm)

(* The action buildPlan chooses from what the two scans found. *)
PlannedAction ==
    LET lok == sweep.l # None
        rok == sweep.rm # 0
    IN  IF lok /\ ~rok
            THEN IF ~Live(entry) THEN "upload" ELSE IF Stat = 0 THEN "delete-local" ELSE "none"
        ELSE IF ~lok /\ rok
            THEN IF Tombstone(entry) THEN "delete-remote" ELSE "download"
        ELSE IF ~lok THEN "none"
        ELSE IF metaMatch \/ (Live(entry) /\ ~LocalChanged /\ ~RemoteChanged) THEN "refresh"
        ELSE IF Live(entry) /\ LocalChanged /\ ~RemoteChanged THEN "upload"
        ELSE "download"

buildPlan ==
    /\ sweep.pc = "plan"
    /\ \/ /\ deferScanForPendingUpload
          /\ pending' = Rescan /\ SweepTo("clean")
          /\ UNCHANGED entry
       \/ /\ ~deferScanForPendingUpload /\ PlannedAction \in {"none", "refresh"}
          /\ entry' = IF PlannedAction = "none" THEN entry
                      ELSE [entry EXCEPT !.lm = sweep.l, !.rm = sweep.rm, !.deleted = FALSE,
                                !.ver = nextVersion]
          /\ SweepTo("clean")
          /\ UNCHANGED pending
       \/ /\ ~deferScanForPendingUpload /\ PlannedAction \notin {"none", "refresh"}
          /\ sweep' = [sweep EXCEPT !.pc = PlannedAction, !.base = entry,
                           !.conflict = sweep.l # None /\ (LocalChanged \/ ~Live(entry))]
          /\ UNCHANGED <<entry, pending>>
    /\ UNCHANGED <<sweepFrame, folder, server, echo, watch, sweepReq, tally>>

(* actionStillCurrent: no pending upload, same entry, same local file. *)
Unmoved == entry.ver = sweep.base.ver /\ local = sweep.l
actionStillCurrent == ~deferScanForPendingUpload /\ Unmoved

(* The action was planned from an obsolete observation: plan again. *)
DropAction ==
    /\ sweep.pc \in {"upload", "download", "delete-local", "delete-remote", "write"}
    /\ ~actionStillCurrent
    /\ pending' = IF deferScanForPendingUpload THEN Rescan ELSE pending
    /\ sweepReq' = (sweepReq \/ ~deferScanForPendingUpload)
    /\ SweepTo("clean")
    /\ UNCHANGED <<sweepFrame, folder, server, entry, echo, watch, tally>>

(* remoteStatStillCurrent for the actions that change the remote file. *)
DropRemoteAction ==
    /\ sweep.pc \in {"upload", "delete-remote"} /\ actionStillCurrent
    /\ Stat # sweep.rm
    /\ requestFullSweep /\ SweepTo("clean")
    /\ UNCHANGED <<sweepFrame, folder, server, daemon, watch, tally>>

(* execUpload up to its conditional Echo. *)
execUpload ==
    /\ sweep.pc = "upload" /\ actionStillCurrent /\ Stat = sweep.rm
    /\ SweepTo("echo")
    /\ UNCHANGED <<sweepFrame, folder, server, daemon, watch, sweepReq, tally>>

SweepEcho ==
    /\ sweep.pc = "echo"
    /\ \/ Stat = sweep.rm /\ Publish(sweep.l) /\ SweepTo("uploaded") /\ NoSweep
       \/ Stat # sweep.rm /\ requestFullSweep /\ SweepTo("clean") /\ UNCHANGED server
    /\ UNCHANGED <<sweepFrame, folder, daemon, watch, tally>>

(* updateActionState, unless another worker changed the entry. *)
updateActionState(h, lm, rm) ==
    \/ /\ entry.ver = sweep.base.ver
       /\ entry' = [hash |-> h, lm |-> lm, rm |-> rm, ver |-> nextVersion, deleted |-> FALSE]
       /\ NoSweep
    \/ /\ entry.ver # sweep.base.ver
       /\ requestFullSweep /\ UNCHANGED entry

RecordSweepUpload ==
    /\ sweep.pc = "uploaded" /\ SweepTo("clean")
    /\ \/ Stat # 0 /\ updateActionState(sweep.l, sweep.l, Stat)
       \/ Stat = 0 /\ requestFullSweep /\ UNCHANGED entry
    /\ UNCHANGED <<sweepFrame, folder, server, pending, echo, watch, tally>>

(* execDownload reads the bytes unless the path is tombstoned or gone. *)
execDownload ==
    /\ sweep.pc = "download" /\ actionStillCurrent
    /\ \/ /\ Tombstone(entry) \/ Stat = 0
          /\ SweepTo("clean")
       \/ /\ ~Tombstone(entry) /\ Stat # 0
          /\ sweep' = [sweep EXCEPT !.pc = "write", !.hash = remote.data]
    /\ UNCHANGED <<sweepFrame, folder, server, daemon, watch, sweepReq, tally>>

(* stageDownload, with actionStillCurrent as its last guard. *)
SweepWrite ==
    /\ sweep.pc = "write" /\ actionStillCurrent
    /\ LET identical == local = sweep.hash
       IN  \/ /\ identical /\ SweepTo("adopt")
              /\ UNCHANGED <<folder, watch, sweepReq>>
           \/ /\ ~identical /\ SweepTo("mark")
              /\ Replace(sweep.hash, sweep.conflict)
              /\ sweepReq' = (sweepReq \/ (sweep.conflict /\ local # None))
    /\ UNCHANGED <<sweepFrame, server, daemon, tally>>

(* The remote time comes from the scan, the local one from a fresh Stat. *)
RecordSweepDownload ==
    /\ sweep.pc \in {"mark", "adopt"} /\ SweepTo("clean")
    /\ echo' = IF sweep.pc = "mark" THEN FileEcho(sweep.hash) ELSE echo
    /\ updateActionState(sweep.hash, local, sweep.rm)
    /\ UNCHANGED <<sweepFrame, folder, server, pending, watch, tally>>

(* execDeleteLocal: the same confirmation and removal as the downloader. *)
execDeleteLocal ==
    /\ sweep.pc = "delete-local" /\ actionStillCurrent
    /\ \/ Stat # 0 /\ requestFullSweep /\ SweepTo("clean")
       \/ Stat = 0 /\ SweepTo("remove") /\ NoSweep
    /\ UNCHANGED <<sweepFrame, folder, server, daemon, watch, tally>>

SweepRemove ==
    /\ sweep.pc = "remove" /\ SweepTo("clean")
    /\ \/ /\ entry.ver # sweep.base.ver
          /\ requestFullSweep
          /\ UNCHANGED <<folder, watch, entry, echo>>
       \/ /\ entry.ver = sweep.base.ver
          /\ RemoveLocal(sweep.base)
          /\ sweepReq' = (sweepReq \/ Changed(sweep.base))
    /\ UNCHANGED <<sweepFrame, server, pending, tally>>

(* Mutant: the tombstone's deletion does not compare the content. *)
RemoteIsBase_Any == TRUE

(* syncRemoteMatchesStored for the tombstoned entry. *)
RemoteIsBase == remote.data = sweep.base.hash

(* execDeleteRemote.  A version the deletion did not see is kept: the      *)
(* tombstone is lifted and the version downloaded at once.                 *)
execDeleteRemote ==
    /\ sweep.pc = "delete-remote" /\ actionStillCurrent /\ Stat = sweep.rm
    /\ \/ /\ RemoteIsBase
          /\ SweepTo("rm")
          /\ UNCHANGED entry
       \/ /\ ~RemoteIsBase
          /\ entry' = [entry EXCEPT !.deleted = FALSE, !.ver = nextVersion]
          /\ sweep' = [sweep EXCEPT !.pc = "download", !.base = entry', !.conflict = FALSE]
    /\ UNCHANGED <<sweepFrame, folder, server, pending, echo, watch, sweepReq, tally>>

SweepRm ==
    /\ sweep.pc = "rm"
    /\ \/ /\ Stat \in {0, sweep.rm}
          /\ remote' = [remote EXCEPT !.data = None]
          /\ SweepTo("removed") /\ NoSweep
       \/ /\ Stat \notin {0, sweep.rm}
          /\ requestFullSweep /\ SweepTo("clean")
          /\ UNCHANGED remote
    /\ UNCHANGED <<sweepFrame, folder, published, daemon, watch, tally>>

RecordSweepDelete ==
    /\ sweep.pc = "removed" /\ SweepTo("clean")
    /\ entry' = IF Tombstone(entry) /\ entry.ver = sweep.base.ver THEN NoEntry ELSE entry
    /\ requestFullSweep
    /\ UNCHANGED <<sweepFrame, folder, server, pending, echo, watch, tally>>

(* Tombstones older than five minutes are forgotten when a sweep ends.     *)
(* After the initial sweep the workers start.                              *)
cleanupTombstones ==
    /\ sweep.pc = "clean" /\ sweep' = IdleSweep
    /\ tally' = [tally EXCEPT !.swept = IF @ = "running" THEN "done" ELSE @]
    /\ status' = IF status = "boot" THEN "offline" ELSE status
    /\ entry' \in {entry, IF Tombstone(entry) THEN NoEntry ELSE entry}
    /\ UNCHANGED <<folder, server, pending, echo, saved, events, queues, sweepReq, loop, up, down,
                   mine, theirs>>

(* A failed call ends the sweep; the daemon's loop asks for another.  When *)
(* the initial sweep fails the daemon exits, like in Crash.                *)
SweepFails ==
    /\ \/ sweep.pc \in {"remote", "upload", "echo", "uploaded", "download", "delete-local",
                        "delete-remote", "rm"}
       \/ sweep.pc = "plan" /\ sweep.l # None /\ sweep.rm = 0 /\ Live(entry)
    /\ status # "boot" /\ Fault("sweep")
    /\ requestFullSweep /\ SweepTo("clean")
    /\ UNCHANGED <<sweepFrame, folder, server, daemon, watch>>

-----------------------------------------------------------------------------
(* The link to Redis, the state file and the daemon's process. *)
linkFrame == <<folder, server, entry, pending, echo, events, queues, loop, up, down, sweep>>

(* An outage outlasts the second that the state writer waits; the file is  *)
(* forgotten when no crash can follow that would read it.                  *)
Disconnect ==
    /\ status = "online" /\ status' = "offline" /\ Fault("link")
    /\ saved' = IF tally'.faults < MaxFaults THEN entry ELSE NoEntry
    /\ UNCHANGED <<linkFrame, sweepReq, mine, theirs>>

(* The subscription is confirmed.  No code path stores a stream cursor, so *)
(* catchUpFromStream never replays and a full sweep is requested.          *)
Reconnect ==
    /\ status = "offline" /\ status' = "online"
    /\ requestFullSweep
    /\ UNCHANGED <<linkFrame, saved, people>>

(* stateWriter.flushNow; the file only matters while a crash may follow. *)
flushNow ==
    /\ "crash" \in Faults /\ tally.faults < MaxFaults
    /\ saved # entry /\ status # "boot"
    /\ saved' = entry
    /\ UNCHANGED <<folder, server, entry, pending, echo, status, events, queues, sweepReq,
                   loop, up, down, sweep, people>>

(* Between moveLocalToConflict and the rename the path is missing. *)
Torn ==
    /\ \/ down.pc = "commit" /\ local = down.snap /\ down.op.conflict
       \/ sweep.pc = "write" /\ actionStillCurrent /\ sweep.conflict /\ local # sweep.hash
    /\ local # None
    /\ copies' = copies \cup {local} /\ local' = None /\ UNCHANGED seen

(* The daemon stops and starts again from the state file: newSyncDaemon    *)
(* and start, whose initial sweep runs before the watcher is installed.    *)
Crash ==
    /\ Fault("crash")
    /\ Torn \/ UNCHANGED folder
    /\ status' = "boot" /\ sweepReq' = TRUE
    /\ entry' = saved /\ pending' = [count |-> 0, rescan |-> FALSE] /\ echo' = NoEcho
    /\ watch' = FALSE /\ localEvents' = 0 /\ remoteEvents' = 0
    /\ uploads' = <<>> /\ uploadResults' = <<>>
    /\ downloads' = <<>> /\ downloadResults' = <<>> /\ timers' = {}
    /\ loop' = IdleLoop /\ up' = IdleUp /\ down' = IdleDown /\ sweep' = IdleSweep
    /\ UNCHANGED <<server, saved, mine, theirs>>

-----------------------------------------------------------------------------
(* A running daemon whose folder and workspace agree, with or without the  *)
(* file.                                                                   *)
Init ==
    /\ local \in {0, None}
    /\ remote = [data |-> local, rev |-> 1]
    /\ entry = IF local = None THEN NoEntry
               ELSE [hash |-> 0, lm |-> 0, rm |-> 1, ver |-> 1, deleted |-> FALSE]
    /\ copies = {} /\ seen = {0} /\ published = {0}
    /\ pending = [count |-> 0, rescan |-> FALSE]
    /\ echo = NoEcho
    /\ watch = FALSE /\ localEvents = 0 /\ remoteEvents = 0
    /\ uploads = <<>> /\ uploadResults = <<>>
    /\ downloads = <<>> /\ downloadResults = <<>> /\ timers = {}
    /\ sweepReq = FALSE
    /\ loop = IdleLoop /\ up = IdleUp /\ down = IdleDown /\ sweep = IdleSweep
    /\ status = "online" /\ saved = entry
    /\ tally = [local |-> 0, peer |-> 0, faults |-> 0, swept |-> "no"]
    /\ mine = None /\ theirs = None

EventLoop == handleLocalEvent \/ handleRemoteEvent \/ ActRemote
             \/ handleUploadResult \/ handleDownloadResult

Uploader == TakeUpload \/ Match \/ PublishFile \/ PublishDelete \/ FinishUpload

Downloader == TakeDownload \/ DownloadStat \/ DownloadCat \/ StageDownload \/ CommitDownload
              \/ RecordDownload \/ ConfirmDelete \/ DeleteLocal

Sweep == ScanLocal \/ detectOfflineDeletes \/ ScanRemote \/ buildPlan \/ DropAction
         \/ DropRemoteAction \/ execUpload \/ SweepEcho \/ RecordSweepUpload
         \/ execDownload \/ SweepWrite \/ RecordSweepDownload \/ execDeleteLocal \/ SweepRemove
         \/ execDeleteRemote \/ SweepRm \/ RecordSweepDelete \/ cleanupTombstones

Environment == AppWrite \/ AppDelete \/ PeerWrite \/ PeerDelete
               \/ UploadFails \/ DownloadFails \/ SweepFails \/ Disconnect \/ Crash

Next == Environment \/ Reconnect \/ flushNow \/ flush \/ SendDelete
        \/ EventLoop \/ Uploader \/ Downloader \/ Sweep

Spec == Init /\ [][Next]_vars

(* Every goroutine that can run is scheduled, every timer fires and the    *)
(* client keeps trying to subscribe.                                       *)
FairSpec ==
    /\ Spec
    /\ WF_vars(EventLoop) /\ WF_vars(Uploader) /\ WF_vars(Downloader) /\ WF_vars(Sweep)
    /\ WF_vars(flush) /\ WF_vars(SendDelete) /\ WF_vars(Reconnect)

-----------------------------------------------------------------------------
LoopState == [pc: {"idle", "look", "act"}, stored: SyncEntry, rm: Nat]
UpState == [pc: {"idle", "match", "publish", "finish"}, op: UploadOp, rm: Nat]
DownState == [pc: {"idle", "stat", "cat", "stage", "commit", "mark", "record", "confirm", "remove"},
              op: DownloadOp, snap: Maybe, rm: Nat, hash: Maybe, copy: BOOLEAN]
SweepState == [pc: {"idle", "offline", "remote", "plan", "upload", "echo", "uploaded", "download",
                    "write", "mark", "adopt", "delete-local", "remove", "delete-remote", "rm",
                    "removed", "clean"},
               l: Maybe, r: Maybe, rm: Nat, base: SyncEntry, conflict: BOOLEAN, hash: Maybe]

(* Every variable keeps its type and no channel exceeds its capacity.      *)
TypeOK ==
    /\ local \in Maybe /\ copies \subseteq Version /\ seen \subseteq Version
    /\ remote \in [data: Maybe, rev: Nat] /\ published \subseteq Version
    /\ entry \in SyncEntry /\ pending \in [count: Nat, rescan: BOOLEAN]
    /\ echo \in [kind: {"none", "file", "delete"}, hash: Maybe]
    /\ watch \in BOOLEAN /\ localEvents \in 0 .. QueueCap /\ remoteEvents \in 0 .. QueueCap
    /\ uploads \in Seq(UploadOp) /\ Len(uploads) <= QueueCap
    /\ uploadResults \in Seq(UploadResult) /\ Len(uploadResults) <= QueueCap
    /\ downloads \in Seq(DownloadOp) /\ Len(downloads) <= QueueCap
    /\ downloadResults \in Seq(DownloadResult) /\ Len(downloadResults) <= QueueCap
    /\ timers \subseteq UploadOp /\ IsFiniteSet(timers)
    /\ sweepReq \in BOOLEAN
    /\ status \in {"boot", "offline", "online"} /\ saved \in SyncEntry
    /\ loop \in LoopState /\ up \in UpState /\ down \in DownState /\ sweep \in SweepState
    /\ tally \in [local: 0 .. MaxLocal, peer: 0 .. MaxPeer, faults: Nat,
                  swept: {"no", "running", "done"}]
    /\ mine \in Maybe /\ theirs \in Maybe

(* What the application last wrote is in the folder, in a conflict copy,   *)
(* or was published: downloads, sweeps and inbound deletions never replace *)
(* or remove it otherwise, whatever they were planned from.                *)
LocalEditKept ==
    mine # None => mine = local \/ mine \in copies \/ mine \in published

(* What the peer last published is still published, or was in the folder   *)
(* before this client replaced or removed it: no upload, sweep or outbound *)
(* deletion acts on a version it has not seen.                             *)
PeerEditKept ==
    theirs # None => theirs = remote.data \/ theirs \in seen

(* Neither side's last version is lost, whatever sync_state.go had saved   *)
(* when the daemon stopped or the link failed.                             *)
NothingLost == LocalEditKept /\ PeerEditKept

(* Nothing is running, queued or requested, and no upload is tracked. *)
Quiet ==
    /\ Idle /\ status = "online" /\ sweep.pc = "idle" /\ ~sweepReq
    /\ pending.count = 0

(* A sweep that began after the last change and failure, with the workers  *)
(* idle, has brought the folder and the workspace together once everything *)
(* is quiet again.  A tombstone may still hide the published file.         *)
SweepSettles ==
    Quiet /\ tally.swept = "done" /\ ~Tombstone(entry) => local = remote.data

(* When the changes and failures end, so do the retries: the requested     *)
(* sweeps, the operations they queue and the results that request sweeps   *)
(* run out, and no upload stays tracked (which would defer every later     *)
(* scan of the path).                                                      *)
SettlesDown == <>[]Quiet

(* While the application leaves the file alone and no call fails, the      *)
(* folder ends with what the peer published last, however many of the      *)
(* notifications the full channels turn into sweeps.  (handleRemoteEvent   *)
(* and remoteSubscriptionPump.send; the peer writes and does not delete.)  *)
PeerChangesArrive == <>[](local = remote.data)

=============================================================================
