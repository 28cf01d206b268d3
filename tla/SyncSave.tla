----------------------------- MODULE SyncSave ------------------------------
(***************************************************************************)
(* The strict save of a synced folder (cmd/afs/sync_save_*.go): `afs sync  *)
(* save` and `afs unmount` ask the service of the mount, through a request *)
(* file, to stop the steady workers, publish the local tree, verify it in  *)
(* Redis, record the baseline and start a new generation of workers.       *)
(*                                                                         *)
(* The application goes on editing, peers go on publishing, the operation  *)
(* that a worker has in hand ends while the save waits for it, calls fail, *)
(* the caller's deadline passes and the process dies. The steady workers   *)
(* are here as far as a save meets them; FolderSync models them in full.   *)
(***************************************************************************)
EXTENDS Integers, Sequences, FiniteSets, SequencesExt

CONSTANTS Walk,         \* the paths of the folder, in the order of a walk
          ConflictCopy, \* the path a conflicting local file is moved to
          Start,        \* the tree that both sides held when they were last in sync
          Edited,       \* the trees the application has made of it since
          AppEdits, PeerEdits,  \* pairs of a path and an entry to write there
          Chunked(_),   \* whether content is over the chunk threshold
          DirMode,      \* the mode that Mkdir gives
          MaxRequests,  \* requests that are made
          MaxEvents     \* edits, publications of peers, jobs of workers and faults

VARIABLES
    local, root,   \* the folder, and whether it is still the mounted directory
    remote,        \* the Redis tree
    base, disk,    \* the baseline in memory and in the state file
    daemon, job, results, rescan,   \* the generation of workers
    save, late,    \* the request in progress, and whether its deadline has passed
    mine,          \* edits the running save met, unpublished then and not touched since
    clock, budget

folder == <<local, root>>
workers == <<daemon, job, results, rescan>>
baseline == <<base, disk>>
vars == <<folder, remote, baseline, workers, save, late, mine, clock, budget>>

Path == Range(Walk)
None == [type |-> "none", mode |-> 0, data |-> <<>>]
IsNone(e) == e.type = "none"
ParentOf(p) == SubSeq(p, 1, Len(p) - 1)
HasChildren(tree, p) == \E q \in Path : q # <<>> /\ ParentOf(q) = p /\ ~IsNone(tree[q])
HasParent(tree, p) == ParentOf(p) # <<>> => tree[ParentOf(p)].type = "dir"

(* What a scan reports: a symlink has no portable mode.                    *)
syncSaveMode(e) == IF e.type = "symlink" THEN 0 ELSE e.mode
Manifest(e) == [type |-> e.type, mode |-> syncSaveMode(e), data |-> e.data]

sameSyncSaveContent(a, b) == a.type = b.type /\ a.data = b.data
equalSyncSaveEntry(a, b) == syncSaveMode(a) = syncSaveMode(b) /\ sameSyncSaveContent(a, b)
compareSyncSaveTrees(a, b) == \A p \in Path : equalSyncSaveEntry(a[p], b[p])

CurrentChunks(data) == IF Chunked(data) THEN data ELSE <<>>

Idle == [pc |-> "idle"]
NoJob == [kind |-> "none"]

(* A local entry has a stamp, its identity and modification time; a Redis  *)
(* entry a revision, its chunk manifest and the side that published it.    *)
Init ==
    /\ \E tree \in Edited :
          local = [p \in Path |-> tree[p] @@ [stamp |-> IF tree[p] = Start[p] THEN 0 ELSE 1]]
    /\ remote = [p \in Path |->
                   Start[p] @@ [rev |-> IF IsNone(Start[p]) THEN 0 ELSE 1,
                                meta |-> CurrentChunks(Start[p].data), by |-> "us"]]
    /\ base = [p \in Path |-> Manifest(Start[p]) @@ [stamp |-> 0, rev |-> remote[p].rev]]
    /\ disk = base
    /\ root = "mounted" /\ daemon = "running" /\ job = NoJob /\ results = <<>> /\ rescan = FALSE
    /\ save = Idle /\ late = FALSE /\ mine = << >> /\ clock = 1 /\ budget = [requests |-> MaxRequests, events |-> MaxEvents]

Spend(kind) == budget[kind] > 0 /\ budget' = [budget EXCEPT ![kind] = @ - 1]
Tick == clock' = clock + 1

(* A publication gives the entry a new revision.                           *)
Entry(e, meta, by) ==
    [type |-> e.type, mode |-> e.mode, data |-> e.data, by |-> by,
     rev |-> IF IsNone(e) THEN 0 ELSE clock + 1, meta |-> IF IsNone(e) THEN <<>> ELSE meta]
LocalEntry(e) == [type |-> e.type, mode |-> e.mode, data |-> e.data, stamp |-> clock + 1]
Tracked(e, stamp, rev) == Manifest(e) @@ [stamp |-> stamp, rev |-> rev]
Fits(tree, p, e) ==
    IF IsNone(e) THEN ~IsNone(tree[p]) /\ ~HasChildren(tree, p)
    ELSE HasParent(tree, p) /\ (e.type # "dir" => ~HasChildren(tree, p))

---------------------------------------------------------------------------
(* The application and the peers.                                          *)

Without(path) == [p \in DOMAIN mine \ {path} |-> mine[p]]

Edit ==
    \E c \in AppEdits :
        /\ Fits(local, c[1], c[2]) /\ ~equalSyncSaveEntry(local[c[1]], c[2])
        /\ Spend("events") /\ Tick
        /\ local' = [local EXCEPT ![c[1]] = LocalEntry(c[2])]
        /\ mine' = Without(c[1])
        /\ UNCHANGED <<root, remote, baseline, workers, save, late>>

ReplaceRoot ==
    /\ root = "mounted" /\ Spend("events")
    /\ root' = "replaced"
    /\ UNCHANGED <<local, remote, baseline, workers, save, late, mine, clock>>

(* A peer writes whole files, which keeps the chunk manifest, or chunks.   *)
Peer ==
    \E c \in PeerEdits : \E meta \in {remote[c[1]].meta, CurrentChunks(c[2].data)} :
        /\ Fits(remote, c[1], c[2]) /\ ~equalSyncSaveEntry(remote[c[1]], c[2])
        /\ Spend("events") /\ Tick
        /\ remote' = [remote EXCEPT ![c[1]] = Entry(c[2], meta, "peer")]
        /\ save' = IF "quiet" \in DOMAIN save THEN [save EXCEPT !.quiet = FALSE] ELSE save
        /\ UNCHANGED <<folder, baseline, workers, late, mine>>

---------------------------------------------------------------------------
(* The operation a steady worker has in hand: it has compared both sides   *)
(* with the baseline.                                                      *)

Take(kind, p, e, stamp) ==
    /\ daemon = "running" /\ job = NoJob /\ root = "mounted" /\ Spend("events")
    /\ job' = [kind |-> kind, path |-> p, entry |-> Manifest(e), stamp |-> stamp, rev |-> remote[p].rev]
    /\ UNCHANGED <<folder, remote, baseline, daemon, results, rescan, save, late, mine, clock>>
TakeUpload ==
    \E p \in Path : /\ ~equalSyncSaveEntry(local[p], base[p]) /\ equalSyncSaveEntry(remote[p], base[p])
                    /\ Fits(remote, p, local[p])
                    /\ Take("upload", p, local[p], local[p].stamp)
TakeDownload ==
    \E p \in Path : ~equalSyncSaveEntry(remote[p], base[p]) /\ Fits(local, p, remote[p])
                    /\ Take("download", p, remote[p], 0)

(* The conditional publication, and the result that waits for the          *)
(* reconciler (uploadResCh, stoppedResults). A conflict leaves no result.  *)
FinishUpload ==
    /\ job.kind = "upload" /\ job' = NoJob
    /\ IF remote[job.path].rev = job.rev /\ Fits(remote, job.path, job.entry)
       THEN /\ Tick
            /\ remote' = [remote EXCEPT ![job.path] = Entry(job.entry, @.meta, "us")]
            /\ results' = Append(results, [job EXCEPT !.rev = remote'[job.path].rev])
            /\ mine' = Without(job.path)
       ELSE UNCHANGED <<clock, remote, results, mine>>
    /\ UNCHANGED <<folder, baseline, daemon, rescan, save, late, budget>>

Acknowledged_Now(r) == Tracked(local[r.path], local[r.path].stamp, r.rev)
Acknowledged(r) == Tracked(r.entry, r.stamp, r.rev)

HandleResult ==
    /\ daemon = "running" /\ results # <<>>
    /\ base' = [base EXCEPT ![results[1].path] = Acknowledged(results[1])]
    /\ disk' \in {disk, base'}
    /\ results' = Tail(results)
    /\ UNCHANGED <<folder, remote, daemon, job, rescan, save, late, mine, clock, budget>>

(* A download replaces a local entry that is as the baseline says, and     *)
(* moves an edited file to a conflict copy first. captureMoves lets no     *)
(* move happen during the first scan. The reconciler of a stopping         *)
(* generation may be gone before the download's result reaches it.         *)
FinishDownload ==
    LET p == job.path
        Moot == equalSyncSaveEntry(local[p], job.entry) \/ ~Fits(local, p, job.entry)
        Unedited == equalSyncSaveEntry(local[p], base[p])
        Conflict == local[p].type = "file" /\ ~IsNone(job.entry) /\ IsNone(local[ConflictCopy])
        Landed == [local EXCEPT ![p] = LocalEntry(job.entry)]
    IN /\ job.kind = "download" /\ job' = NoJob
       /\ IF root = "mounted" /\ ~Moot /\ (Unedited \/ Conflict)
          THEN /\ IF Unedited THEN local' = Landed /\ UNCHANGED save
                  ELSE /\ save.pc # "before"
                       /\ local' = [Landed EXCEPT ![ConflictCopy] = local[p]]
                       /\ save' = IF save.pc = "drain"
                                  THEN [save EXCEPT !.moves = Append(@, [source |-> p, stamp |-> local[p].stamp])]
                                  ELSE save
               /\ base' \in {[base EXCEPT ![p] = Tracked(job.entry, clock + 1, job.rev)]}
                            \cup (IF daemon = "draining" THEN {base} ELSE {})
               /\ Tick
          ELSE UNCHANGED <<local, save, base, clock>>
       /\ UNCHANGED <<root, remote, disk, daemon, results, rescan, late, mine, budget>>

(* A job that fails, or that the deadline of the save cancels.             *)
DropJob ==
    /\ job # NoJob /\ job' = NoJob
    /\ (daemon = "draining" /\ late /\ UNCHANGED budget) \/ Spend("events")
    /\ UNCHANGED <<folder, remote, baseline, daemon, results, rescan, save, late, mine, clock>>

---------------------------------------------------------------------------
(* Requests. A caller that times out retracts its request; the service     *)
(* removes the request it answers.                                         *)

Request(op) ==
    /\ save = Idle /\ Spend("requests")
    /\ save' = [pc |-> "asked", op |-> op] /\ late' = FALSE
    /\ UNCHANGED <<folder, remote, baseline, workers, mine, clock>>

Deadline ==
    /\ save # Idle /\ ~late /\ Spend("events")
    /\ late' = TRUE
    /\ UNCHANGED <<folder, remote, baseline, workers, save, mine, clock>>

Retract ==
    /\ save.pc = "asked" /\ late
    /\ save' = Idle
    /\ UNCHANGED <<folder, remote, baseline, workers, late, mine, clock, budget>>

Answered == save' = Idle /\ mine' = << >>

Detach ==
    /\ save.pc = "asked" /\ save.op = "detach"
    /\ daemon' = "none" /\ job' = NoJob /\ results' = <<>> /\ disk' = base
    /\ Answered
    /\ UNCHANGED <<folder, remote, base, rescan, late, clock, budget>>

Unpublished ==
    {p \in Path : /\ ~equalSyncSaveEntry(local[p], base[p]) /\ ~equalSyncSaveEntry(local[p], remote[p])
                  /\ \A i \in DOMAIN results : results[i].path # p}

(* handleRequest and the head of saveWithResume.                           *)
Refuse ==
    /\ save.pc = "asked" /\ save.op # "detach" /\ (daemon = "none" \/ late)
    /\ Answered
    /\ UNCHANGED <<folder, remote, baseline, workers, late, clock, budget>>
Begin ==
    /\ save.pc = "asked" /\ save.op # "detach" /\ daemon = "running" /\ ~late
    /\ save' = [pc |-> "before", op |-> save.op, todo |-> Walk, scan |-> << >>, before |-> << >>,
                tree |-> << >>, moves |-> <<>>, seen |-> << >>, dirs |-> <<>>, unread |-> {}, at |-> <<>>,
                remove |-> <<>>, write |-> <<>>, err |-> FALSE, verify |-> FALSE, quiet |-> FALSE]
    /\ mine' = [p \in Unpublished |-> Manifest(local[p])]
    /\ UNCHANGED <<folder, remote, baseline, workers, late, clock, budget>>

(* Every check of the context, every conflict and every failed call ends   *)
(* the save in the tail of saveWithResume; only a failure of the first     *)
(* scan returns with the workers untouched.                                *)
Failing == save' = [save EXCEPT !.err = TRUE, !.pc = IF save.pc = "before" THEN "answer" ELSE "resume"]
Steps == {"before", "after", "list", "read", "check", "remove", "write", "chmod", "chunks", "persist", "local"}
quietly == <<folder, remote, baseline, workers, late, mine, clock>>

Abort ==
    /\ save.pc \in Steps
    /\ (late /\ UNCHANGED budget) \/ Spend("events")
    /\ Failing
    /\ UNCHANGED quietly

---------------------------------------------------------------------------
(* scanSyncSaveLocal: one entry of the walk at a time. A file that changes *)
(* while it is hashed fails the scan.                                      *)

Rescan(pc) == [save EXCEPT !.pc = pc, !.todo = Walk, !.scan = << >>]
List(s) == [s EXCEPT !.pc = "list", !.seen = << >>, !.dirs = << << >> >>, !.unread = {}]

(* compareSyncSaveDrainTrees: an acknowledged conflict move carries the    *)
(* entry that the first scan saw.                                          *)
Moved(tree, move) ==
    [tree EXCEPT ![ConflictCopy] = tree[move.source], ![move.source] = None @@ [stamp |-> 0]]
MoveKnown(tree, move) == ~IsNone(tree[move.source])
MoveFits(tree, move) == tree[move.source].stamp = move.stamp /\ IsNone(tree[ConflictCopy])
compareSyncSaveDrainTrees(before, after, moves) ==
    IF moves = <<>> \/ ~MoveKnown(before, moves[1]) THEN compareSyncSaveTrees(before, after)
    ELSE /\ MoveFits(before, moves[1])
         /\ compareSyncSaveTrees(Moved(before, moves[1]), after)
         /\ after[ConflictCopy].stamp = moves[1].stamp

Scanning == save.pc \in {"before", "after", "check", "local"}
ScanNext ==
    /\ Scanning /\ save.todo # <<>> /\ ~late /\ root = "mounted"
    /\ save' = [save EXCEPT !.scan = (save.todo[1] :> (Manifest(local[save.todo[1]]) @@ [stamp |-> local[save.todo[1]].stamp])) @@ @,
                            !.todo = Tail(@)]
    /\ UNCHANGED <<quietly, budget>>
ScanFails ==
    /\ Scanning /\ root # "mounted"
    /\ Failing
    /\ UNCHANGED <<quietly, budget>>
ScanEnd ==
    /\ Scanning /\ save.todo = <<>> /\ ~late
    /\ \/ /\ save.pc = "before"
          /\ save' = [save EXCEPT !.pc = "drain", !.before = save.scan]
          /\ daemon' = "draining"
       \/ /\ save.pc = "after"
          /\ IF compareSyncSaveDrainTrees(save.before, save.scan, save.moves)
             THEN save' = List([save EXCEPT !.tree = save.scan, !.before = << >>])
             ELSE Failing
          /\ UNCHANGED daemon
       \/ /\ save.pc = "check"
          /\ IF compareSyncSaveTrees(save.tree, save.scan) THEN save' = [save EXCEPT !.pc = "remove"] ELSE Failing
          /\ UNCHANGED daemon
       \/ /\ save.pc = "local"
          /\ IF compareSyncSaveTrees(save.tree, save.scan) THEN save' = [save EXCEPT !.pc = "persist"] ELSE Failing
          /\ UNCHANGED daemon
    /\ UNCHANGED <<folder, remote, baseline, job, results, rescan, late, mine, clock, budget>>

(* StopForSave joins the workers, whose last act is to flush the baseline; *)
(* applyStoppedUploadResults then takes the results they left, except one  *)
(* older than what the baseline has.                                       *)
Newer(e, r) == ~IsNone(e) /\ ~IsNone(r.entry) /\ e.rev > r.rev
applyStoppedUploadResults(b) ==
    FoldLeft(LAMBDA acc, r : IF Newer(acc[r.path], r) THEN acc ELSE [acc EXCEPT ![r.path] = Acknowledged(r)], b, results)
Join ==
    /\ save.pc = "drain" /\ job = NoJob
    /\ daemon' = "none" /\ results' = <<>>
    /\ disk' = base /\ base' = applyStoppedUploadResults(base)
    /\ save' = Rescan("after")
    /\ UNCHANGED <<folder, remote, job, rescan, late, mine, clock, budget>>

---------------------------------------------------------------------------
(* scanSyncSaveRemote: a listing of every directory gives types, modes and *)
(* sizes; every entry then has its Stat, and its content or target, read.  *)
(* Readers of small files run side by side.                                *)

ListDir ==
    LET d == save.dirs[1]
        found == {q \in Path : ParentOf(q) = d /\ ~IsNone(remote[q])}
    IN /\ save.pc = "list" /\ save.dirs # <<>> /\ ~late
       /\ IF d # <<>> /\ remote[d].type # "dir" THEN Failing
          ELSE save' = [save EXCEPT
                 !.seen = [q \in found |-> [type |-> remote[q].type, mode |-> syncSaveMode(remote[q]),
                                            size |-> Len(remote[q].data)]] @@ @,
                 !.dirs = Tail(@) \o SetToSeq({q \in found : remote[q].type = "dir"}),
                 !.unread = @ \cup found]
       /\ UNCHANGED <<quietly, budget>>

StatEntry ==
    /\ save.pc = "list" /\ save.dirs = <<>> /\ ~late
    /\ \E p \in save.unread :
          IF IsNone(remote[p]) THEN Failing
          ELSE save' = [save EXCEPT !.pc = "read", !.at = p, !.seen[p] = @ @@ [rev |-> remote[p].rev]]
    /\ UNCHANGED <<quietly, budget>>

scanSyncSaveRemoteFile ==
    LET p == save.at
        e == save.seen[p]
        Body == CASE e.type = "dir" -> [data |-> <<>>, has |-> FALSE, current |-> TRUE]
                  [] e.type = "symlink" -> [data |-> remote[p].data, has |-> FALSE, current |-> TRUE]
                  [] e.type = "file" -> [data |-> remote[p].data, has |-> remote[p].meta # <<>>,
                                         current |-> remote[p].meta = CurrentChunks(remote[p].data)]
    IN /\ save.pc = "read" /\ ~late
       /\ IF \/ e.type # "dir" /\ remote[p].type # e.type
             \/ e.type = "file" /\ Len(remote[p].data) # e.size
          THEN Failing
          ELSE save' = [save EXCEPT !.pc = "list", !.seen[p] = @ @@ Body, !.unread = @ \ {p}, !.at = <<>>]
       /\ UNCHANGED <<quietly, budget>>

(* planSyncSave: what Redis holds is intended, or as the baseline says, in *)
(* content and in mode; any third value is a conflict. Children go before  *)
(* parents, parents come before children.                                  *)
Seen(p) == IF p \in DOMAIN save.seen THEN save.seen[p] ELSE None
Intended(p) == save.tree[p]
syncSaveMatchesBaseline(p) == equalSyncSaveEntry(Seen(p), base[p])
Conflicting(p) ==
    LET tracked == ~IsNone(base[p]) IN
    /\ ~IsNone(Seen(p)) /\ ~equalSyncSaveEntry(Intended(p), Seen(p))
    /\ ~(tracked /\ syncSaveMatchesBaseline(p))
    /\ \/ IsNone(Intended(p))
       \/ ~sameSyncSaveContent(Intended(p), Seen(p)) /\ ~(tracked /\ sameSyncSaveContent(base[p], Seen(p)))
       \/ /\ Seen(p).mode # Intended(p).mode
          /\ ~(tracked /\ base[p].type = Seen(p).type /\ Seen(p).mode = base[p].mode)
Removed(p) ==
    /\ ~IsNone(Seen(p)) /\ ~equalSyncSaveEntry(Intended(p), Seen(p))
    /\ Intended(p).type # Seen(p).type \/ (Intended(p).type = "symlink" /\ Intended(p).data # Seen(p).data)
Written(p) == ~IsNone(Intended(p)) /\ ~equalSyncSaveEntry(Intended(p), Seen(p))
syncSavePathBefore(p, q) == Len(p) < Len(q)
Scanned == save.pc = "list" /\ save.dirs = <<>> /\ save.unread = {} /\ ~late

planSyncSave ==
    /\ Scanned /\ ~save.verify
    /\ IF \E p \in Path : Conflicting(p) THEN Failing
       ELSE save' = [Rescan("check") EXCEPT
              !.remove = SetToSortSeq({p \in Path : Removed(p)}, LAMBDA p, q : syncSavePathBefore(q, p)),
              !.write = SetToSortSeq({p \in Path : Written(p)}, syncSavePathBefore)]
    /\ UNCHANGED <<quietly, budget>>

---------------------------------------------------------------------------
(* The conditional removals and writes. A write of a file reads it again   *)
(* and publishes it over the Stat of the scan, or over an absent path.     *)
(* EchoCreate keeps the chunk manifest; a call creates missing parents.    *)

Done(field, pc) ==
    IF Len(save[field]) = 1 THEN [save EXCEPT ![field] = <<>>, !.pc = pc] ELSE [save EXCEPT ![field] = Tail(@)]
WithParents(p, e) ==
    LET d == ParentOf(p) IN
    [q \in Path |->
       IF q = p THEN e
       ELSE IF q = d /\ IsNone(remote[d]) THEN Entry([type |-> "dir", mode |-> DirMode, data |-> <<>>], <<>>, "us")
       ELSE remote[q]]
ParentsFit(p) == ParentOf(p) # <<>> => remote[ParentOf(p)].type \in {"none", "dir"}
applied == <<folder, baseline, workers, late, mine, budget>>

SeenRev(p) == IF IsNone(Seen(p)) THEN 0 ELSE Seen(p).rev
WithExpectedStat_Any(p) == TRUE
WithExpectedStat(p) == remote[p].rev = SeenRev(p)

removeSyncSaveEntry ==
    LET p == save.remove[1] IN
    /\ save.pc = "remove" /\ save.remove # <<>> /\ ~late
    /\ IF WithExpectedStat(p) /\ ~HasChildren(remote, p)
       THEN /\ remote' = [remote EXCEPT ![p] = Entry(None, <<>>, "us")] /\ Tick
            /\ save' = [Done("remove", "remove") EXCEPT !.seen = [q \in DOMAIN @ \ {p} |-> @[q]]]
       ELSE Failing /\ UNCHANGED <<remote, clock>>
    /\ UNCHANGED applied
RemovalsEnd ==
    /\ save.pc = "remove" /\ save.remove = <<>>
    /\ save' = [save EXCEPT !.pc = "write"]
    /\ UNCHANGED <<quietly, budget>>

Publish(e, p) ==
    /\ remote' = WithParents(p, e) /\ Tick
    /\ save' = Done("write", "write")
writeSyncSaveEntry ==
    LET p == save.write[1]
        e == Intended(p)
        old == Seen(p)
    IN /\ save.pc = "write" /\ save.write # <<>> /\ ~late
       /\ \/ /\ ~IsNone(old) /\ sameSyncSaveContent(e, old)
             /\ IF IsNone(remote[p]) THEN Failing /\ UNCHANGED <<remote, clock>>
                ELSE Publish([remote[p] EXCEPT !.mode = e.mode, !.rev = clock + 1], p)
          \/ /\ ~sameSyncSaveContent(e, old) /\ e.type = "dir"
             /\ IF ~ParentsFit(p) \/ remote[p].type \notin {"none", "dir"} THEN Failing /\ UNCHANGED <<remote, clock>>
                ELSE /\ remote' = IF IsNone(remote[p])
                                  THEN WithParents(p, Entry([e EXCEPT !.mode = DirMode], <<>>, "us")) ELSE remote
                     /\ save' = IF e.mode = DirMode THEN Done("write", "write") ELSE [save EXCEPT !.pc = "chmod"]
                     /\ Tick
          \/ /\ ~sameSyncSaveContent(e, old) /\ e.type = "symlink"
             /\ IF ~ParentsFit(p) \/ ~IsNone(remote[p]) THEN Failing /\ UNCHANGED <<remote, clock>>
                ELSE Publish(Entry(e, <<>>, "us"), p)
          \/ /\ ~sameSyncSaveContent(e, old) /\ e.type = "file"
             /\ IF /\ root = "mounted" /\ equalSyncSaveEntry(local[p], e)
                   /\ ParentsFit(p) /\ remote[p].type \in {"none", "file"} /\ WithExpectedStat(p)
                THEN Publish(Entry(e, remote[p].meta, "us"), p)
                ELSE Failing /\ UNCHANGED <<remote, clock>>
       /\ UNCHANGED applied

(* A directory gets its mode from a second call. If that fails, the        *)
(* baseline takes the directory as it was created.                         *)
finishSyncSaveCreate ==
    LET p == save.write[1] IN
    /\ save.pc = "chmod" /\ ~late
    /\ \/ /\ ~IsNone(remote[p])
          /\ remote' = [remote EXCEPT ![p].mode = Intended(p).mode, ![p].rev = clock + 1] /\ Tick
          /\ save' = [Done("write", "write") EXCEPT !.pc = "write"]
          /\ UNCHANGED <<base, budget>>
       \/ /\ (IsNone(remote[p]) /\ UNCHANGED budget) \/ Spend("events")
          /\ base' = [base EXCEPT ![p] = Tracked([type |-> "dir", mode |-> DirMode, data |-> <<>>], 0 - 1, 0)]
          /\ Failing
          /\ UNCHANGED <<remote, clock>>
    /\ UNCHANGED <<folder, disk, workers, late, mine>>

(* The chunk manifests are made to match the saved bytes. The conditional  *)
(* publication fails when the file changes after it was read back.         *)
ChunksCurrent(p) == p \in DOMAIN save.seen /\ Seen(p).current
WritesEnd ==
    /\ save.pc = "write" /\ save.write = <<>>
    /\ save' = [save EXCEPT !.pc = "chunks",
                            !.unread = {p \in Path :
                               /\ Intended(p).type = "file"
                               /\ Chunked(Intended(p).data) \/ (p \in DOMAIN save.seen /\ Seen(p).has)
                               /\ ~(sameSyncSaveContent(Intended(p), Seen(p)) /\ ChunksCurrent(p))}]
    /\ UNCHANGED <<quietly, budget>>
NormalizeChunks ==
    /\ save.pc = "chunks" /\ ~late
    /\ \E p \in save.unread :
         IF root = "mounted" /\ equalSyncSaveEntry(local[p], Intended(p)) /\ sameSyncSaveContent(remote[p], Intended(p))
         THEN /\ remote' = [remote EXCEPT ![p].meta = CurrentChunks(remote[p].data), ![p].rev = clock + 1] /\ Tick
              /\ save' = [save EXCEPT !.unread = @ \ {p}]
         ELSE Failing /\ UNCHANGED <<remote, clock>>
    /\ UNCHANGED applied
Verify ==
    /\ save.pc = "chunks" /\ save.unread = {}
    /\ save' = [List(save) EXCEPT !.verify = TRUE, !.quiet = TRUE]
    /\ UNCHANGED <<quietly, budget>>
Matches_Trusted == TRUE
Matches == \A p \in Path : equalSyncSaveEntry(Intended(p), Seen(p))
Verified ==
    /\ Scanned /\ save.verify
    /\ IF Matches THEN save' = Rescan("local") ELSE Failing
    /\ UNCHANGED <<quietly, budget>>

(* The baseline is written after everything was verified.                  *)
Persist ==
    /\ save.pc = "persist" /\ ~late
    /\ IF \E p \in Path : Intended(p).type = "file" /\ ~ChunksCurrent(p) THEN Failing /\ UNCHANGED baseline
       ELSE /\ base' = [p \in Path |-> Tracked(save.scan[p], save.scan[p].stamp, SeenRev(p))]
            /\ disk' = base'
            /\ save' = [save EXCEPT !.pc = "resume"]
    /\ UNCHANGED <<folder, remote, workers, late, mine, clock, budget>>

---------------------------------------------------------------------------
(* The tail of saveWithResume: a new generation, unless this was a         *)
(* shutdown that succeeded. A generation that follows a failed save sweeps *)
(* both trees.                                                             *)

Err == save.err \/ late
Resumes == save.op # "shutdown" \/ Err
Resume ==
    /\ save.pc = "resume" /\ Resumes /\ root = "mounted"
    /\ daemon' = "running" /\ rescan' = Err /\ disk' = base
    /\ save' = [save EXCEPT !.pc = "answer", !.err = Err]
    /\ UNCHANGED <<folder, remote, base, job, results, late, mine, clock, budget>>
ResumeFails ==
    /\ save.pc = "resume" /\ Resumes
    /\ (root # "mounted" /\ UNCHANGED budget) \/ Spend("events")
    /\ save' = [save EXCEPT !.pc = "answer", !.err = TRUE]
    /\ UNCHANGED quietly
StaysDown ==
    /\ save.pc = "resume" /\ ~Resumes
    /\ save' = [save EXCEPT !.pc = "answer"]
    /\ UNCHANGED <<quietly, budget>>
Succeeds == save.pc = "answer" /\ ~save.err /\ ~late
Answer ==
    /\ save.pc = "answer" /\ Answered
    /\ UNCHANGED <<folder, remote, baseline, workers, late, clock, budget>>

(* The sweep of the new generation puts no work off: what differs from the *)
(* baseline is queued again.                                               *)
Sweep ==
    /\ daemon = "running" /\ rescan /\ save = Idle
    /\ rescan' = FALSE
    /\ UNCHANGED <<folder, remote, baseline, daemon, job, results, save, late, mine, clock, budget>>

(* The process dies and the mount is started again.                        *)
Crash ==
    /\ save.pc \notin {"idle", "asked"} /\ root = "mounted" /\ Spend("events")
    /\ base' = disk /\ daemon' = "running" /\ job' = NoJob /\ results' = <<>> /\ rescan' = TRUE
    /\ Answered
    /\ UNCHANGED <<folder, remote, disk, late, clock>>

Environment == Edit \/ ReplaceRoot \/ Peer \/ Deadline \/ Crash \/ \E op \in {"save", "shutdown", "detach"} : Request(op)
Worker == TakeUpload \/ TakeDownload \/ FinishUpload \/ HandleResult \/ FinishDownload \/ DropJob \/ Sweep
Service ==
    \/ Retract \/ Detach \/ Refuse \/ Begin \/ Abort \/ ScanNext \/ ScanFails \/ ScanEnd \/ Join
    \/ ListDir \/ StatEntry \/ scanSyncSaveRemoteFile \/ planSyncSave
    \/ removeSyncSaveEntry \/ RemovalsEnd \/ writeSyncSaveEntry \/ finishSyncSaveCreate
    \/ WritesEnd \/ NormalizeChunks \/ Verify \/ Verified \/ Persist
    \/ Resume \/ ResumeFails \/ StaysDown \/ Answer
Next == Environment \/ Worker \/ Service
Spec == Init /\ [][Next]_vars

---------------------------------------------------------------------------
(* A successful save has published the edits it met: every entry that was  *)
(* edited, and not published, when the save began, and that the            *)
(* application left alone since, is in the Redis tree, under its path or   *)
(* as a conflict copy (a deletion: its path is gone), unless a peer        *)
(* published during the verification (saveWithResume, syncSaveReceipt).    *)
PublishedAs(e, p) ==
    \/ equalSyncSaveEntry(e, remote[p])
    \/ ~IsNone(e) /\ equalSyncSaveEntry(e, remote[ConflictCopy])
SavedMeansPublished ==
    [][Succeeds /\ save' = Idle /\ save.quiet => \A p \in DOMAIN mine : PublishedAs(mine[p], p)]_vars

(* Neither a save nor a worker it waits for replaces or removes content of *)
(* a peer, unless it is the content of the baseline or of the saved tree   *)
(* (planSyncSave, WithExpectedStat).                                       *)
Known(p) == sameSyncSaveContent(remote[p], base[p])
            \/ ("tree" \in DOMAIN save /\ p \in DOMAIN save.tree /\ sameSyncSaveContent(remote[p], save.tree[p]))
PeerVersionKept ==
    [][\A p \in Path :
         remote[p].by = "peer" /\ ~IsNone(remote[p]) /\ remote'[p].by = "us" => Known(p)]_vars

(* What steady sync would bring down over an entry that was not edited     *)
(* since its baseline is a peer's publication: a baseline never lags       *)
(* behind, or runs ahead of, what this mount itself published, whatever    *)
(* failed and wherever the process died (saveSyncTree,                     *)
(* applyStoppedUploadResults, finishSyncSaveCreate).                       *)
Pending(p) == (job # NoJob /\ job.path = p) \/ \E i \in DOMAIN results : results[i].path = p
InboundIsForeign ==
    \A p \in Path :
       local[p].stamp = base[p].stamp /\ ~equalSyncSaveEntry(remote[p], base[p]) /\ ~Pending(p)
         => remote[p].by = "peer"
=============================================================================
