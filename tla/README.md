# A TLA+ verification of AFS

AFS keeps workspaces (file trees) in Redis and shows them to many machines: a
control plane administers workspaces and their checkpoints, clients mount a
workspace through FUSE or NFS, and a folder sync daemon keeps an ordinary
directory and a workspace equal in both directions. This directory holds TLA+
models of the parts where several actors meet, the TLC runs that check them on
small instances and TLAPS proofs that hold for every instance. Paths below are
relative to the repository root; `PROJECT.json` maps each definition to the
lines it models.

## 1. Inventory

| part | state | operations | meets |
| --- | --- | --- | --- |
| checkpoints (`internal/controlplane/service.go`, `checkpoint_commit.go`, `workspace_root*.go`, `history_restore_activity.go`) | workspace meta with its head, savepoint metas and manifests, blob reference counts, generation key, live root, clean mark, change journal, restore baseline | SaveCheckpointFromLive, RestoreCheckpoint, DeleteCheckpoint, UpdateWorkspaceSettings, DeleteWorkspace | clients that publish; each other |
| import lock (`import_lock.go`) | one key with an owner token and a TTL; a heartbeat per owner | acquire, refresh, expire, release, mark lost | restore, delete, import |
| workspace creation and fork (`service.go`, `cli_import.go`) | name mapping, a hidden workspace being built | create, import, fork | import lock, checkpoints |
| publication (`mount/internal/client/publication.go`, `native_core.go`) | inodes with a revision, directory entries, content or chunks, staged keys | Echo, Rm, Rename, Chmod, chunked writes; conditional variants | generation key, change feed, cache |
| file locks (`native_locks.go`) | byte-range locks of each inode by owner | Getlk, Setlk, UnlockAll, pruning | session leases |
| native sessions (`native_session.go`) | lease key with a TTL, admission counters | open, begin/finish, Barrier, renew, close | locks, publication |
| folder sync daemon (`cmd/afs/sync_*.go`) | baseline entry per path, echo expectations, tracked uploads, bounded channels, the state file | watcher, event loop, uploader, downloader, full sweep, subscription pump, state writer | applications, peers, Redis link |
| verified save (`sync_save_*.go`, `sync_control.go`) | request and result files, stopped workers | drain, plan, mutate, verify, resume | folder sync |
| mounts (`cmd/afs/sync_lifecycle.go`, `native_lifecycle.go`, `mount_state.go`, `mount_reconcile.go`, `cmd/afsmount`) | the registry file and its lock, daemons and helpers, kernel mounts, saved baselines | mount, unmount, `checkpoint create`, the plan of a mount | folder sync, native sessions, checkpoints |
| file history (`internal/filehistory`) | versions, lineages, blobs and their counts, policy | capture in the publication scripts, eviction, retention, restore of a version | publication |
| database connections (`controlplane/server_databases.go`, `database_lifecycle.go`, `metadata_store.go`, `metadata_postgres.go`) | the shared catalog with its revision; per instance a registry of handlers, their leases and Redis clients | refresh, route, add, edit, remove, default | several control plane instances |
| login (`cli_login.go`, `browser_sessions.go`, `api_keys.go`) | one-use codes, sessions, keys | start, approve, exchange, expire | the HTTP server |
| FUSE/NFS servers, CLI, MCP tools, HTTP views | little of their own | translate calls | the client |

What is hard here: operations of many Redis round trips that other processes
interleave with; WATCH transactions that protect exactly the keys they name; a
lock whose owner may outlive it; crashes between the steps of a restore; a
daemon of five goroutines that share one baseline entry, learn of changes late,
twice or never, and drop messages when a channel is full; retries that must
neither lose work nor run for ever; instances that cache a catalog others change.

What must hold: a checkpoint is a tree that once was live; clients never see a
half-restored tree; a restore never loses the tree it replaces; a deleted
workspace stays deleted; blobs in use are counted; neither an application's nor
a peer's last edit of a file is lost by sync; sync converges and stops; a save
that reports success has published what it met; the tree of a workspace stays
whole under concurrent clients and no operation is applied twice or undone;
locks exclude; control planes that share a catalog act as one.
`PROJECT.json` lists the hazards one by one at the line where they bite.

## 2. Modules

### Checkpoints

One workspace. `Proc` is the set of administrators' requests in flight; each has
a control point `pc` and its local variables `op`. Every Redis round trip whose
effect others can tell apart is one action:

- `Open`, `Publish`: a client records the live generation and publishes with
  the script that compares it.
- `AcquireImportLock`, `Release`, `LockExpires`, `Heartbeat`: the lock key, its
  TTL and the `lost` flag that `ImportLock.Lost` reads.
- `SaveStart` .. `SaveExec`: capture of the tree inode by inode, fenced by the
  journal position and generation, and the commit in a WATCH transaction.
- `RestoreStart` .. `CompleteRestore`: reads before the lock, fence, safety
  checkpoint, baseline, `restoring` mark, head move, deletion and rewriting of
  the root inode by inode, the atomic completion script; a retry of an
  interrupted restore takes the `recovering` path.
- `DeleteCheckpoint*`, `DeleteWorkspace*`: no lock, WATCHed keys; lock,
  tombstone, batches in any order, retirement of the meta.
- `UpdateWorkspaceSettings`: rewrites the meta and so aborts transactions.
- `Fail`, `Crash`: an I/O error (deferred release runs) or the death of the
  process (it does not) between any two steps.

A WATCH transaction is two steps: the reads record the watched keys in `watch`,
every write adds the watchers of its keys to `stale` (`Touch`), and the EXEC
returns an error for a stale process. Trees are functions from `File` to `Blob`;
`None` marks a file not read or written yet. Ghost variables record every tree
that was live, the last one shown, that a deletion has begun, and names used.

Left out: file history rebinding, journal payloads, audit and event streams,
blob bodies (written with SETNX and never removed). `FreshNames` says that no
checkpoint ID is used twice: a save does not take the ID of a deleted checkpoint
or one that another request is saving under. The runs set it, and the proofs about
clean marks and blob counts assume it; section 6 says what happens otherwise.

### FolderSync

One regular file, the daemon and one competing client. The application
(`AppWrite`, `AppDelete`) changes the folder, the peer (`PeerWrite`,
`PeerDelete`) publishes to the workspace. A version is a number that stands for
bytes, hash, and, locally, modification time and inode. The daemon's goroutines:

- watcher: `flush` (a debounced event, or a rescan request when the channel is
  full) and `SendDelete` (the 150 ms delay before a deletion is sent);
- event loop: `handleLocalEvent`, `handleRemoteEvent` with `ActRemote` (Redis is
  read, then acted on), `handleUploadResult`, `handleDownloadResult`;
- uploader: `TakeUpload`, `Match`, `PublishFile`, `PublishDelete`,
  `FinishUpload` (the stat after the write);
- downloader: `TakeDownload` .. `RecordDownload`, `ConfirmDelete`, `DeleteLocal`;
- full sweep: `ScanLocal`, `detectOfflineDeletes`, `ScanRemote`, `buildPlan`,
  then the action it chose, guarded by `actionStillCurrent`, then
  `cleanupTombstones`;
- process and link: `Disconnect`, `Reconnect`, `flushNow` (state file), `Crash`
  (restart from the state file, initial sweep before the watcher exists).

The actors share `entry` (the baseline), `echo`, `pending` (tracked uploads),
the folder and the bounded channels. `UploadFails`, `DownloadFails`,
`SweepFails` and the `event` fault are Redis calls that return an error.

Abstractions: the final check, conflict move and rename of a download are one
commit (a crash inside it is `Torn`); a worker's Stat and Cat that nothing can
separate usefully are one read; the client's attribute cache is always fresh;
the stored version counter is the smallest unused number. Directories,
symlinks, renames, modes and chunked transfers are left out, and so is
`coldStart`: the daemon has synchronized before. No code path stores a stream
cursor, so `catchUpFromStream` never replays and every reconnection is a sweep.

### SyncSave

The strict save of a sync mount (`afs sync save`, `afs unmount`): `Request`,
`Begin` and `Refuse` take a request, the workers are stopped and joined (`Join`,
`applyStoppedUploadResults`), the folder is scanned before and after
(`ScanNext`), Redis is listed and read (`ListDir` .. `scanSyncSaveRemoteFile`),
`planSyncSave` compares both with the baseline, `removeSyncSaveEntry`,
`writeSyncSaveEntry` and `NormalizeChunks` publish under the condition of the
plan, a second scan verifies, `Persist` stores the baseline, `Resume` starts new
workers and `Answer` writes the receipt. Meanwhile the application and peers
edit (`Edit`, `Peer`), the worker's last operation ends (`FinishUpload`,
`FinishDownload`, `DropJob`), the deadline passes, a step fails (`Abort`), the
folder is replaced, the process dies. The tree has directories, files and a
symlink, with modes; content over the threshold is chunked.

Left out: readonly mounts and status queries; the reads that make up one Stat or
Cat of a chunked file are one step.

### Mounts

The commands of one machine: each runs `mount`, `unmount` or `checkpoint create`
as a process with a control point, and the daemon or helper it starts bears its
name. `registry` and `holder` are `mounts.json` and its lock, `proc` the daemons,
`kernel` the directories that are native mount points, `client` the runtime
directory of each mount with the baseline. `DaemonStart` takes the decision of
`serveSyncDaemon` and `mount_reconcile.go`: whether a directory is joined,
refused or confirmed, and what the first reconciliation does with each path.

A directory's content is one token per path, every edit makes a new one; nested
directories count as an entry and do not share files. The size limit of the
plan, the five-minute expiry of tombstones and what a running native session
does are left out.

### LockTable, NativeSession

`NativeSession` has the admission gate of each session (`begin`, `finish`,
`Pause`, `Drain`, `Verify`), its lease (`renew`, `LeaseExpires`, `Close`,
`Crash`), and the advisory locks as the code stores them: a list of ranges per
owner in one hash, cut, joined and normalized by `applyFileLock`, written by
WATCH transactions that prune owners without a lease (`Watch`, `PruneAndTest`,
`Exec`). `LockTable` is the promise: a lock on every byte, decided at once.
`ImplementsLockTable` maps the lists to bytes (`Denotes`).

### FileHistory, Publication, NativeClient

`Publication` has the state of a workspace in Redis and its scripts, each one
atomic: publish a staged file, update, delete, rename, restore a version.
`FileHistory` is what the scripts do for the history: matching of policies
(`history_matches` in Lua, `Matches` in Go), capture, eviction, retention.
`NativeClient` runs operations of clients over them, every Redis command a step:
`resolvePath` walks entry by entry, through the cache of a mount and symlinks;
stages are filled; WATCH transactions bind directory handles
(`watchExpectedParents`); an answer may be lost and the script sent again with
the same token; ranges are read and changed by inode and published if the
revision is unchanged. A script that needs hashes prepared for the history runs
at most three times (`Prepared`), a rename as often as its transaction; a
publication or restore of unknown outcome looks for the token or the record it
would have left (`Ran`). Administrators change policies, sweeps prune, days pass.

Left out: chunk hashes and times, cached directory listings, `WarmPathCache`
(no caller). A symlink target is a path from the root.

### Catalog, Databases

`Databases` has several control plane instances over one PostgreSQL catalog. A
request refreshes the registry of its instance (`refresh`), leases handlers
(`acquire`), or checks a candidate connection, and saves under the claim of the
revision (`Claims`); replaced handlers retire and close when their last lease
ends (`Install`, `release`). Statements, pings and commits fail, a commit may
take effect without its outcome being learnt, instances shut down, crash and
boot. `Catalog` is one catalog without instances: a change is applied to what is
there at that moment or refused, and the answer says which.

An endpoint is a name, an address and an index. Left out: the SQLite mode, where
one process owns the catalog and refresh does nothing; a startup file with
several profiles (one connection stands for it).

### MC modules and proofs

`MCCheckpoints` adds the symmetry of the interchangeable constants (not used for
liveness); the other MC modules name instances and list the requests, trees and
edits that are tried. The modules with theorems are listed in section 4.

## 3. Runs

| run | shows |
| --- | --- |
| `ckpt_save` | Two administrators save and restore while a client writes two files, with one error or crash anywhere. `CheckpointIsSnapshot`: no checkpoint mixes two moments. `LiveTreeIsWhole`: no live generation shows a partial tree. `CleanMeansUnchanged`: a root marked clean equals its checkpoint. |
| `ckpt_delete` | All four operations with one fault. `ReplacedTreeKept`: while a restore replaces the root a checkpoint holds the tree last shown. `DeletionIsFinal`, `OneReplacement`, `RefCountCovers`, and `CheckpointsInv`, the inductive invariant of the proofs. |
| `ckpt_fence` | Liveness: a fence set by a restore ends (`FenceEnds`), with one fault that may also be a missed heartbeat. |
| `sync_faults` | One change on each side, at any moment, channels of capacity one, one failing call of any goroutine. `LocalEditKept`, `PeerEditKept`: nobody's last edit is lost. `SettlesDown`: retries end and no upload stays tracked. |
| `sync_recovery` | The same around an outage or a crash at any step. `NothingLost`; `SweepSettles`: after the recovering sweep folder and workspace agree. |
| `sync_overflow` | Two peer writes while other paths fill any channel. `PeerChangesArrive`: the last version arrives. |
| `sync_samesize` | A disagreement with the documentation, section 6. |
| `sync_save` | Two requests against edits, peers, a worker in flight, deadlines, failures, a replaced folder and crashes. `SavedMeansPublished`: a receipt means that the edits the save met are published. `PeerVersionKept`: content of a peer is never overwritten. `InboundIsForeign`: the baseline never makes the mount pull its own publication over a file. |
| `mounts` | Three commands with their daemons and helpers, killed anywhere. `ServedOnce`, `KernelMountRegistered`, `MountPreserves` (joining a directory never empties the workspace), `CheckpointHasEdits`. |
| `native_session` | Two mounts lock bytes of a file, close it and issue other requests while leases end, answers are lost and the workspace changes. `ImplementsLockTable`: the refinement. `LockExclusion`, `LostSessionWritesNothing`, `BarrierDrained`, and `BarrierEnds` under fairness. |
| `native_client` | Pairs of operations of two clients on two directories with a fault, and three on one file with a fault or events of the history. `StoreSound`, `RevisionIdentifies` (a cache entry of the current revision is true; an older one may be served until it expires), `HistoryAccounts`, `RetrySettles`, `BoundToParent`, `NoLostUpdate`, `OkMeansApplied`, `ReadsOnePublication`. `EveryChangeRecorded`: of every covered file a publication changes, removes or puts out of the way, the replaced bytes are a version, from before or from the baseline this capture writes, and what it becomes heads the lineage. |
| `databases` | Two instances, two requests of any kind, one fault. `ImplementsCatalog`: the refinement. `RoutesFresh`: no request is served by settings replaced before it arrived. `OpenExactlyInUse`: a Redis client is open exactly while it is registered, leased or about to be saved. |

### Bounds

Two administrators suffice for every pairwise race of the control plane; two
files are the least for which a tree can be torn, and two blobs the least for
which contents differ. `MaxChanges`, `MaxRestores`, `MaxRetries` and `MaxFaults`
bound the journal, the restores, their retries and the faults; the largest runs
have about two million states. Retries of a restore are on in `ckpt_delete` (one
file) and off in `ckpt_save` (two files). In `FolderSync` `MaxLocal` and `MaxPeer` bound
the changes; one on each side is the least with a conflict. `QueueCap` is 1
instead of 256, which makes full channels common; with `Busy` other paths fill
them at will. `LateEdits` is off in `sync_recovery`: the file does not change
again once the link is renewed, which is when convergence is asked for.
`SameSize` is off in the passing runs (different versions have different sizes)
and `StageWrites` too (no edit between a download's two snapshots); section 6
says what the code does otherwise.

In `SyncSave` two requests are the least for which one answers about what the
other left, and two events the least for an edit and a fault in one save. In
`Mounts` three commands are a mount, a competitor and an unmount or checkpoint;
`MCStart` lists the directories and pasts that the plan tells apart. In
`NativeSession` bytes 0 to 2 let ranges be split, cut and joined. In
`NativeClient` two clients give every pair of the listed operations; `MaxTries`
and `MaxHops` cut retry loops, and the starts keep paths and history apart: two
events turn the history off and on again around an unrecorded change, and the
policies limit bytes, file size, versions and age.
In `Databases` two instances and two requests give every pair of changes and a
change against a route. Deadlock is not checked: with the bounds used up and
nothing to do the system rests.

### Fairness

`Checkpoints!FairSpec`: a request in flight keeps running (it is a goroutine
whose steps are Redis calls with deadlines), Redis expires the lock of a dead
owner, and somebody eventually retries an interrupted restore, which
`service.go:345-351` relies on: no code does so by itself, so `FenceEnds` says
that a retry always can end the fence, not that one happens. `FolderSync!FairSpec`: each goroutine, timer and
the subscriber's retry loop is scheduled; nothing is assumed of the application,
the peer or the faults. `NativeSession!FairSpec`: a thread goes on with the
request it is in. Weak fairness is enough in all of them.

### Mutants

Each property of each passing run is broken by a plausible bug in a mapped
definition, kept beside the original (`Mut...` in `Checkpoints`, `..._Suffix`
elsewhere): a release that ignores the token, a commit that does not watch
the journal, a retry that captures the half-written root, a notification dropped
without a sweep, a save that trusts its own writes, a transaction that does not
watch the lease, a registry saved without the claim of its revision, and so on.

## 4. Proofs

The theorems hold for any sets of administrators, clients, files, blobs,
checkpoints, sessions, instances and requests and for any bounds, from the named
assumptions `CheckpointsAssumption`, `BoundsAssumption` and `NoneAssumption`,
`SessionAssumption`, `DatabasesAssumption`: distinguished values are distinct,
bounds are naturals, the owners of locks are finitely many, there is an instance
and each starts with at most one connection.

| module | theorem | states | also assumes |
|---|---|---|---|
| `CheckpointsProofs` | `TypeCorrect` | `Spec => []TypeOK` | |
| | `RootReplacedByOne` | `Spec => []OneReplacement` | `~MayStall` |
| | `DeletedStaysDeleted` | `Spec => []DeletionIsFinal` | `~MayStall` |
| | `RestoreInductive` | `Spec => []RestoreInv` | `~MayStall` |
| | `ReplacedTreeRecoverable` | `Spec => []ReplacedTreeKept` | `~MayStall` |
| `SnapshotProofs` | `CheckpointsAreSnapshots` | `Spec => []CheckpointIsSnapshot` | `~MayStall` |
| | `LiveTreesAreWhole` | `Spec => []LiveTreeIsWhole` | `~MayStall` |
| `CountProofs` | `CheckpointsInductive` | `Spec => []CheckpointsInv` | `~MayStall` |
| | `CleanRootUnchanged` | `Spec => []CleanMeansUnchanged` | `~MayStall`, `FreshNames` |
| | `CountsCoverUsers` | `Spec => []RefCountCovers` | `~MayStall`, `FreshNames` |
| `FolderSyncProofs` | `AgreedInductive` | `Spec => []AgreedInv` | |
| | `TypesKept` | `Spec => []TypeOK` | |
| `EditsKeptProofs` | `LocalEditsKept` | `Spec => []LocalEditKept` | `~SameSize`, `~StageWrites` |
| | `PeerEditsKept` | `Spec => []PeerEditKept` | `~SameSize` |
| | `EditsSurvive` | `Spec => []NothingLost` | `~SameSize`, `~StageWrites` |
| `LockTableProofs` | `TableExcludes` | `TableSpec => []LockExclusion` | |
| `NativeSessionProofs` | `BarrierFindsNobody` | `Spec => []BarrierDrained` | |
| | `NoLeaseNoLock` | `Spec => LostSessionWritesNothing` | |
| `DatabasesProofs` | `DatabasesInductive` | `Spec => []DatabasesInv` | |
| | `RoutingIsFresh` | `Spec => []RoutesFresh` | |
| | `CatalogImplemented` | `Spec => ImplementsCatalog` | |
| | `LeasesInductive` | `Spec => []LeasesInv` | |
| | `ClientsOpenInUse` | `Spec => []OpenExactlyInUse` | |

### Checkpoints

`~MayStall` says that a lock holder's heartbeat never misses the lock's lifetime:
the key expires only after its holder crashed. It is needed: with `MayStall` the
instance of `ckpt_delete` violates `OneReplacement` and `DeletionIsFinal`, and
that of `ckpt_fence`, two restores, `OneReplacement`, `ReplacedTreeKept`,
`LiveTreeIsWhole` and `CheckpointIsSnapshot`. Of a lock that expires under its
owner only `FenceEnds` is shown. `FreshNames` is needed for the counts, section 6.

None of the properties is inductive: that the baseline is the tree clients last
saw, say, was decided many steps earlier, when a capture read file by file a root
that nobody could change. `RestoreInv` carries this in layers, each proved from
the ones above it:

1. `LockHeld`: each control point belongs to one kind of operation, and whoever
   works under the lock owns the key. This gives `OneReplacement`, and that an
   operation without the lock leaves root, generation and baseline alone
   (`UnlockedStep`).
2. `FenceHeld`: the generation is the one the lock owner wrote, in the phase its
   control point requires, so that no client can publish during a capture. With
   `DeletionIsFinal` as a conjunct: the head is retired behind the tombstone and
   published over only while it exists.
3. `WatchGuards`: what a transaction read still holds at its commit unless a key
   it watches was written. A deletion of a checkpoint therefore never removes
   the head or the baseline, and a save never overwrites a checkpoint.
4. `TreeShown`: outside a replacement the root is complete and equals the tree
   last shown.
5. `BaselineKept`: what the capture has read so far agrees with that root, the
   checkpoint it stores equals it, and the activity record names that
   checkpoint. A retry (`recovering`) keeps the record it finds.

`SnapshotInv` adds what a save without the lock relies on: no generation token
is given twice (`TokensFresh`); while token and journal position are those the
save began with, what it has read is the root (`SaveSees`), and an unbroken watch
keeps it so until the commit (`CursorHolds`); what a restore has written so far
agrees with the checkpoint it restores (`RestoreWrites`). `CountsInv` adds that
no ID in use is asked for (`NamesFresh`), that a marked root is the checkpoint it
is marked with (`CleanRoot`), and that the counts a transaction read are still
at least the stored ones unless its watch broke (`CountsHold`), over a finite
set of checkpoints. The conjunction, `CheckpointsInv`, is an invariant of
`ckpt_delete`. Each layer treats the step of the process itself and the steps of
the others separately (`...Own`, `...Others`). The layers of the live root hold
until a deletion of the workspace has begun (`~deleting`); section 6 says why.

### Folder sync

`AgreedInv` is about the baseline: wherever a copy of it travels (the state
file, queued uploads and downloads, results, timers, the plan of a sweep), its
hash was once in the folder and once published, whatever was lost or repeated
since. `LocalInv` then says what a download or sweep has yet to do: content it
will replace without a conflict copy was published (`DownReplaces`,
`SweepReplaces`). `PeerInv` says the same of the other direction: a publication
under an observed revision replaces content that was in the folder
(`UpObserved`, `SweepObserved`), since a revision that has moved on is never
observed again. The two exclusions are those of the passing runs.

### Sessions, locks and databases

`BarrierDrained` needs that the counter of the gate is the number of requests in
flight (`GateInv`), `LostSessionWritesNothing` that a transaction whose session
has lost its lease has a broken watch (`WatchInv`). `TableExcludes` is about the
abstract table; that the range lists implement it is model-checked.

`DatabasesInv`: every catalog ever committed can be installed, a serving registry
is the catalog of its revision, what a request leased was registered at or after
its arrival, and the identity of a candidate is unused. `CatalogImplemented` maps
each step to a step of `Catalog` or a stutter.

`LeasesInv` adds the accounting behind `OpenExactlyInUse`: in every instance there
is a lease for each handler that is registered or in use, its count is the number
of requests using the handler, it is retired when the handler is not registered,
and the open clients are those of the leases and of the candidates. That a
retired handler is never installed again (it would close a client in use, or
count users twice) rests on the revision of a candidate being new: no profile in
the catalog, in a registry or in a request's hands has it (`NewInv`).

### Only model-checked

- Liveness (`FenceEnds`, `SettlesDown`, `PeerChangesArrive`, `BarrierEnds`),
  which needs fairness, and `SweepSettles`, whose argument is that a sweep makes
  progress.
- `ImplementsLockTable` and `LockExclusion` of the range lists: `applyFileLock`
  cuts, joins and sorts lists of any length, which takes induction over data.
- `NativeClient` and `FileHistory`: globs, paths and symlink walks are recursive.
- `SyncSave` and `Mounts`: within reach, not proved yet.

## 5. What is not modelled

- Creation, import and fork of a workspace: they build a workspace nobody else
  can reach until the last write. `Checkpoints` starts from what they leave.
- In `FolderSync` a second path, renames joined from a deletion and a creation,
  directories, `coldStart`, `replaceFromRemote` and the overflow of the local
  watcher; in `SyncSave` directories, symlinks and modes are there, but no steady
  state.
- Login, browser sessions and API keys: single SQL statements or transactions on
  rows nothing else uses.
- HTTP decoding and views, the command line, MCP tools, the translation of FUSE
  and NFS calls, the byte layout of contents and manifests: they keep no shared
  state of their own.

## 6. Disagreements and limits found

`sync_samesize` is a run with expect `violation`: the stat read after an upload
may be a peer's; if the sizes are equal the next local edit overwrites a version
never seen. `PROJECT.json` quotes the sentence it contradicts.

The rest was met while modelling; the passing runs exclude each case as said.

Control plane:

- A checkpoint deleted between `RestoreCheckpoint`'s read and its move of the
  head becomes a head that does not exist (`service.go:385`, `store.go:492`).
- A restore that waited for the lock during a workspace deletion overwrites the
  tombstone with its fence (`service.go:354`).
- A restore that lost its lock goes on writing inodes until it next looks at
  `Lost`, into the tree another restore publishes (`service.go:388`); the runs
  and proofs about it set `MayStall` to false.
- `DeleteCheckpoint` reads the manifest before it watches (`service.go:404`,
  `417`). If the checkpoint is deleted and its ID given to another tree in
  between, the deletion lowers the counts of the wrong blobs and `RefCountCovers`
  fails (49 steps, with `FreshNames` off). Nothing collects blobs today.
- A workspace deletion that fails behind its tombstone hides that a restore was
  interrupted, so the next restore captures the half-written root as its safety
  checkpoint: the invariants about the live root end with `deleting`.
- A save's count of a blob can exceed its users: `checkpoint_commit.go:194` does
  not watch the counters (`RefCountCovers` only bounds them from below).

Folder sync and mounts:

- An edit between a download's two snapshots of the destination is overwritten
  without a conflict copy (`sync_downloader.go:646`).
- A deletion notice that arrives while the first download of the path is in
  flight is dropped until the next sweep (`sync_event_reconciler.go:985`).
- A save writes modes, directories and symlinks without a condition, so a peer's
  mode can be overwritten, its content never; `EchoCreate`'s `ensureParents` can
  recreate a directory a peer removed; a file a peer deleted is published again
  if the deletion has not arrived.
- A foreground sync mount records itself and gives up the registry before it
  claims its root, so `ServedOnce` leaves it out, and it removes its record even
  if the last flush failed. A background mount command killed between the
  readiness of its daemon and the record leaves an unregistered daemon.
- A sync mount drops the record of a stopped mount it overlaps, pending edits
  included, and `checkpoint create` then no longer refuses (`README.md:434-435`).
- `serveSyncDaemon` stores the generation before the check that answers
  "workspace changed while mounting; retry" (`sync_lifecycle.go:296`, `314`).

Mount client:

- Two concurrent renames of directories by path, each into the other, leave an
  unreachable cycle: `StoreSound` is checked on requests without such a pair.
- Two concurrent renames of the same file to the same name delete it
  (`history_publication.go:147-172`).
- A conflict can be reported for a write that was applied; `rm /a` that races
  `mv /a /b` removes `/b`; `Cat` of a file deleted meanwhile can return no bytes;
  `ReadChunks` does not compare the revision again (its callers compare hashes).
- The retransmission of a range write can be applied twice (`publication.go:85`),
  so `RetrySettles` leaves ranges out.

Database connections: a view can be answered with no connections while its
instance shuts down between refresh and acquire.
