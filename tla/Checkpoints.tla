---------------------------- MODULE Checkpoints ----------------------------
(***************************************************************************)
(* The control plane of one workspace: saving, restoring and deleting      *)
(* checkpoints and deleting the workspace, run by several administrators    *)
(* at once against one Redis server, while mounted clients publish files.  *)
(*                                                                         *)
(* Every Redis round trip of an operation that can be told apart by the    *)
(* others is one step.  A WATCH / EXEC transaction is two steps: the reads *)
(* under WATCH and the EXEC, which aborts when a watched key was written   *)
(* in between.  An operation may stop with an error between any two steps  *)
(* (its deferred lock release still runs) or crash (it does not).          *)
(*                                                                         *)
(* Left out: file history rebinding, the activity journal's payloads, the  *)
(* audit and event streams, and blob bodies (SETNX, never removed).        *)
(***************************************************************************)
EXTENDS Naturals, FiniteSets

CONSTANTS
    Proc,           \* administrators: CLI or control plane requests in flight
    Client,         \* generation-bound file system clients
    File,           \* paths of the tree
    Blob,           \* file contents
    Cp,             \* checkpoint IDs
    SafetyCp,       \* the generated, never reused, before-restore IDs
    Initial,        \* the checkpoint a workspace is created with
    None,           \* a missing Redis key
    Orphan,         \* a lock token whose owner has crashed
    Kinds,          \* the operations the administrators run
    MaxChanges,     \* bound on the change journal
    MaxRestores,    \* bound on restores users start
    MaxRetries,     \* bound on retries of an interrupted restore
    MaxFaults,      \* bound on I/O errors, crashes and stalls
    MayStall,       \* may a live holder's heartbeat fail or come too late?
    FreshNames      \* are checkpoint IDs never used twice?

AllKinds == {"save", "restore", "deleteCp", "deleteWs"}

ASSUME CheckpointsAssumption ==
    /\ File # {}
    /\ Initial \in Cp /\ SafetyCp \subseteq Cp \ {Initial}
    /\ None \notin Cp \cup Blob \cup Proc
    /\ None \notin [File -> Blob \cup {None}]
    /\ Orphan \notin Proc /\ Orphan # None
    /\ Kinds \subseteq AllKinds
    /\ {MaxChanges, MaxRestores, MaxRetries, MaxFaults} \subseteq Nat
    /\ MayStall \in BOOLEAN /\ FreshNames \in BOOLEAN

VARIABLES
    head,           \* workspace meta: its HeadSavepoint, None once retired
    savepoint,      \* savepoint meta and manifest of each ID
    refCount,       \* blobRef.RefCount
    generation,     \* the generation key: a phase prefix and a token
    importLock,     \* the import lock key: its owner's token
    root,           \* the live root: present, and the blob of each file
    mark,           \* root_head_savepoint and root_dirty
    changes,        \* last ID of the change journal
    before,         \* restore-before-checkpoint
    session,        \* the generation token each client was opened with
    pc, op,         \* control point and local variables of each operation
    watch, stale,   \* keys WATCHed by each operation; which of them were hit
    lost,           \* operations whose heartbeat saw the lock gone
    nextToken,      \* next generation token
    restores,       \* restores and retries started so far
    faults,         \* I/O errors, crashes and stalls so far
    published,      \* ghost: every tree that was ever live
    liveTree,       \* ghost: the last tree a live generation showed
    deleting,       \* ghost: a workspace deletion has begun
    used            \* ghost: checkpoint IDs ever used

catalog == <<savepoint, refCount>>
live    == <<root, mark, changes>>
store   == <<head, catalog, generation, importLock, live, before>>
counts  == <<session, nextToken, restores, faults>>
ghosts  == <<published, liveTree, deleting, used>>
vars    == <<store, counts, pc, op, watch, stale, lost, ghosts>>

-----------------------------------------------------------------------------
(* Redis keys, trees and the local variables of an operation.              *)

MetaKey         == <<"meta">>
GenerationKey   == <<"generation">>
LockKey         == <<"lock">>
ChangesKey      == <<"changes">>
BeforeKey       == <<"before">>
SavepointKey(c) == <<"savepoint", c>>
RefKey(b)       == <<"ref", b>>

Key == {MetaKey, GenerationKey, LockKey, ChangesKey, BeforeKey}
         \cup {SavepointKey(c) : c \in Cp} \cup {RefKey(b) : b \in Blob}

Tree == [File -> Blob]
Part == [File -> Blob \cup {None}]     \* a tree read or written in part

Phase      == {"live", "fencing", "restoring", "deleted"}
Generation == [phase : Phase, token : Nat]

manifestBlobRefs(m) == {m[f] : f \in File} \ {None}

NoTree == [f \in File |-> None]
NoOp   == [kind |-> "none", cp |-> Initial, m |-> NoTree, name |-> Initial,
           gen |-> [phase |-> "live", token |-> 0], recovering |-> FALSE,
           head |-> Initial, changes |-> 0, tree |-> NoTree,
           todo |-> {}, refs |-> [b \in Blob |-> 0]]

(* Batches of keys a workspace deletion removes; SCAN order is arbitrary.  *)
Batch == {<<"savepoint", c>> : c \in Cp} \cup {<<"root">>, <<"journal">>}

Op == [kind : AllKinds \cup {"none"}, cp : Cp, m : Part, name : Cp, gen : Generation,
       recovering : BOOLEAN, head : Cp, changes : Nat, tree : Part,
       todo : SUBSET (File \cup Batch), refs : [Blob -> Nat]]

(* A write to the keys K marks every transaction that watches one of them. *)
Touch(K) == stale' = stale \cup {q \in Proc : watch[q] \cap K # {}}

Goto(p, l) == pc' = [pc EXCEPT ![p] = l]

(* A step that only reads the store, into the local variables o.           *)
Local(p, l, o) ==
    /\ Goto(p, l)
    /\ op' = [op EXCEPT ![p] = o]
    /\ UNCHANGED <<store, counts, watch, stale, lost, ghosts>>

(* An error or normal return: the deferred release is the next step.       *)
Return(p) == Local(p, "release", op[p])

-----------------------------------------------------------------------------
Init ==
    /\ \E t \in Tree :
         /\ savepoint = [c \in Cp |-> IF c = Initial THEN t ELSE None]
         /\ refCount = [b \in Blob |-> IF b \in manifestBlobRefs(t) THEN 1 ELSE 0]
         /\ root = [exists |-> TRUE, files |-> t]
         /\ published = {t}
         /\ liveTree = t
    /\ head = Initial
    /\ generation = [phase |-> "live", token |-> 1]
    /\ importLock = None
    /\ mark = [head |-> Initial, dirty |-> FALSE]
    /\ changes = 0
    /\ before = None
    /\ session = [c \in Client |-> 0]
    /\ pc = [p \in Proc |-> "idle"]
    /\ op = [p \in Proc |-> NoOp]
    /\ watch = [p \in Proc |-> {}]
    /\ stale = {}
    /\ lost = {}
    /\ nextToken = 2
    /\ restores = [started |-> 0, retried |-> 0]
    /\ faults = 0
    /\ deleting = FALSE
    /\ used = {Initial}

-----------------------------------------------------------------------------
(* Mounted clients.                                                        *)

(* WorkspaceGeneration, then a look at the root.                           *)
WorkspaceLive == head # None /\ generation.phase = "live"

Open(c) ==
    /\ WorkspaceLive
    /\ root.exists
    /\ session[c] # generation.token
    /\ session' = [session EXCEPT ![c] = generation.token]
    /\ UNCHANGED <<store, pc, op, watch, stale, lost, nextToken, restores, faults, ghosts>>

(* One run of the publication script: it compares the generation key with  *)
(* the session's generation and publishes in the same atomic step.         *)
Publish(c, f, b) ==
    /\ changes < MaxChanges
    /\ generation = [phase |-> "live", token |-> session[c]]
    /\ root' = [root EXCEPT !.files[f] = b]
    /\ mark' = [mark EXCEPT !.dirty = TRUE]
    /\ changes' = changes + 1
    /\ liveTree' = root'.files
    /\ published' = published \cup {root'.files}
    /\ Touch({ChangesKey})
    /\ UNCHANGED <<head, catalog, generation, importLock, before, counts, pc, op, watch,
                   lost, deleting, used>>

(* UpdateWorkspaceSettings: a transaction on meta and generation that      *)
(* rewrites the meta without moving its head.                              *)
UpdateWorkspaceSettings ==
    /\ WorkspaceLive
    /\ Touch({MetaKey})
    /\ stale' # stale
    /\ UNCHANGED <<store, counts, pc, op, watch, lost, ghosts>>

-----------------------------------------------------------------------------
(* The import lock.                                                        *)

AcquireImportLock(p, next) ==
    /\ importLock = None
    /\ importLock' = p
    /\ Touch({LockKey})
    /\ Goto(p, next)
    /\ UNCHANGED <<head, catalog, generation, live, before, counts, op, watch, lost,
                   ghosts>>

(* Release: compare the token and delete, then the operation is over. An   *)
(* operation that never took the lock only ends here.                      *)
Release(p) ==
    /\ pc[p] = "release"
    /\ IF importLock = p
         THEN importLock' = None /\ stale' = (stale \cup {q \in Proc : LockKey \in watch[q]}) \ {p}
         ELSE importLock' = importLock /\ stale' = stale \ {p}
    /\ Goto(p, "idle")
    /\ op' = [op EXCEPT ![p] = NoOp]
    /\ watch' = [watch EXCEPT ![p] = {}]
    /\ lost' = lost \ {p}
    /\ UNCHANGED <<head, catalog, generation, live, before, counts, ghosts>>

(* The TTL runs out: the owner crashed, its heartbeat has stopped, or it   *)
(* missed its refreshes.                                                   *)
LockExpires ==
    /\ \/ importLock \in {Orphan} \cup lost /\ faults' = faults
       \/ MayStall /\ importLock \in Proc \ lost /\ faults < MaxFaults /\ faults' = faults + 1
    /\ importLock' = None
    /\ Touch({LockKey})
    /\ UNCHANGED <<head, catalog, generation, live, before, session, nextToken, restores,
                   pc, op, watch, lost, ghosts>>

UnderLock(p) ==
    /\ op[p].kind \in {"restore", "deleteWs"}
    /\ pc[p] \notin {"idle", "lock", "release"}

(* heartbeat: the refresh finds another token, or fails; it marks the loss *)
(* and stops, and the operation runs on to its next look at the mark.      *)
Heartbeat(p) ==
    /\ UnderLock(p)
    /\ p \notin lost
    /\ \/ importLock # p /\ faults' = faults
       \/ MayStall /\ importLock = p /\ faults < MaxFaults /\ faults' = faults + 1
    /\ lost' = lost \cup {p}
    /\ UNCHANGED <<store, session, nextToken, restores, pc, op, watch, stale, ghosts>>

(* An I/O error or a cancelled context between two steps.                  *)
Fail(p) ==
    /\ pc[p] \notin {"idle", "release"}
    /\ faults < MaxFaults
    /\ faults' = faults + 1
    /\ Goto(p, "release")
    /\ UNCHANGED <<store, session, op, watch, stale, lost, nextToken, restores, ghosts>>

Crash(p) ==
    /\ pc[p] # "idle"
    /\ faults < MaxFaults
    /\ faults' = faults + 1
    /\ importLock' = IF importLock = p THEN Orphan ELSE importLock
    /\ Goto(p, "idle")
    /\ op' = [op EXCEPT ![p] = NoOp]
    /\ watch' = [watch EXCEPT ![p] = {}]
    /\ stale' = stale \ {p}
    /\ lost' = lost \ {p}
    /\ UNCHANGED <<head, catalog, generation, live, before, session, nextToken, restores,
                   ghosts>>

-----------------------------------------------------------------------------
(* captureCheckpoint and saveCheckpoint, run by SaveCheckpointFromLive with *)
(* no lock and by RestoreCheckpoint, as its safety checkpoint, under one.  *)

(* A name given by the user may have been used and deleted before, or be   *)
(* asked for twice at once; a generated one is not.                        *)
UserName(c) ==
    /\ c \notin SafetyCp
    /\ FreshNames => c \notin used /\ \A q \in Proc : op[q].kind = "save" => op[q].name # c

SaveStart(p, c) ==
    /\ "save" \in Kinds
    /\ pc[p] = "idle"
    /\ WorkspaceLive
    /\ UserName(c)
    /\ Local(p, "capMeta", [NoOp EXCEPT !.kind = "save", !.name = c, !.gen = generation])

(* A capture that does not notice that the workspace is gone.              *)
MutCaptureMeta(p) ==
    /\ pc[p] = "capMeta"
    /\ Local(p, "capRoot", [op[p] EXCEPT !.head = head])

CaptureMeta(p) ==
    /\ pc[p] = "capMeta"
    /\ IF head = None THEN Return(p)
                      ELSE Local(p, "capRoot", [op[p] EXCEPT !.head = head])

CaptureRoot(p) ==
    /\ pc[p] = "capRoot"
    /\ IF root.exists
         THEN Local(p, "capFiles", [op[p] EXCEPT !.changes = changes, !.todo = File])
         ELSE Return(p)

(* BuildManifestFromWorkspaceRoot reads one inode after the other.         *)
CaptureFile(p, f) ==
    /\ pc[p] = "capFiles"
    /\ f \in op[p].todo
    /\ Local(p, "capFiles", [op[p] EXCEPT !.tree[f] = root.files[f], !.todo = @ \ {f}])

(* The journal's cursor is read after the inodes instead of before.        *)
MutCaptureEnd(p) ==
    /\ pc[p] = "capFiles"
    /\ op[p].todo = {}
    /\ Local(p, "saveHead", [op[p] EXCEPT !.changes = changes])

CaptureEnd(p) ==
    /\ pc[p] = "capFiles"
    /\ op[p].todo = {}
    /\ Local(p, IF changes = op[p].changes THEN "saveHead" ELSE "release", op[p])

LockAllowsSave(p) ==
    IF op[p].kind = "restore" THEN importLock = p ELSE importLock = None

(* The lock pre-check, the manifest of the expected head, and the early    *)
(* return of a safety checkpoint that would equal it.                      *)
SaveHead(p) ==
    /\ pc[p] = "saveHead"
    /\ IF ~LockAllowsSave(p) \/ head = None \/ savepoint[op[p].head] = None
         THEN Return(p)
         ELSE IF op[p].kind = "restore" /\ savepoint[op[p].head] = op[p].tree
         THEN Local(p, "lostCheck", op[p])
         ELSE Local(p, "saveRead", op[p])

MutSaveWatch == {MetaKey, GenerationKey, LockKey}     \* the journal is not watched
SaveWatch == {MetaKey, GenerationKey, ChangesKey, LockKey}

SaveRead(p) ==
    /\ pc[p] = "saveRead"
    /\ IF /\ head = op[p].head
          /\ generation = op[p].gen
          /\ changes = op[p].changes
          /\ LockAllowsSave(p)
          /\ savepoint[op[p].name] = None
         THEN /\ op' = [op EXCEPT ![p].refs = refCount]
              /\ watch' = [watch EXCEPT ![p] = SaveWatch]
              /\ stale' = stale \ {p}
              /\ Goto(p, "saveExec")
              /\ UNCHANGED <<store, counts, lost, ghosts>>
         ELSE Return(p)

MutIncrement(n) == IF n = 0 THEN 1 ELSE n      \* a known blob is not counted again
Increment(n) == n + 1

SaveExec(p) ==
    /\ pc[p] = "saveExec"
    /\ IF p \in stale
         THEN Return(p)
         ELSE LET c == op[p].name
                  blobs == manifestBlobRefs(op[p].tree)
              IN  /\ savepoint' = [savepoint EXCEPT ![c] = op[p].tree]
                  /\ head' = c
                  /\ refCount' = [b \in Blob |-> IF b \in blobs THEN Increment(op[p].refs[b])
                                                 ELSE refCount[b]]
                  /\ mark' = [head |-> c, dirty |-> FALSE]
                  /\ used' = used \cup {c}
                  /\ watch' = [watch EXCEPT ![p] = {}]
                  /\ Touch({MetaKey, SavepointKey(c)} \cup {RefKey(b) : b \in blobs})
                  /\ Goto(p, IF op[p].kind = "restore" THEN "lostCheck" ELSE "release")
                  /\ UNCHANGED <<generation, importLock, root, changes, before, counts, op,
                                 lost, published, liveTree, deleting>>

-----------------------------------------------------------------------------
(* RestoreCheckpoint.                                                      *)

(* Users start restores; once an interrupted one is all that is left of    *)
(* them and its lock is gone, somebody retries it.                         *)
StartOrRetry ==
    \/ restores.started < MaxRestores /\ restores' = [restores EXCEPT !.started = @ + 1]
    \/ /\ generation.phase \in {"fencing", "restoring"}
       /\ \A q \in Proc : op[q].kind # "restore"
       /\ importLock = None
       /\ restores.retried < MaxRetries
       /\ restores' = [restores EXCEPT !.retried = @ + 1]

(* GetCheckpoint and the workspace meta, read before the lock is taken.    *)
RestoreStart(p, c) ==
    /\ "restore" \in Kinds
    /\ pc[p] = "idle"
    /\ head # None /\ savepoint[c] # None
    /\ StartOrRetry
    /\ op' = [op EXCEPT ![p] = [NoOp EXCEPT !.kind = "restore", !.cp = c, !.m = savepoint[c]]]
    /\ Goto(p, "lock")
    /\ UNCHANGED <<store, session, watch, stale, lost, nextToken, faults, ghosts>>

(* The lock is set whether it is held or not.                              *)
MutRestoreLock(p) ==
    /\ pc[p] = "lock" /\ op[p].kind = "restore"
    /\ importLock' = p
    /\ Touch({LockKey})
    /\ Goto(p, "readGen")
    /\ UNCHANGED <<head, catalog, generation, live, before, counts, op, watch, lost, ghosts>>

RestoreLock(p) ==
    /\ pc[p] = "lock" /\ op[p].kind = "restore"
    /\ IF importLock = None THEN AcquireImportLock(p, "readGen") ELSE Return(p)

(* Read the previous generation; draw a new token and a safety name.       *)
RestoreReadGeneration(p) ==
    /\ pc[p] = "readGen"
    /\ LET recovering == generation.phase = "restoring"
       IN  \E c \in IF recovering THEN {Initial} ELSE SafetyCp \ used :
             op' = [op EXCEPT ![p].recovering = recovering, ![p].name = c,
                              ![p].gen = [phase |-> IF recovering THEN "restoring" ELSE "fencing",
                                          token |-> nextToken]]
    /\ nextToken' = nextToken + 1
    /\ Goto(p, "fence")
    /\ UNCHANGED <<store, session, watch, stale, lost, restores, faults, ghosts>>

(* A retry captures what is left of the interrupted restore's root.        *)
MutRestoreFence(p) ==
    /\ pc[p] = "fence"
    /\ generation' = op[p].gen
    /\ Touch({GenerationKey})
    /\ Goto(p, IF ~op[p].recovering /\ root.exists THEN "capMeta"
               ELSE IF op[p].recovering THEN "capRoot" ELSE "lostCheck")
    /\ UNCHANGED <<head, catalog, importLock, live, before, counts, op, watch, lost,
                   ghosts>>

(* Fence the writers, then decide whether there is a tree to capture.      *)
RestoreFence(p) ==
    /\ pc[p] = "fence"
    /\ generation' = op[p].gen
    /\ Touch({GenerationKey})
    /\ Goto(p, IF ~op[p].recovering /\ root.exists THEN "capMeta" ELSE "lostCheck")
    /\ UNCHANGED <<head, catalog, importLock, live, before, counts, op, watch, lost,
                   ghosts>>

LostCheck(p, here, next) ==
    /\ pc[p] = here
    /\ Local(p, IF p \in lost THEN "release" ELSE next, op[p])

(* prepareRestoreActivity: remember the checkpoint of the tree about to be *)
(* replaced; a retry keeps the one it finds.                               *)
RestoreActivity(p) ==
    /\ pc[p] = "activity"
    /\ LET baseline == IF op[p].recovering THEN before ELSE head
           readable == IF baseline = None THEN op[p].recovering
                       ELSE head # None /\ savepoint[baseline] # None
       IN  /\ before' = IF op[p].recovering \/ head = None THEN before ELSE head
           /\ Goto(p, IF readable THEN "restoring" ELSE "release")
    /\ IF before' = before THEN stale' = stale ELSE Touch({BeforeKey})
    /\ UNCHANGED <<head, catalog, generation, importLock, live, counts, op, watch, lost,
                   ghosts>>

RestoreMark(p) ==
    /\ pc[p] = "restoring"
    /\ generation' = [phase |-> "restoring", token |-> op[p].gen.token]
    /\ op' = [op EXCEPT ![p].gen = generation']
    /\ Touch({GenerationKey})
    /\ Goto(p, "move")
    /\ UNCHANGED <<head, catalog, importLock, live, before, counts, watch, lost, ghosts>>

MoveWorkspaceHead(p) ==
    /\ pc[p] = "move"
    /\ IF head = None
         THEN Return(p)
         ELSE /\ head' = op[p].cp
              /\ Touch({MetaKey})
              /\ op' = [op EXCEPT ![p].todo = File]
              /\ Goto(p, "reset")
              /\ UNCHANGED <<catalog, generation, importLock, live, before, counts, watch,
                             lost, ghosts>>

(* resetWorkspaceFSNamespace deletes inodes in SCAN order, the root's in   *)
(* any of the batches, and the markers last.                               *)
ResetFile(p, f) ==
    /\ pc[p] = "reset"
    /\ f \in op[p].todo
    /\ \E there \in {root.exists, FALSE} :
         root' = [exists |-> there, files |-> [root.files EXCEPT ![f] = None]]
    /\ op' = [op EXCEPT ![p].todo = @ \ {f}]
    /\ UNCHANGED <<head, catalog, generation, importLock, mark, changes, before, counts,
                   pc, watch, stale, lost, ghosts>>

ResetDone(p) ==
    /\ pc[p] = "reset"
    /\ op[p].todo = {}
    /\ root' = [root EXCEPT !.exists = FALSE]
    /\ mark' = [head |-> None, dirty |-> TRUE]
    /\ op' = [op EXCEPT ![p].todo = File]
    /\ Goto(p, "write")
    /\ UNCHANGED <<head, catalog, generation, importLock, changes, before, counts, watch,
                   stale, lost, ghosts>>

(* writeWorkspaceFSNodes: the root inode comes first, batches follow.      *)
WriteNode(p, f) ==
    /\ pc[p] = "write"
    /\ f \in op[p].todo
    /\ root' = [exists |-> TRUE, files |-> [root.files EXCEPT ![f] = op[p].m[f]]]
    /\ op' = [op EXCEPT ![p].todo = @ \ {f}]
    /\ UNCHANGED <<head, catalog, generation, importLock, mark, changes, before, counts,
                   pc, watch, stale, lost, ghosts>>

(* The root is marked before its last batch is written.                    *)
MutMarkWorkspaceRootClean(p) ==
    /\ pc[p] = "write"
    /\ op[p].todo # File
    /\ mark' = [head |-> op[p].cp, dirty |-> FALSE]
    /\ Goto(p, "lostCheck2")
    /\ UNCHANGED <<head, catalog, generation, importLock, root, changes, before, counts,
                   op, watch, stale, lost, ghosts>>

MarkWorkspaceRootClean(p) ==
    /\ pc[p] = "write"
    /\ op[p].todo = {}
    /\ mark' = [head |-> op[p].cp, dirty |-> FALSE]
    /\ Goto(p, "lostCheck2")
    /\ UNCHANGED <<head, catalog, generation, importLock, root, changes, before, counts,
                   op, watch, stale, lost, ghosts>>

(* completeRestoreActivityScript: one atomic compare and publish. What it  *)
(* answers otherwise, a refusal or, to a call sent twice, that the restore *)
(* is complete, changes nothing.                                           *)
CompleteRestore(p) ==
    /\ pc[p] = "complete"
    /\ IF generation = op[p].gen /\ importLock = p
         THEN /\ generation' = [phase |-> "live", token |-> op[p].gen.token]
              /\ changes' = changes + 1
              /\ before' = None
              /\ liveTree' = root.files
              /\ Touch({GenerationKey, ChangesKey, BeforeKey})
              /\ Goto(p, "release")
              /\ UNCHANGED <<head, catalog, importLock, root, mark, counts, op, watch,
                             lost, published, deleting, used>>
         ELSE Return(p)

-----------------------------------------------------------------------------
(* DeleteCheckpoint.                                                       *)

DeleteCheckpointStart(p, c) ==
    /\ "deleteCp" \in Kinds
    /\ pc[p] = "idle"
    /\ head # None /\ savepoint[c] # None
    /\ Local(p, "dcRead", [NoOp EXCEPT !.kind = "deleteCp", !.cp = c, !.m = savepoint[c]])

DeleteWatch(p) == {MetaKey, SavepointKey(op[p].cp), BeforeKey}
                    \cup {RefKey(b) : b \in manifestBlobRefs(op[p].m)}

(* Deletion does not know about the baseline of a restore in progress.     *)
MutDeleteCheckpointRead(p) ==
    /\ pc[p] = "dcRead"
    /\ IF /\ head # None
          /\ op[p].cp \notin {head, Initial}
          /\ savepoint[op[p].cp] # None
         THEN /\ op' = [op EXCEPT ![p].refs = refCount]
              /\ watch' = [watch EXCEPT ![p] = DeleteWatch(p)]
              /\ stale' = stale \ {p}
              /\ Goto(p, "dcExec")
              /\ UNCHANGED <<store, counts, lost, ghosts>>
         ELSE Return(p)

DeleteCheckpointRead(p) ==
    /\ pc[p] = "dcRead"
    /\ IF /\ head # None
          /\ op[p].cp \notin {head, Initial, before}
          /\ savepoint[op[p].cp] # None
         THEN /\ op' = [op EXCEPT ![p].refs = refCount]
              /\ watch' = [watch EXCEPT ![p] = DeleteWatch(p)]
              /\ stale' = stale \ {p}
              /\ Goto(p, "dcExec")
              /\ UNCHANGED <<store, counts, lost, ghosts>>
         ELSE Return(p)

Decrement(n) == IF n > 0 THEN n - 1 ELSE 0

DeleteCheckpointExec(p) ==
    /\ pc[p] = "dcExec"
    /\ IF p \in stale
         THEN Return(p)
         ELSE LET c == op[p].cp
                  blobs == manifestBlobRefs(op[p].m)
              IN  /\ savepoint' = [savepoint EXCEPT ![c] = None]
                  /\ refCount' = [b \in Blob |-> IF b \in blobs THEN Decrement(op[p].refs[b])
                                                 ELSE refCount[b]]
                  /\ watch' = [watch EXCEPT ![p] = {}]
                  /\ Touch({SavepointKey(c)} \cup {RefKey(b) : b \in blobs})
                  /\ Goto(p, "release")
                  /\ UNCHANGED <<head, generation, importLock, live, before, counts, op,
                                 lost, ghosts>>

-----------------------------------------------------------------------------
(* DeleteWorkspace.                                                        *)

DeleteWorkspaceStart(p) ==
    /\ "deleteWs" \in Kinds
    /\ pc[p] = "idle"
    /\ head # None
    /\ Local(p, "lock", [NoOp EXCEPT !.kind = "deleteWs", !.todo = Batch])

(* Workspace deletion does not take the import lock.                       *)
MutDeleteWorkspaceLock(p) ==
    /\ pc[p] = "lock" /\ op[p].kind = "deleteWs"
    /\ Local(p, "dwFence", op[p])

DeleteWorkspaceLock(p) ==
    /\ pc[p] = "lock" /\ op[p].kind = "deleteWs"
    /\ IF importLock = None THEN AcquireImportLock(p, "dwFence") ELSE Return(p)

DeleteWorkspaceFence(p) ==
    /\ pc[p] = "dwFence"
    /\ IF head = None
         THEN Return(p)
         ELSE /\ generation' = [phase |-> "deleted", token |-> 0]
              /\ deleting' = TRUE
              /\ Touch({GenerationKey})
              /\ Goto(p, "dwDelete")
              /\ UNCHANGED <<head, catalog, importLock, live, before, counts, op, watch,
                             lost, published, liveTree, used>>

DeleteWorkspaceBatch(p, k) ==
    /\ pc[p] = "dwDelete"
    /\ k \in op[p].todo
    /\ op' = [op EXCEPT ![p].todo = @ \ {k}]
    /\ savepoint' = [c \in Cp |-> IF k = <<"savepoint", c>> THEN None ELSE savepoint[c]]
    /\ root' = IF k = <<"root">> THEN [exists |-> FALSE, files |-> NoTree] ELSE root
    /\ IF k = <<"journal">>
         THEN /\ mark' = [head |-> None, dirty |-> TRUE]
              /\ changes' = 0
              /\ before' = None
              /\ refCount' = [b \in Blob |-> 0]
              /\ Touch({ChangesKey, BeforeKey} \cup {RefKey(b) : b \in Blob})
         ELSE /\ UNCHANGED <<mark, changes, before, refCount>>
              /\ Touch({k})
    /\ UNCHANGED <<head, generation, importLock, counts, pc, watch, lost, ghosts>>

(* All batches are gone: the name mapping and the meta are retired.        *)
DeleteWorkspaceRetire(p) ==
    /\ pc[p] = "dwDelete"
    /\ op[p].todo = {}
    /\ head' = None
    /\ Touch({MetaKey})
    /\ Goto(p, "release")
    /\ UNCHANGED <<catalog, generation, importLock, live, before, counts, op, watch, lost,
                   ghosts>>

-----------------------------------------------------------------------------
Save(p) ==
    \/ \E c \in Cp : SaveStart(p, c)
    \/ CaptureMeta(p)
    \/ CaptureRoot(p)
    \/ \E f \in File : CaptureFile(p, f)
    \/ CaptureEnd(p)
    \/ SaveHead(p)
    \/ SaveRead(p)
    \/ SaveExec(p)

Restore(p) ==
    \/ \E c \in Cp : RestoreStart(p, c)
    \/ RestoreLock(p)
    \/ RestoreReadGeneration(p)
    \/ RestoreFence(p)
    \/ LostCheck(p, "lostCheck", "activity")
    \/ RestoreActivity(p)
    \/ RestoreMark(p)
    \/ MoveWorkspaceHead(p)
    \/ \E f \in File : ResetFile(p, f)
    \/ ResetDone(p)
    \/ \E f \in File : WriteNode(p, f)
    \/ MarkWorkspaceRootClean(p)
    \/ LostCheck(p, "lostCheck2", "complete")
    \/ CompleteRestore(p)

Delete(p) ==
    \/ \E c \in Cp : DeleteCheckpointStart(p, c)
    \/ DeleteCheckpointRead(p)
    \/ DeleteCheckpointExec(p)
    \/ DeleteWorkspaceStart(p)
    \/ DeleteWorkspaceLock(p)
    \/ DeleteWorkspaceFence(p)
    \/ \E k \in Batch : DeleteWorkspaceBatch(p, k)
    \/ DeleteWorkspaceRetire(p)

Next ==
    \/ \E c \in Client : Open(c)
    \/ \E c \in Client, f \in File, b \in Blob : Publish(c, f, b)
    \/ UpdateWorkspaceSettings
    \/ LockExpires
    \/ \E p \in Proc : Save(p) \/ Restore(p) \/ Delete(p) \/ Release(p)
                         \/ Heartbeat(p) \/ Fail(p) \/ Crash(p)

Spec == Init /\ [][Next]_vars

(* An operation in flight keeps running, Redis expires a dead owner's lock, *)
(* and an interrupted restore is retried.                                  *)
Step(p) == pc[p] # "idle" /\ (Save(p) \/ Restore(p) \/ Delete(p) \/ Release(p))
Retry   == \E p \in Proc, c \in Cp :
             RestoreStart(p, c) /\ restores'.retried # restores.retried

FairSpec ==
    /\ Spec
    /\ \A p \in Proc : WF_vars(Step(p))
    /\ WF_vars(LockExpires /\ importLock = Orphan)
    /\ WF_vars(Retry)

-----------------------------------------------------------------------------
Label == {"idle", "release", "capMeta", "capRoot", "capFiles", "saveHead", "saveRead",
          "saveExec", "lock", "readGen", "fence", "lostCheck", "activity", "restoring",
          "move", "reset", "write", "lostCheck2", "complete", "dcRead", "dcExec",
          "dwFence", "dwDelete"}

(* Every key and local variable has its type.                              *)
TypeOK ==
    /\ head \in Cp \cup {None}
    /\ savepoint \in [Cp -> Part \cup {None}]
    /\ refCount \in [Blob -> Nat]
    /\ generation \in Generation
    /\ importLock \in Proc \cup {None, Orphan}
    /\ root \in [exists : BOOLEAN, files : Part]
    /\ mark \in [head : Cp \cup {None}, dirty : BOOLEAN]
    /\ changes \in Nat
    /\ before \in Cp \cup {None}
    /\ session \in [Client -> Nat]
    /\ pc \in [Proc -> Label]
    /\ op \in [Proc -> Op]
    /\ watch \in [Proc -> SUBSET Key]
    /\ stale \subseteq Proc /\ lost \subseteq Proc
    /\ restores \in [started : Nat, retried : Nat]
    /\ nextToken \in Nat /\ faults \in Nat
    /\ published \subseteq Part
    /\ liveTree \in Part
    /\ deleting \in BOOLEAN
    /\ used \subseteq Cp

(* A checkpoint holds a tree the workspace showed at one moment, never a   *)
(* mixture of two moments: the inode-by-inode read of                      *)
(* BuildManifestFromWorkspaceRoot is fenced by the change journal and the  *)
(* generation, which saveCheckpoint compares again when it commits. Until  *)
(* a deletion begins: the phase "deleted" hides that a restore was cut     *)
(* short, and a restore after a failed deletion saves the torn root.       *)
CheckpointIsSnapshot ==
    ~deleting => \A c \in Cp : savepoint[c] # None => savepoint[c] \in published

(* A live generation never shows a tree that a restore wrote in part       *)
(* (again until a deletion begins).                                        *)
LiveTreeIsWhole == generation.phase = "live" /\ ~deleting => root.files \in published

(* While a restore replaces the root, interrupted or not, a checkpoint     *)
(* still holds the tree the clients last saw: the safety checkpoint, or a  *)
(* head equal to it, which DeleteCheckpoint refuses to remove.             *)
ReplacedTreeKept ==
    generation.phase = "restoring" /\ ~deleting =>
        before # None /\ savepoint[before] = liveTree

(* A root that MarkWorkspaceRootClean or a save marked clean equals the    *)
(* checkpoint it is marked with, until a deletion begins.                  *)
CleanMeansUnchanged ==
    generation.phase = "live" /\ ~deleting /\ ~mark.dirty /\ savepoint[mark.head] # None =>
        root.files = savepoint[mark.head]

(* Once DeleteWorkspace has retired the metadata no generation is live, so *)
(* no client can open the workspace or publish into it again.              *)
DeletionIsFinal == head = None => generation.phase # "live"

(* Only one operation at a time replaces or removes the root.              *)
ReplacingRoot(p) == pc[p] \in {"move", "reset", "write", "lostCheck2", "complete", "dwDelete"}
OneReplacement == \A p, q \in Proc : ReplacingRoot(p) /\ ReplacingRoot(q) => p = q

Users(b) == {c \in Cp : savepoint[c] # None /\ b \in manifestBlobRefs(savepoint[c])}

(* A blob some checkpoint names is never counted as less used than it is.  *)
RefCountCovers == ~deleting => \A b \in Blob : refCount[b] >= Cardinality(Users(b))

(* A workspace fenced by a restore does not stay unavailable: the restore, *)
(* its retry, or a deletion ends the fence.                                *)
Fenced    == ~deleting /\ generation.phase \in {"fencing", "restoring"}
FenceEnds == Fenced ~> ~Fenced

-----------------------------------------------------------------------------
(* The inductive invariant behind OneReplacement, DeletionIsFinal and      *)
(* ReplacedTreeKept when no holder outlives its lock (~MayStall).          *)

CaptureLabel == {"capMeta", "capRoot", "capFiles", "saveHead", "saveRead", "saveExec"}
ReplaceLabel == {"move", "reset", "write", "lostCheck2", "complete"}

(* Each control point belongs to one kind of operation.                    *)
KindOf(p) ==
    /\ pc[p] \in {"readGen", "fence", "lostCheck", "activity", "restoring"} \cup ReplaceLabel
         => op[p].kind = "restore"
    /\ pc[p] \in {"dwFence", "dwDelete"} => op[p].kind = "deleteWs"
    /\ pc[p] \in {"dcRead", "dcExec"} => op[p].kind = "deleteCp"
    /\ pc[p] = "lock" => op[p].kind \in {"restore", "deleteWs"}
    /\ pc[p] \in CaptureLabel => op[p].kind \in {"save", "restore"}

(* Whoever works under the lock still owns the key.                        *)
LockHeld ==
    /\ lost = {}
    /\ \A p \in Proc : KindOf(p) /\ (UnderLock(p) => importLock = p)

(* The generation is the one the lock owner wrote.                         *)
FenceOf(p) ==
    /\ pc[p] = "fence" => /\ op[p].recovering = (generation.phase = "restoring")
                          /\ op[p].gen.phase = IF op[p].recovering THEN "restoring" ELSE "fencing"
    /\ pc[p] \in {"lostCheck", "activity", "restoring"} =>
         /\ generation = op[p].gen
         /\ op[p].gen.phase = IF op[p].recovering THEN "restoring" ELSE "fencing"
    /\ pc[p] \in CaptureLabel /\ op[p].kind = "restore" =>
         generation = op[p].gen /\ op[p].gen.phase = "fencing" /\ ~op[p].recovering
    /\ pc[p] \in ReplaceLabel => generation = op[p].gen /\ op[p].gen.phase = "restoring"
    /\ pc[p] = "dwDelete" => generation.phase = "deleted"
    /\ pc[p] \in {"reset", "write", "lostCheck2", "complete", "dwDelete"} => head # None

FenceHeld == DeletionIsFinal /\ \A p \in Proc : FenceOf(p)

(* What a transaction has read still holds unless a watched key was hit.   *)
ReadsHold(p) ==
    /\ pc[p] = "dcExec" =>
         /\ op[p].cp \notin {head, before}
         /\ MetaKey \in watch[p] /\ BeforeKey \in watch[p]
    /\ pc[p] = "saveExec" =>
         /\ op[p].head = head
         /\ LockAllowsSave(p)
         /\ savepoint[op[p].name] = None
         /\ MetaKey \in watch[p] /\ LockKey \in watch[p]

WatchGuards == \A p \in Proc : p \in stale \/ ReadsHold(p)

(* The live tree is the one last shown, and stays so behind the fence.     *)
TreeShown ==
    /\ generation.phase = "deleted" => deleting
    /\ generation.phase \in {"live", "fencing"} /\ ~deleting =>
         root.exists /\ root.files = liveTree
    /\ \A p \in Proc :
         /\ pc[p] = "write" => op[p].todo = File \/ root.exists
         /\ pc[p] \in {"lostCheck2", "complete"} => root.exists

(* The safety capture reads exactly that tree, and its checkpoint, or the  *)
(* head that equals it, becomes the baseline of the replacement.           *)
BaselineOf(p) ==
    /\ pc[p] \in CaptureLabel \ {"capMeta"} => op[p].head = head
    /\ pc[p] = "capFiles" => \A f \in File \ op[p].todo : op[p].tree[f] = root.files[f]
    /\ pc[p] \in {"saveHead", "saveRead", "saveExec"} => op[p].tree = root.files
    /\ pc[p] \in {"lostCheck", "activity"} /\ ~op[p].recovering =>
         head # None /\ savepoint[head] = liveTree
    /\ pc[p] = "restoring" => before # None /\ savepoint[before] = liveTree

BaselineKept ==
    ~deleting => /\ ReplacedTreeKept
                 /\ \A p \in Proc : op[p].kind = "restore" => BaselineOf(p)

RestoreInv ==
    /\ TypeOK
    /\ LockHeld
    /\ FenceHeld
    /\ WatchGuards
    /\ TreeShown
    /\ BaselineKept

-----------------------------------------------------------------------------
(* On top of it, the invariant behind CheckpointIsSnapshot and             *)
(* LiveTreeIsWhole.                                                        *)

(* A restore has drawn its generation and not yet published it.            *)
Drawn(p) == op[p].kind = "restore" /\ UnderLock(p) /\ pc[p] # "readGen"

(* The generation a restore will publish is not one a save has seen.       *)
TokensFresh ==
    /\ generation.token < nextToken
    /\ \A p \in Proc :
         /\ op[p].gen.token < nextToken
         /\ op[p].kind = "save" => op[p].gen.phase = "live"
         /\ pc[p] = "fence" => generation.token < op[p].gen.token
         /\ Drawn(p) => \A q \in Proc : op[q].kind = "save" => op[q].gen.token < op[p].gen.token

(* What a save has read of the root is still there, unless the generation  *)
(* or the journal tells it otherwise.                                      *)
SaveSees(p) ==
    op[p].kind = "save" /\ generation = op[p].gen =>
        /\ pc[p] \in {"capFiles", "saveHead", "saveRead", "saveExec"} => op[p].changes <= changes
        /\ pc[p] = "capFiles" /\ op[p].changes = changes =>
             \A f \in File \ op[p].todo : op[p].tree[f] = root.files[f]
        /\ pc[p] \in {"saveHead", "saveRead", "saveExec"} /\ op[p].changes = changes =>
             op[p].tree = root.files

CursorHolds(p) ==
    pc[p] = "saveExec" =>
        /\ generation = op[p].gen /\ changes = op[p].changes
        /\ {GenerationKey, ChangesKey} \subseteq watch[p]

(* A restore writes a tree that was live once, and marks it when whole.    *)
RestoreWrites(p) ==
    /\ op[p].kind = "restore" => op[p].m \in published
    /\ pc[p] = "write" => \A f \in File \ op[p].todo : root.files[f] = op[p].m[f]
    /\ pc[p] \in {"lostCheck2", "complete"} => root.files = op[p].m

SnapshotInv ==
    /\ TokensFresh
    /\ \A p \in Proc : SaveSees(p) /\ (p \in stale \/ CursorHolds(p))
    /\ ~deleting => liveTree \in published /\ \A p \in Proc : RestoreWrites(p)
    /\ CheckpointIsSnapshot

-----------------------------------------------------------------------------
(* And the one behind CleanMeansUnchanged and RefCountCovers, when IDs are *)
(* never used twice.                                                       *)

Naming(p) == pc[p] \in CaptureLabel \/ (pc[p] = "fence" /\ ~op[p].recovering)

(* Names of checkpoints being saved are new, and an operation on an old    *)
(* checkpoint finds the tree it has read or nothing.                       *)
NamesFresh ==
    /\ \A c \in Cp : savepoint[c] # None => c \in used
    /\ \A p \in Proc :
         /\ Naming(p) => op[p].name \notin used
                           /\ (op[p].name \in SafetyCp <=> op[p].kind = "restore")
         /\ op[p].kind \in {"restore", "deleteCp"} =>
              op[p].cp \in used /\ savepoint[op[p].cp] \in {op[p].m, None}
    /\ \A p, q \in Proc :
         p # q /\ op[p].kind = "save" /\ op[q].kind = "save" => op[p].name # op[q].name

CleanRoot ==
    /\ generation.phase \in {"live", "fencing"} /\ ~mark.dirty =>
         mark.head \in Cp /\ savepoint[mark.head] \in {root.files, None}
    /\ \A p \in Proc : pc[p] \in {"lostCheck2", "complete"} =>
         mark = [head |-> op[p].cp, dirty |-> FALSE]

(* Counts read under WATCH are not too low when they are written back.     *)
CountsHold(p) ==
    /\ pc[p] = "saveExec" => \A b \in Blob : op[p].refs[b] >= refCount[b]
    /\ pc[p] = "dcExec" =>
         /\ savepoint[op[p].cp] = op[p].m
         /\ DeleteWatch(p) \subseteq watch[p]
         /\ \A b \in manifestBlobRefs(op[p].m) : op[p].refs[b] = refCount[b]

Stored == {c \in Cp : savepoint[c] # None}

CountsInv ==
    /\ NamesFresh
    /\ ~deleting => CleanRoot
    /\ \A p \in Proc : p \in stale \/ CountsHold(p)
    /\ IsFiniteSet(Stored)
    /\ RefCountCovers

(* All of it.                                                              *)
CheckpointsInv == RestoreInv /\ SnapshotInv /\ (FreshNames => CountsInv)
=============================================================================
