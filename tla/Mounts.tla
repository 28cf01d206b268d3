------------------------------- MODULE Mounts -------------------------------
(* The life of local mounts on one machine: the commands mount, unmount    *)
(* and checkpoint create (cmd/afs), the registry of mounts they share, the *)
(* folder-sync daemons and native helpers they start, and the plan by which*)
(* a daemon decides whether a directory may be joined to the workspace.    *)
(*                                                                         *)
(* Every command runs one request as a process of its own; the daemon or   *)
(* helper it starts bears the command's name, which is also the token of   *)
(* the record.  A directory may lie inside another one, where it is one     *)
(* more entry of the outer directory.  What a running daemon does in detail*)
(* is FolderSync and SyncSave, what a native session does is NativeSession:*)
(* here a daemon reconciles a tree in one step and a native mount is a     *)
(* kernel mount that outlives its helper's crash.                          *)
EXTENDS Integers, FiniteSets

CONSTANTS
    Command,        \* the commands issued, also the tokens of their records
    Root,           \* the directories they name
    Nested,         \* the pairs <<inner, outer>> of directories
    Path,           \* the paths of files, in the workspace and below a directory
    Start,          \* the directories, the workspace, the saved states of mounts
                    \* and the commands to be issued
    MaxEvents,      \* edits, peers' edits, restores, crashes and other faults
    None

VARIABLES
    disk,           \* the directories: whether and which one exists, its files
    remote,         \* the workspace: its tree and its generation
    client,         \* what the runtime directory of each mount keeps
    registry,       \* mounts.json
    holder,         \* the command holding mounts.lock
    cmd,            \* the commands
    proc,           \* the daemons and helpers, by the command that started them
    kernel,         \* the directories that are native mount points
    forced,         \* the directories a command detached by force
    events          \* how many more events may happen

vars == <<disk, remote, client, registry, holder, cmd, proc, kernel, forced, events>>

Absent == 0         \* no file
Unknown == -1       \* no baseline entry
Tombstone(v) == -1 - v   \* baseline entry of content v, deleted locally
Deleted(b) == b < Unknown
Stored(b) == IF Deleted(b) THEN -1 - b ELSE b

NoBaseline == [p \in Path |-> Unknown]
NoMark == [gen |-> 0, id |-> 0, ro |-> FALSE]
Quiet == [state |-> "none", exists |-> FALSE, empty |-> FALSE, ready |-> "no", clean |-> FALSE]

\* The same path, or one contains the other.
Overlap(d, e) == d = e \/ <<d, e>> \in Nested \/ <<e, d>> \in Nested
HasSubdir(d) == \E e \in Root : <<e, d>> \in Nested /\ disk[e].exists
Empty(d) == \A p \in Path : disk[d].file[p] = Absent

Init ==
    /\ \E t \in Start :
         /\ disk = t.disk
         /\ remote = [tree |-> t.remote, gen |-> 1]
         /\ client = t.client
         /\ cmd = [c \in Command |-> [pc |-> "new", ask |-> t.ask[c], gen |-> 0, kept |-> {},
                                      todo |-> {}, pend |-> {}]]
    /\ registry = {} /\ holder = None
    /\ proc = [c \in Command |-> Quiet]
    /\ kernel = {} /\ forced = {} /\ events = MaxEvents

-----------------------------------------------------------------------------
(* Ownership and the registry. *)

Live(c) == proc[c].state \in {"claimed", "planned", "up"}
Starting(c) == proc[c].state = "boot"
DirOf(c) == cmd[c].ask.root
Sync(c) == cmd[c].ask.backend = "sync"

\* syncRootOwned, mountOwned: somebody holds owner.lock of the directory (a
\* sync root) or of the runtime directory (a native mount).
Owned(d, backend) == \E c \in Command : Live(c) /\ DirOf(c) = d /\ cmd[c].ask.backend = backend

RecordOf(c) == [root |-> DirOf(c), backend |-> cmd[c].ask.backend, token |-> c,
                gen |-> cmd[c].gen, ro |-> cmd[c].ask.ro]

Without(reg, d) == {r \in reg : r.root # d}
Upsert(reg, r) == Without(reg, r.root) \cup {r}
At(d) == {r \in registry : r.root = d}

Conflicting_Same(d) == At(d)
Conflicting(d) == {r \in registry : Overlap(r.root, d)}

\* The command gets mounts.lock.
lockRegistry(c) == cmd[c].pc = "lock" /\ holder = None

Goto(c, pc) == cmd' = [cmd EXCEPT ![c].pc = pc]
\* Every edit makes content of its own, as every write has its own mtime.
Content == 1..(MaxEvents + 1)
Edited == {Absent, MaxEvents - events + 2}
Spend == events > 0 /\ events' = events - 1

-----------------------------------------------------------------------------
(* Commands.  A request is read, then the workspace and its generation are *)
(* looked up, before the registry is locked.                               *)

\* The edits waiting in registered, writable sync mounts: files that differ
\* from what the mount last published.
Pending == {<<r, p, disk[r.root].file[p]>> : r \in {q \in registry : q.backend = "sync" /\ ~q.ro},
                                             p \in Path}
Waiting == {e \in Pending : e[3] \notin {Absent, client[e[1].root].base[e[2]]}}

Run(c) ==
    /\ cmd[c].pc = "new"
    /\ cmd' = [cmd EXCEPT ![c].pc = IF cmd[c].ask.op = "checkpoint" THEN "records" ELSE "lock",
                          ![c].gen = remote.gen, ![c].pend = Waiting]
    /\ UNCHANGED <<disk, remote, client, registry, holder, proc, kernel, forced, events>>

\* mount with folder sync: refused over a registered native mount or a live
\* sync root; records of stopped roots in the way are dropped.  In the
\* foreground the record is saved and the registry unlocked at once and the
\* command itself becomes the daemon.
mount(c) ==
    LET conflicts == Conflicting(DirOf(c))
        refused == \E r \in conflicts : r.backend # "sync" \/ Owned(r.root, "sync")
        kept == registry \ conflicts
    IN
    /\ lockRegistry(c) /\ cmd[c].ask.op = "mount" /\ Sync(c)
    /\ \/ refused /\ Goto(c, "done") /\ UNCHANGED <<registry, holder, proc>>
       \/ /\ ~refused /\ cmd[c].ask.fg
          /\ registry' = Upsert(kept, RecordOf(c))
          /\ proc' = [proc EXCEPT ![c].state = "boot"]
          /\ Goto(c, "serve") /\ UNCHANGED holder
       \/ /\ ~refused /\ ~cmd[c].ask.fg
          /\ holder' = c
          /\ proc' = [proc EXCEPT ![c].state = "boot"]
          /\ cmd' = [cmd EXCEPT ![c].pc = "wait", ![c].kept = kept]
          /\ UNCHANGED registry
    /\ UNCHANGED <<disk, remote, client, kernel, forced, events>>

\* Nothing there, or an empty directory without even the control directory of
\* an earlier sync mount.
validateNativeMountpoint(d) == Empty(d) /\ ~HasSubdir(d) /\ ~disk[d].control

\* mountNative: any overlapping record refuses, the directory must be empty,
\* and the record is saved before the helper is started.
mountNative(c) ==
    LET d == DirOf(c)
        refused == Conflicting(d) # {} \/ ~validateNativeMountpoint(d)
    IN
    /\ lockRegistry(c) /\ cmd[c].ask.op = "mount" /\ ~Sync(c)
    /\ \/ refused /\ Goto(c, "done") /\ UNCHANGED <<registry, holder>>
       \/ /\ ~refused
          /\ registry' = Upsert(registry, RecordOf(c)) /\ holder' = c
          /\ Goto(c, "spawn")
    /\ UNCHANGED <<disk, remote, client, proc, kernel, forced, events>>

\* The helper never starts (the record is withdrawn); or it starts, and saving
\* its PID may fail, which ends the command and keeps the record.
startNativeHelper(c) ==
    /\ cmd[c].pc = "spawn"
    /\ \/ /\ Spend /\ registry' = Without(registry, DirOf(c)) /\ holder' = None
          /\ Goto(c, "done") /\ UNCHANGED proc
       \/ /\ proc' = [proc EXCEPT ![c].state = "boot"] /\ UNCHANGED registry
          /\ \/ Goto(c, "wait") /\ UNCHANGED <<holder, events>>
             \/ Spend /\ holder' = None /\ Goto(c, "done")
    /\ UNCHANGED <<disk, remote, client, kernel, forced>>

\* The new daemon reported ready: its record is saved.  When saving fails the
\* daemon is told to detach, which may fail too.
MountReady(c) ==
    /\ cmd[c].pc = "wait" /\ proc[c].ready = "ok" /\ holder' = None
    /\ \/ /\ registry' = IF Sync(c) THEN Upsert(cmd[c].kept, RecordOf(c)) ELSE registry
          /\ Goto(c, IF cmd[c].ask.fg THEN "attend" ELSE "done")
          /\ UNCHANGED <<proc, events>>
       \/ /\ Sync(c) /\ Spend /\ Goto(c, "done") /\ UNCHANGED registry
          /\ \/ proc' = [proc EXCEPT ![c].state = "gone"]
             \/ UNCHANGED proc
    /\ UNCHANGED <<disk, remote, client, kernel, forced>>

\* It failed, died or took too long: a sync daemon is killed, a helper only
\* when it does not own its runtime directory; a native record is kept.
MountFailed_Forgets(c) ==
    /\ cmd[c].pc = "wait" /\ proc[c].ready # "ok"
    /\ IF proc[c].ready = "err" \/ proc[c].state = "gone" THEN UNCHANGED events ELSE Spend
    /\ holder' = None /\ Goto(c, "done")
    /\ proc' = [proc EXCEPT ![c].state =
                  IF Sync(c) \/ ~Owned(DirOf(c), cmd[c].ask.backend) THEN "gone" ELSE @]
    /\ registry' = IF Owned(DirOf(c), cmd[c].ask.backend) THEN registry ELSE Without(registry, DirOf(c))
    /\ UNCHANGED <<disk, remote, client, kernel, forced>>
MountFailed(c) ==
    /\ cmd[c].pc = "wait" /\ proc[c].ready # "ok"
    /\ IF proc[c].ready = "err" \/ proc[c].state = "gone" THEN UNCHANGED events ELSE Spend
    /\ holder' = None /\ Goto(c, "done")
    /\ proc' = [proc EXCEPT ![c].state =
                  IF Sync(c) \/ ~Owned(DirOf(c), cmd[c].ask.backend) THEN "gone" ELSE @]
    /\ UNCHANGED <<disk, remote, client, registry, kernel, forced>>

\* A foreground command ends with its daemon: a folder sync always removes its
\* record, a native mount only after a clean exit.
Attend(c) ==
    /\ cmd[c].pc \in {"serve", "attend"} /\ proc[c].state = "gone"
    /\ Goto(c, IF cmd[c].pc = "serve" \/ (proc[c].clean /\ ~Owned(DirOf(c), cmd[c].ask.backend))
               THEN "finish" ELSE "done")
    /\ UNCHANGED <<disk, remote, client, registry, holder, proc, kernel, forced, events>>

removeFinishedMount(c) ==
    /\ cmd[c].pc = "finish" /\ holder = None
    /\ registry' = {r \in registry : r.token # c} /\ Goto(c, "done")
    /\ UNCHANGED <<disk, remote, client, holder, proc, kernel, forced, events>>

-----------------------------------------------------------------------------
(* The plan of a mount: what joining the local tree l to the workspace r   *)
(* would do at a path whose baseline entry is b.                           *)

\* An entry of the baseline that no longer describes its side: a tombstone
\* describes neither.
observedChangedFromStored(v, b) == Deleted(b) \/ v # b
\* Both sides hold the same content, read and hashed.
mountBaselineEntry(l, r) == l = r
addLocalOnly(ro) == IF ro THEN "skip" ELSE "import"
addKnownUpload(ro) == IF ro THEN "skip" ELSE "upload"

PlanFresh(l, r, ro) ==
    CASE l = Absent /\ r = Absent -> "none"
      [] l # Absent /\ r = Absent -> addLocalOnly(ro)
      [] l = Absent /\ r # Absent -> "download"
      [] l # Absent /\ r # Absent -> IF mountBaselineEntry(l, r) THEN "same" ELSE "conflict"

PlanKnown(l, r, b, ro) ==
    LET localChanged == observedChangedFromStored(l, b)
        remoteChanged == observedChangedFromStored(r, b)
    IN
    CASE l = Absent /\ r = Absent -> "none"
      [] l # Absent /\ r = Absent -> IF b > Absent THEN "deleteLocal" ELSE addKnownUpload(ro)
      [] l = Absent /\ r # Absent ->
           IF Deleted(b) THEN IF ro THEN "skip" ELSE "deleteRemote"
           ELSE IF b = Unknown \/ ro THEN "download"
           ELSE IF remoteChanged THEN "conflict" ELSE "deleteRemote"
      [] l # Absent /\ r # Absent /\ b = Unknown ->
           IF mountBaselineEntry(l, r) THEN "same" ELSE IF ro THEN "download" ELSE "conflict"
      [] l # Absent /\ r # Absent /\ b # Unknown ->
           IF ~localChanged /\ ~remoteChanged THEN "same"
           ELSE IF ~remoteChanged THEN addKnownUpload(ro)
           ELSE IF ~localChanged \/ ro THEN "download"
           ELSE IF mountBaselineEntry(l, r) THEN "same" ELSE "conflict"

StateCount(base) == Cardinality({p \in Path : base[p] # Unknown})
StateLiveCount(base) == Cardinality({p \in Path : base[p] > Absent})

buildMountReconcilePlan(d, base, ro) ==
    [p \in Path |->
       LET l == disk[d].file[p] r == remote.tree[p]
       IN IF StateCount(base) > 0 THEN PlanKnown(l, r, base[p], ro) ELSE PlanFresh(l, r, ro)]

Plans(plan, kinds) == \E p \in Path : plan[p] \in kinds

\* The directory was empty when inspected and is empty when scanned, and the
\* baseline would turn that into deletions from the workspace.
DeletesRemoteFromEmptyLocal_IfMissing(c, d, base, plan) ==
    ~proc[c].exists /\ StateCount(base) > 0 /\ Plans(plan, {"deleteRemote"})
DeletesRemoteFromEmptyLocal(c, d, base, plan) ==
    /\ proc[c].empty /\ Empty(d) /\ ~HasSubdir(d)
    /\ StateCount(base) > 0 /\ Plans(plan, {"deleteRemote"})

requiresConfirmation(d, base, plan) ==
    IF StateCount(base) > 0
    THEN HasSubdir(d) \/ Plans(plan, {"import", "upload", "download", "deleteLocal",
                                      "deleteRemote", "conflict", "skip"})
    ELSE /\ ~Empty(d) \/ HasSubdir(d)
         /\ HasSubdir(d) \/ Plans(plan, {"import", "upload", "download", "skip"})

\* Paths found equal on both sides become baseline entries.
Approved(d, base, plan) ==
    [p \in Path |-> IF plan[p] = "same" THEN disk[d].file[p] ELSE base[p]]

-----------------------------------------------------------------------------
(* The sync daemon. *)

Failed(c) == [proc[c] EXCEPT !.state = "gone", !.ready = "err", !.clean = FALSE]

\* inspectMountLocalRoot, MkdirAll, claimSyncRoot
Claim(c) ==
    LET d == DirOf(c) IN
    /\ Starting(c) /\ Sync(c)
    /\ disk' = [disk EXCEPT ![d].exists = TRUE, ![d].control = TRUE,
                            ![d].id = IF disk[d].exists THEN @ ELSE @ + 1]
    /\ proc' = [proc EXCEPT ![c] =
                  IF Owned(d, "sync") THEN Failed(c)
                  ELSE [@ EXCEPT !.state = "claimed", !.exists = disk[d].exists,
                                 !.empty = Empty(d) /\ ~HasSubdir(d)]]
    /\ UNCHANGED <<remote, client, registry, holder, cmd, kernel, forced, events>>

\* The mounted marker proves an established mount of this very directory in
\* this generation.
KnownMount(c) ==
    LET d == DirOf(c) IN
    proc[c].exists /\ client[d].mark.gen = cmd[c].gen /\ client[d].mark.id = disk[d].id

\* Refused by the state of an earlier mount, before the generation is noted.
Mismatched(c) ==
    LET d == DirOf(c) IN
    \/ client[d].gen \notin {0, cmd[c].gen}
    \/ proc[c].exists /\ client[d].mark.id \notin {0, disk[d].id}
    \/ KnownMount(c) /\ client[d].mark.ro # cmd[c].ask.ro

\* The baseline the daemon starts from: none when the directory was missing,
\* or empty with nothing but deletions left to publish.
Baseline(c) ==
    LET d == DirOf(c)
        base == IF proc[c].exists THEN client[d].base ELSE NoBaseline
        plan == buildMountReconcilePlan(d, base, cmd[c].ask.ro)
    IN IF DeletesRemoteFromEmptyLocal(c, d, base, plan)
            /\ (~proc[c].exists \/ StateLiveCount(base) = 0)
       THEN NoBaseline ELSE base

serveSyncDaemon(c) ==
    LET d == DirOf(c)
        base == Baseline(c)
        plan == buildMountReconcilePlan(d, base, cmd[c].ask.ro)
        refused == \/ remote.gen # cmd[c].gen
                   \/ DeletesRemoteFromEmptyLocal(c, d, base, plan)
                   \/ ~KnownMount(c) /\ (requiresConfirmation(d, base, plan)
                                           \/ Plans(plan, {"conflict"}))
    IN
    /\ proc[c].state = "claimed" /\ Sync(c)
    /\ IF Mismatched(c)
       THEN proc' = [proc EXCEPT ![c] = Failed(c)] /\ UNCHANGED <<client, disk>>
       ELSE /\ disk' = [disk EXCEPT ![d].synced = @ \cup
                          {<<remote.gen, disk[d].id, p, remote.tree[p]>> :
                             p \in {q \in Path : disk[d].file[q] = remote.tree[q]}}]
            /\ client' = [client EXCEPT ![d].gen = cmd[c].gen,
                            ![d].base = IF refused THEN @ ELSE Approved(d, base, plan)]
            /\ proc' = [proc EXCEPT ![c] =
                          IF refused THEN Failed(c)
                          ELSE [@ EXCEPT !.state = "planned",
                                         !.empty = @ /\ Empty(d) /\ ~HasSubdir(d)]]
    /\ UNCHANGED <<remote, registry, holder, cmd, kernel, forced, events>>

\* One pass of the reconciler at a path: the local and the remote content and
\* the baseline entry it leaves.  Of a conflict the local side is set aside.
\* A deletion is published only over the content it was made of; a read-only
\* mount takes deletions and edits back.
Reconciled(l, r, b, base, ro) ==
    LET kind == IF StateCount(base) > 0 THEN PlanKnown(l, r, b, ro) ELSE PlanFresh(l, r, ro)
        gone == IF b > Absent /\ ~ro THEN Tombstone(b) ELSE IF ro THEN Stored(b) ELSE b
    IN CASE kind \in {"import", "upload"} -> <<l, l, l>>
         [] kind \in {"download", "conflict"} -> <<r, r, r>>
         [] kind = "deleteLocal" -> <<Absent, Absent, Unknown>>
         [] kind = "deleteRemote" -> IF r = Stored(b) THEN <<Absent, Absent, Unknown>> ELSE <<r, r, r>>
         [] kind = "same" -> <<l, r, l>>
         [] kind = "skip" -> IF r = Absent THEN <<l, r, b>> ELSE <<r, r, r>>
         [] kind = "none" -> <<Absent, Absent, gone>>

Reconcile(c) ==
    LET d == DirOf(c)
        base == client[d].base
        at == [p \in Path |-> Reconciled(disk[d].file[p], remote.tree[p], base[p], base, cmd[c].ask.ro)]
    IN /\ disk' = [disk EXCEPT ![d].file = [p \in Path |-> at[p][1]],
                               ![d].synced = @ \cup {<<remote.gen, disk[d].id, p, at[p][2]>> : p \in Path}]
       /\ remote' = [remote EXCEPT !.tree = [p \in Path |-> at[p][2]]]
       /\ client' = [client EXCEPT ![d].base = [p \in Path |-> at[p][3]],
                                   ![d].mark = IF proc[c].state = "planned" /\ proc'[c].state = "up"
                                               THEN [gen |-> cmd[c].gen, id |-> disk[d].id, ro |-> cmd[c].ask.ro]
                                               ELSE @]

\* Every request of the daemon carries the generation it was mounted with.
Fenced(c) == remote.gen # cmd[c].gen

\* d.Start reconciles the whole tree, then the mounted marker is written and
\* readiness reported; the marker may fail to be written.
DaemonStart(c) ==
    /\ proc[c].state = "planned" /\ Sync(c)
    /\ \/ /\ Fenced(c) /\ proc' = [proc EXCEPT ![c] = Failed(c)]
          /\ UNCHANGED <<disk, remote, client, events>>
       \/ /\ ~Fenced(c) /\ proc' = [proc EXCEPT ![c].state = "up", ![c].ready = "ok"]
          /\ Reconcile(c) /\ UNCHANGED events
       \/ /\ ~Fenced(c) /\ Spend /\ proc' = [proc EXCEPT ![c] = Failed(c)]
          /\ Reconcile(c)
    /\ UNCHANGED <<registry, holder, cmd, kernel, forced>>

\* The running daemon brings both sides together.
DaemonSync(c) ==
    /\ proc[c].state = "up" /\ Sync(c) /\ ~Fenced(c)
    /\ Reconcile(c) /\ <<disk', remote', client'>> # <<disk, remote, client>>
    /\ UNCHANGED <<registry, holder, cmd, proc, kernel, forced, events>>

-----------------------------------------------------------------------------
(* The native helper. *)

\* lockRuntime, then native.Start: the helper exits unless it mounts, or the
\* mount exists and cannot be undone, when it stays to be controlled.
HelperLock(c) ==
    /\ Starting(c) /\ ~Sync(c)
    /\ proc' = [proc EXCEPT ![c] = IF Owned(DirOf(c), cmd[c].ask.backend) THEN Failed(c)
                                   ELSE [@ EXCEPT !.state = "claimed"]]
    /\ UNCHANGED <<disk, remote, client, registry, holder, cmd, kernel, forced, events>>

prepareMountpoint(d) == validateNativeMountpoint(d) /\ d \notin kernel

HelperStart(c) ==
    LET d == DirOf(c)
        fit == prepareMountpoint(d) /\ ~Fenced(c)
    IN
    /\ proc[c].state = "claimed" /\ ~Sync(c)
    /\ \/ /\ ~fit /\ proc' = [proc EXCEPT ![c] = Failed(c)] /\ UNCHANGED <<disk, kernel, events>>
       \/ /\ fit /\ kernel' = kernel \cup {d}
          /\ disk' = [disk EXCEPT ![d].exists = TRUE, ![d].id = IF disk[d].exists THEN @ ELSE @ + 1]
          /\ \/ proc' = [proc EXCEPT ![c].state = "up", ![c].ready = "ok"] /\ UNCHANGED events
             \/ Spend /\ proc' = [proc EXCEPT ![c].state = "up", ![c].ready = "err"]
    /\ UNCHANGED <<remote, client, registry, holder, cmd, forced>>

-----------------------------------------------------------------------------
(* Flushes: what a save, a shutdown and a native flush guarantee. *)

\* A verified save publishes the local tree, and fails where a peer changed
\* what it would replace.
Savable(c) ==
    LET d == DirOf(c) IN
    /\ ~Fenced(c)
    /\ \A p \in Path : remote.tree[p] \in {Absent, disk[d].file[p], Stored(client[d].base[p])}
Save(c) ==
    LET d == DirOf(c) IN
    IF Sync(c) /\ ~cmd[c].ask.ro
    THEN /\ Savable(c)
         /\ remote' = [remote EXCEPT !.tree = disk[d].file]
         /\ client' = [client EXCEPT ![d].base =
                         [p \in Path |-> IF disk[d].file[p] = Absent THEN Unknown ELSE disk[d].file[p]]]
         /\ disk' = [disk EXCEPT ![d].synced =
                       @ \cup {<<remote.gen, disk[d].id, p, disk[d].file[p]>> : p \in Path}]
    ELSE UNCHANGED <<disk, remote, client>>

\* The process of command t stops after a flush, or by detaching.
Stop(t, flush) ==
    /\ IF flush THEN Save(t) ELSE UNCHANGED <<disk, remote, client>>
    /\ kernel' = IF Sync(t) THEN kernel ELSE kernel \ {DirOf(t)}
    /\ proc' = [proc EXCEPT ![t].state = "gone", ![t].clean = TRUE]

\* A signal: a sync daemon ends whether or not the flush succeeds, a helper
\* whose flush fails goes on serving.
Signal(t) ==
    /\ proc[t].state = "up" /\ Spend
    /\ \/ Stop(t, TRUE)
       \/ /\ Sync(t) /\ proc' = [proc EXCEPT ![t].state = "gone"]
          /\ UNCHANGED <<disk, remote, client, kernel>>
    /\ UNCHANGED <<registry, holder, cmd, forced>>

-----------------------------------------------------------------------------
(* unmount *)

\* The process a record's token addresses, if it serves requests.
Serves(r) == proc[r.token].state = "up"

unmount(c) ==
    LET d == DirOf(c) force == cmd[c].ask.force IN
    /\ lockRegistry(c) /\ cmd[c].ask.op = "unmount"
    /\ \/ /\ At(d) = {} /\ Goto(c, "done") /\ UNCHANGED <<registry, holder, forced>>
       \/ \E r \in At(d) :
            /\ r.backend = "sync"
            /\ \/ /\ Owned(d, "sync") /\ holder' = c /\ Goto(c, "ask")
                  /\ UNCHANGED <<registry, forced>>
               \/ /\ ~Owned(d, "sync") /\ ~force /\ Goto(c, "done")
                  /\ UNCHANGED <<registry, holder, forced>>
               \/ /\ ~Owned(d, "sync") /\ force /\ Goto(c, "done")
                  /\ registry' = Without(registry, d) /\ forced' = forced \cup {d}
                  /\ UNCHANGED holder
    /\ UNCHANGED <<disk, remote, client, proc, kernel, events>>

unmountNative(c) ==
    LET d == DirOf(c) IN
    /\ lockRegistry(c) /\ cmd[c].ask.op = "unmount" /\ holder' = c
    /\ \E r \in At(d) :
         /\ r.backend # "sync"
         /\ Goto(c, IF ~Owned(d, r.backend) /\ cmd[c].ask.force THEN "detach" ELSE "call")
    /\ UNCHANGED <<disk, remote, client, registry, proc, kernel, forced, events>>

\* The process of a record is asked to stop and does.
Answered(c, r) ==
    /\ Serves(r) /\ Stop(r.token, ~cmd[c].ask.force) /\ Goto(c, "settle")
    /\ forced' = IF cmd[c].ask.force THEN forced \cup {DirOf(c)} ELSE forced
    /\ UNCHANGED <<registry, holder, events>>

\* It is not there, refuses, or does not answer in time.
Unanswered(c) ==
    /\ holder' = None /\ Goto(c, "done")
    /\ UNCHANGED <<disk, remote, client, registry, proc, kernel, forced>>

controlMount(c) ==
    /\ cmd[c].pc = "ask"
    /\ \E r \in At(DirOf(c)) :
         \/ Answered(c, r)
         \/ /\ IF Serves(r) /\ (cmd[c].ask.force \/ Savable(r.token)) THEN Spend ELSE UNCHANGED events
            /\ Unanswered(c)

callNativeMount(c) ==
    /\ cmd[c].pc = "call"
    /\ \E r \in At(DirOf(c)) :
         \/ Answered(c, r)
         \/ /\ IF Serves(r) THEN Spend ELSE UNCHANGED events
            /\ Unanswered(c)

\* The record goes once nobody owns the directory.
Settle(c) ==
    LET d == DirOf(c) IN
    /\ cmd[c].pc = "settle"
    /\ \E r \in At(d) :
         registry' = IF Owned(d, r.backend) THEN registry ELSE Without(registry, d)
    /\ holder' = None /\ Goto(c, "done")
    /\ UNCHANGED <<disk, remote, client, proc, kernel, forced, events>>

\* A fresh helper that only detaches a stale kernel mount.
DetachStale(c) ==
    LET d == DirOf(c) IN
    /\ cmd[c].pc = "detach" /\ holder' = None /\ Goto(c, "done")
    /\ \E r \in At(d) :
         \/ /\ ~Owned(d, r.backend)
            /\ kernel' = kernel \ {d} /\ registry' = Without(registry, d)
            /\ forced' = forced \cup {d} /\ UNCHANGED events
         \/ /\ IF Owned(d, r.backend) THEN UNCHANGED events ELSE Spend
            /\ UNCHANGED <<kernel, registry, forced>>
    /\ UNCHANGED <<disk, remote, client, proc>>

-----------------------------------------------------------------------------
(* checkpoint create: the registered mounts are read without the lock and  *)
(* flushed one after the other; a stopped one ends the command.            *)

localWorkspaceMounts_Running(c) ==
    /\ cmd[c].pc = "records"
    /\ cmd' = [cmd EXCEPT ![c].pc = "flush", ![c].todo = {r \in registry : Owned(r.root, r.backend)}]
    /\ UNCHANGED <<disk, remote, client, registry, holder, proc, kernel, forced, events>>
localWorkspaceMounts(c) ==
    /\ cmd[c].pc = "records"
    /\ cmd' = [cmd EXCEPT ![c].pc = "flush",
                          ![c].todo = {r \in registry : ~(r.ro /\ r.backend = "sync")}]
    /\ UNCHANGED <<disk, remote, client, registry, holder, proc, kernel, forced, events>>

flushLocalMounts(c) ==
    /\ cmd[c].pc = "flush"
    /\ \E r \in cmd[c].todo :
         \/ /\ Serves(r) /\ Save(r.token)
            /\ cmd' = [cmd EXCEPT ![c].todo = @ \ {r}] /\ UNCHANGED events
         \/ /\ IF Serves(r) /\ (~Sync(r.token) \/ Savable(r.token)) THEN Spend ELSE UNCHANGED events
            /\ Goto(c, "done") /\ UNCHANGED <<disk, remote, client>>
    /\ UNCHANGED <<registry, holder, proc, kernel, forced>>

\* Every registered mount is flushed: the checkpoint is taken.
Checkpoint(c) ==
    /\ cmd[c].pc = "flush" /\ cmd[c].todo = {}
    /\ Goto(c, "saved")
    /\ UNCHANGED <<disk, remote, client, registry, holder, proc, kernel, forced, events>>

-----------------------------------------------------------------------------
(* What happens around the commands. *)

\* An application edits a directory that is there.
Edit ==
    \E d \in Root, p \in Path, v \in Edited :
        /\ disk[d].exists /\ d \notin kernel /\ disk[d].file[p] # v /\ Spend
        /\ disk' = [disk EXCEPT ![d].file[p] = v]
        /\ UNCHANGED <<remote, client, registry, holder, cmd, proc, kernel, forced>>

\* Somebody removes a directory nobody serves, or puts a new one in its place.
ReplaceRoot ==
    \E d \in Root, back \in BOOLEAN :
        /\ disk[d].exists /\ d \notin kernel /\ Spend
        /\ \A c \in Command : Live(c) => ~Overlap(DirOf(c), d)
        /\ \A e \in Root : <<e, d>> \in Nested => ~disk[e].exists
        /\ disk' = [disk EXCEPT ![d] =
                      [@ EXCEPT !.exists = back, !.control = FALSE, !.id = IF back THEN @ + 1 ELSE @,
                                !.file = [p \in Path |-> Absent]]]
        /\ UNCHANGED <<remote, client, registry, holder, cmd, proc, kernel, forced>>

PeerEdit ==
    \E p \in Path, v \in Edited :
        /\ remote.tree[p] # v /\ Spend
        /\ remote' = [remote EXCEPT !.tree[p] = v]
        /\ UNCHANGED <<disk, client, registry, holder, cmd, proc, kernel, forced>>

\* A restore replaces the tree under a new generation.
Restore ==
    \E p \in Path, v \in Edited :
        /\ Spend
        /\ remote' = [tree |-> [remote.tree EXCEPT ![p] = v], gen |-> remote.gen + 1]
        /\ UNCHANGED <<disk, client, registry, holder, cmd, proc, kernel, forced>>

\* A daemon or helper is killed, with the foreground command it may be; its
\* locks go with it, a kernel mount stays.
Crash(c) ==
    /\ Live(c) \/ Starting(c)
    /\ Spend
    /\ proc' = [proc EXCEPT ![c].state = "gone", ![c].clean = FALSE]
    /\ cmd' = [cmd EXCEPT ![c].pc = IF @ = "serve" THEN "done" ELSE @]
    /\ UNCHANGED <<disk, remote, client, registry, holder, kernel, forced>>

\* A command is killed where it is; its lock on the registry goes with it.
Die(c) ==
    /\ cmd[c].pc \notin {"new", "serve", "done", "saved"} /\ Spend
    /\ Goto(c, "done") /\ holder' = IF holder = c THEN None ELSE holder
    /\ UNCHANGED <<disk, remote, client, registry, proc, kernel, forced>>

Next ==
    \/ \E c \in Command :
         \/ Run(c) \/ mount(c) \/ mountNative(c) \/ startNativeHelper(c) \/ MountReady(c)
         \/ MountFailed(c) \/ Attend(c) \/ removeFinishedMount(c)
         \/ Claim(c) \/ serveSyncDaemon(c) \/ DaemonStart(c) \/ DaemonSync(c)
         \/ HelperLock(c) \/ HelperStart(c) \/ Signal(c)
         \/ unmount(c) \/ unmountNative(c) \/ controlMount(c) \/ callNativeMount(c)
         \/ Settle(c) \/ DetachStale(c)
         \/ localWorkspaceMounts(c) \/ flushLocalMounts(c) \/ Checkpoint(c)
         \/ Crash(c) \/ Die(c)
    \/ Edit \/ ReplaceRoot \/ PeerEdit \/ Restore

Spec == Init /\ [][Next]_vars

-----------------------------------------------------------------------------
(* Properties. *)

\* Two processes never serve overlapping directories while both are accounted
\* for, by their record or by the registry lock of the command starting them
\* (sync_lifecycle.go mount, native_lifecycle.go mountNative).  A foreground
\* sync mount is left out: it gives up the registry before it claims its root.
Accounted(c) == Live(c) /\ (RecordOf(c) \in registry \/ holder = c) /\ (Sync(c) => ~cmd[c].ask.fg)
ServedOnce ==
    \A c, e \in Command : c # e /\ Accounted(c) /\ Accounted(e) => ~Overlap(DirOf(c), DirOf(e))

\* A kernel mount keeps its record through every death of commands and helpers
\* until it is gone or detached by force: the registration precedes the helper
\* (native_lifecycle.go mountNative).
KernelMountRegistered ==
    \A d \in kernel \ forced : \E r \in At(d) : r.backend # "sync"

\* A mount takes content out of the workspace only where this very directory
\* held that content in this generation, and never because the directory was
\* found missing or empty (serveSyncDaemon).
MountPreserves ==
    [][\A c \in Command : DaemonStart(c) =>
         \A p \in Path :
            \/ remote.tree[p] \in {Absent, remote'.tree[p]}
            \/ /\ <<remote.gen, disk[DirOf(c)].id, p, remote.tree[p]>> \in disk[DirOf(c)].synced
               /\ ~proc[c].empty]_vars

\* A checkpoint that succeeds has every edit that was waiting, when it began,
\* in a sync mount that stays registered and keeps the edit: the records are
\* read without the registry lock, and daemons come and go meanwhile
\* (flushLocalMounts).
CheckpointHasEdits ==
    [][\A c \in Command : Checkpoint(c) =>
         \A e \in cmd[c].pend :
            LET d == e[1].root IN
            e[1] \in registry /\ disk[d].file[e[2]] = e[3]
              => <<e[1].gen, disk[d].id, e[2], e[3]>> \in disk[d].synced]_vars
=============================================================================
