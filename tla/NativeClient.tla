---------------------------- MODULE NativeClient ----------------------------
(***************************************************************************)
(* The client of a live workspace (mount/internal/client) that mounts,     *)
(* folder sync and the public workspace API share. Every client carries    *)
(* out one file operation at a time: it resolves paths entry by entry,     *)
(* stages content under a private key and publishes with one script of     *)
(* module Publication, alone or inside a WATCH transaction. Every command  *)
(* to Redis is a step of its own, so operations of several clients         *)
(* interleave between any two of them.                                     *)
(*                                                                         *)
(* A symlink target is a path from the root. The entry of a path cache is  *)
(* used until its expiry or the invalidation of a peer drops it, which may *)
(* happen at any time or never. Cached directory listings are left out.    *)
(***************************************************************************)
EXTENDS Publication

CONSTANTS Mounts,        \* clients of mounts: they have a path cache and a lease
          Asked(_, _),   \* the requests a client may issue in a workspace
          Start,         \* pairs of a workspace and a budget to start from: how many
                         \* requests each client issues, how many faults (lost answers,
                         \* expired stages, lost leases, new generations) and history
                         \* events (policy changes, sweeps, days) there are
          Policies,      \* history policies an administrator may set
          MaxTries,      \* WATCH executions, range attempts, reads
          MaxHops        \* symlinks followed in one resolution

VARIABLES ws, cl, cache, broken, budget
vars == <<ws, cl, cache, broken, budget>>

NoSnap == [id |-> 0]
AnyStat == [id |-> -1, rev |-> 0]   \* no condition on the file
ParentOf(path) == Front(path)
BaseName(path) == Last(path)

(* Metadata as loadInodeByID returns it. Only symlinks carry data.         *)
Snap(w, id) ==
    IF ~Exists(w, id) THEN NoSnap
    ELSE LET i == w.inode[id]
         IN [id |-> id, type |-> i.type, parent |-> i.parent, name |-> i.name, rev |-> i.rev,
             mode |-> i.mode, data |-> IF i.type = "symlink" THEN i.data ELSE <<>>]

Idle(result) ==
    [pc |-> "idle", result |-> result, req |-> [kind |-> "none"], goal |-> "none", at |-> <<>>, todo |-> <<>>,
     cur |-> Root, child |-> 0, hops |-> 0, seen |-> FALSE, src |-> NoSnap, dst |-> NoSnap,
     path |-> <<>>, script |-> "none", rev |-> 0, over |-> 0, overRev |-> 0, dstDir |-> 0,
     code |-> 0, tries |-> 0, prepares |-> 0, applied |-> 0, bytes |-> <<>>, list |-> <<>>]

Ended(r, result) == Idle(result)

---------------------------------------------------------------------------
(* A request has a kind and a path (or, by inode, an id); to is where a    *)
(* rename goes or a link leads; data, off, size and mode are arguments;    *)
(* exclusive, noreplace and undelete are flags; bound pairs directory      *)
(* paths with the inodes they must lead to; expect is AnyStat or what      *)
(* WithExpectedStat observed, id 0 for an absent file.                     *)

Follows(kind) == kind \in {"write", "echocreate", "append", "truncate", "chunks", "touch", "cat",
                           "readchunks", "ls"}
Ranged(kind) == kind \in {"range", "rappend", "rtruncate"}
ByInode(kind) == Ranged(kind) \/ kind = "read"

WithExpectedParent(w, paths) == {<<p, Follow(w, p)>> : p \in paths}

checkExpectedParent(r, path, parent) ==
    r.req.bound = {} \/ <<ParentOf(path), parent>> \in r.req.bound

checkWriteCondition(r, s, creating) ==
    \/ r.req.expect = AnyStat
    \/ creating /\ r.req.expect.id = 0
    \/ ~creating /\ r.req.expect.id = s.id /\ r.req.expect.rev = s.rev

Zeros(n) == [i \in 1..n |-> 0]
Overlay(data, off, bytes) ==
    LET size == Max({Len(data), off + Len(bytes)})
    IN [i \in 1..size |-> IF i > off /\ i <= off + Len(bytes) THEN bytes[i - off]
                          ELSE IF i <= Len(data) THEN data[i] ELSE 0]
Resize(data, size) == SubSeq(data \o Zeros(size), 1, size)

(* What the operation makes of the present bytes.                          *)
Edit(q, data) ==
    CASE q.kind \in {"write", "echocreate", "create", "touch"} -> q.data
      [] q.kind \in {"append", "rappend"} -> data \o q.data
      [] q.kind \in {"truncate", "rtruncate"} -> Resize(data, q.size)
      [] q.kind = "range" -> Overlay(data, q.off, q.data)
      [] q.kind = "chunks" -> Resize(Overlay(data, q.off, q.data), q.size)

---------------------------------------------------------------------------
(* What a client does next, as a function of its record: these decisions   *)
(* touch nothing shared.                                                   *)

resolvePath(r, goal, path) ==
    [r EXCEPT !.pc = "walk", !.goal = goal, !.at = <<>>, !.todo = path, !.cur = Root, !.hops = 0]

(* ensureParents: a bound request never creates a parent.                  *)
ensureParents(r) == resolvePath(r, "parents", ParentOf(r.req.path))
CreateUnder(r) == resolvePath(r, "dest", ParentOf(r.req.path))

ParentsReady(r) ==
    IF r.req.kind \in {"mkdir", "ln", "echocreate", "touch"} /\ ~r.seen
    THEN [resolvePath(r, "target", r.req.path) EXCEPT !.seen = TRUE]
    ELSE CreateUnder(r)

Publish(r, script, s, path) ==
    IF ~checkExpectedParent(r, path, s.parent) \/ ~checkWriteCondition(r, s, FALSE)
    THEN Ended(r, "conflict")
    ELSE [r EXCEPT !.pc = IF script = "publish" THEN "stage" ELSE "send",
                   !.script = script, !.src = s, !.path = path]

(* What each operation does with its target, resolved to s at a path.      *)
IfFile(r, s, next) == IF s.type # "file" THEN Ended(r, "notfile") ELSE next

writeFile(r, s, path) == IfFile(r, s, Publish(r, "publish", s, path))
Truncate(r, s, path) == IfFile(r, s, Publish(r, "publish", s, path))
writeFileWithMode(r, s, path) == IfFile(r, s, Publish(r, "publish", [s EXCEPT !.mode = r.req.mode], path))
publishChunks(r, s, path) == IfFile(r, s, Publish(r, "publish", s, path))
Touch(r, s, path) == IfFile(r, s, Publish(r, "update", s, path))
Cat(r, s) == IfFile(r, s, [r EXCEPT !.pc = "read", !.src = s])
ReadChunks(r, s) == IfFile(r, s, [r EXCEPT !.pc = "read", !.src = s])
LsLong(r, s, path) ==
    IF s.type # "dir" THEN Ended(r, "notdir") ELSE [r EXCEPT !.pc = "list", !.src = s, !.at = path]
Stat(r) == Ended(r, "ok")
Readlink(r, s) == Ended(r, IF s.type = "symlink" THEN "ok" ELSE "notsymlink")
MkdirMode(r, s) == Ended(r, IF s.type = "dir" THEN "ok" ELSE "exists")
Ln(r) == Ended(r, "exists")
Rm(r, s, path) == Publish(r, "delete", s, path)
Chmod(r, s, path) == Publish(r, "update", [s EXCEPT !.mode = r.req.mode], path)
SetAttrs(r, s, path) == Publish(r, "update", [s EXCEPT !.mode = r.req.mode], path)
Rename(r, s, path) ==
    IF s.type = "dir" /\ IsPrefix(path, r.req.to) THEN Ended(r, "subtree")
    ELSE resolvePath([r EXCEPT !.src = s, !.path = path], "dest", ParentOf(r.req.to))
RestoreFileVersion(r, s) ==
    IF s.type = "dir" \/ ~checkWriteCondition(r, s, FALSE) THEN Ended(r, "conflict")
    ELSE [r EXCEPT !.pc = "alloc", !.src = s]

Found(r, s, path) ==
    LET k == r.req.kind
    IN CASE k \in {"write", "append"} -> writeFile(r, s, path)
         [] k = "echocreate" -> writeFileWithMode(r, s, path)
         [] k = "truncate" -> Truncate(r, s, path)
         [] k = "chunks" -> publishChunks(r, s, path)
         [] k = "touch" -> Touch(r, s, path)
         [] k = "cat" -> Cat(r, s)
         [] k = "readchunks" -> ReadChunks(r, s)
         [] k = "ls" -> LsLong(r, s, path)
         [] k = "stat" -> Stat(r)
         [] k = "readlink" -> Readlink(r, s)
         [] k = "mkdir" -> MkdirMode(r, s)
         [] k = "ln" -> Ln(r)
         [] k = "rm" -> Rm(r, s, path)
         [] k = "chmod" -> Chmod(r, s, path)
         [] k = "setattrs" -> SetAttrs(r, s, path)
         [] k = "mv" -> Rename(r, s, path)
         [] k = "restore" -> RestoreFileVersion(r, s)

NotFound(r) ==
    LET k == r.req.kind
    IN CASE k \in {"write", "append", "chunks", "mkdir", "touch"} -> ensureParents(r)
         [] k \in {"ln", "echocreate"} -> CreateUnder(r)
         [] k = "restore" ->
              IF checkWriteCondition(r, NoSnap, TRUE) THEN [r EXCEPT !.pc = "alloc", !.src = NoSnap]
              ELSE Ended(r, "conflict")
         [] OTHER -> Ended(r, "notfound")

(* And with the directory s that the new entry goes to.                    *)
RestoreUnder(r, s) ==
    [resolvePath([r EXCEPT !.dst = s], "target", Append(r.at, BaseName(r.req.path))) EXCEPT !.path = r.at]
renamePath(r, s) ==
    IF /\ checkExpectedParent(r, r.path, r.src.parent)
       /\ checkExpectedParent(r, r.req.to, s.id)
       /\ checkWriteCondition(r, r.src, FALSE)
    THEN [r EXCEPT !.pc = "watch", !.script = "rename", !.dst = s] ELSE Ended(r, "conflict")
createInodeAtPath(r, s) ==
    IF checkExpectedParent(r, r.req.path, s.id) THEN [r EXCEPT !.pc = "claim", !.dst = s]
    ELSE Ended(r, "conflict")
createFileIfMissing(r, s) ==
    IF checkExpectedParent(r, r.req.path, s.id) /\ checkWriteCondition(r, NoSnap, TRUE)
    THEN [r EXCEPT !.pc = "alloc", !.dst = s] ELSE Ended(r, "conflict")

ParentFound(r, s) ==
    LET k == r.req.kind
    IN CASE s.type # "dir" -> Ended(r, "parentconflict")
         [] s.type = "dir" /\ k = "restore" -> RestoreUnder(r, s)
         [] s.type = "dir" /\ k = "mv" -> renamePath(r, s)
         [] s.type = "dir" /\ k \in {"mkdir", "ln"} -> createInodeAtPath(r, s)
         [] OTHER -> createFileIfMissing(r, s)

Arrived(r, s, path) ==
    CASE r.goal = "target" -> Found(r, s, path)
      [] r.goal = "dest" -> ParentFound([r EXCEPT !.at = path], s)
      [] r.goal = "parents" ->
           IF r.req.bound # {} /\ ~checkExpectedParent(r, r.req.path, s.id) THEN Ended(r, "conflict")
           ELSE ParentsReady(r)

(* One component of a path was resolved to s. Unbound ensureParents does   *)
(* not follow symlinks.                                                    *)
Seen(r, s) ==
    LET path == Append(r.at, Head(r.todo))
        final == Len(r.todo) = 1
        implicit == r.goal = "parents" /\ r.req.bound = {}
        follow == ~implicit /\ (~final \/ r.goal # "target" \/ Follows(r.req.kind))
    IN IF s.type = "symlink" /\ follow
       THEN IF r.hops = MaxHops THEN Ended(r, "loop")
            ELSE [r EXCEPT !.pc = "walk", !.at = <<>>, !.cur = Root, !.hops = @ + 1, !.todo = s.data \o Tail(@)]
       ELSE IF implicit /\ s.type # "dir" THEN Ended(r, "parentconflict")
       ELSE IF final THEN Arrived(r, s, path)
       ELSE IF s.type # "dir" THEN Ended(r, "notdir")
       ELSE [r EXCEPT !.pc = "walk", !.at = path, !.cur = s.id, !.todo = Tail(@)]

(* A component is missing.                                                 *)
Missing(r) ==
    CASE r.goal = "target" -> NotFound(r)
      [] r.goal = "parents" ->
           IF r.req.bound = {} THEN [r EXCEPT !.pc = "claim"] ELSE Ended(r, "conflict")
      [] r.goal = "dest" ->
           Ended(r, IF r.req.kind = "restore" /\ r.req.expect.id # 0 THEN "conflict" ELSE "notfound")

---------------------------------------------------------------------------
(* Steps.                                                                  *)

Opened == 1   \* the generation at which all clients opened the workspace

Init ==
    /\ \E s \in Start : ws = s[1] /\ budget = s[2]
    /\ cl = [c \in Client |-> Idle("ok")]
    /\ cache = [c \in Client |-> <<>>]
    /\ broken = {}

Lifetimes(c) ==
    IF ws.generation # Opened THEN "changed" ELSE IF c \notin ws.lease THEN "lost" ELSE "ok"

(* A mount checks its session before and after a request, and skips the    *)
(* checks inside.                                                          *)
checkGeneration(c) == IF c \in Mounts THEN "ok" ELSE Lifetimes(c)
finish(c, r) ==
    IF c \in Mounts /\ r.pc = "idle" /\ r.result \in {"ok", "adopted"} /\ Lifetimes(c) # "ok"
    THEN Ended(r, Lifetimes(c)) ELSE r

(* A client that ends an operation discards its stage and its prepared     *)
(* hashes.                                                                 *)
Move(c, r, w) ==
    /\ cl' = [cl EXCEPT ![c] = finish(c, r)]
    /\ ws' = IF r.pc = "idle" THEN [w EXCEPT !.stage[c] = NoStage, !.prepared[c] = <<>>] ELSE w

cachePath(c, path, s) ==
    cache' = IF c \in Mounts /\ s.id # 0 THEN [cache EXCEPT ![c] = (path :> s) @@ @] ELSE cache

FirstStep(r) ==
    LET q == r.req
    IN IF q.kind \in {"create", "mkdir", "ln", "echocreate", "touch"} THEN ensureParents(r)
       ELSE IF q.kind = "restore" THEN IF q.expect.id = 0 THEN ensureParents(r) ELSE CreateUnder(r)
       ELSE resolvePath(r, "target", q.path)

MayAsk(c) == cl[c].pc = "idle" /\ budget.requests[c] > 0

Issue(c, r) ==
    /\ IF c \in Mounts /\ Lifetimes(c) # "ok"
       THEN cl' = [cl EXCEPT ![c] = Ended(r, Lifetimes(c))] /\ cache' = [cache EXCEPT ![c] = <<>>]
       ELSE cl' = [cl EXCEPT ![c] = r] /\ UNCHANGED cache
    /\ budget' = [budget EXCEPT !.requests[c] = @ - 1]
    /\ UNCHANGED <<ws, broken>>

Begin(c) ==
    /\ MayAsk(c)
    /\ \E q \in Asked(c, ws) :
         ~ByInode(q.kind) /\ Issue(c, FirstStep([Idle("none") EXCEPT !.req = q]))

BeginInode(c) ==
    /\ MayAsk(c)
    /\ \E q \in Asked(c, ws) :
         ByInode(q.kind) /\ Issue(c, [Idle("none") EXCEPT !.req = q, !.pc = "open"])

NextPath(r) == Append(r.at, Head(r.todo))

(* The walk finds its next component in the cache. ensureParents takes     *)
(* only directories from it, and restores do not use it.                   *)
InCache(c) ==
    LET r == cl[c]
    IN /\ r.pc = "walk" /\ r.todo # <<>> /\ r.req.kind # "restore"
       /\ NextPath(r) \in DOMAIN cache[c]
       /\ r.goal = "parents" /\ r.req.bound = {} => cache[c][NextPath(r)].type = "dir"

(* ensureRoot checks the generation before a walk.                         *)
Refused(c) == cl[c].at = <<>> /\ cl[c].hops = 0 /\ checkGeneration(c) # "ok"

(* HGET of one directory entry.                                            *)
lookupChildID(c) ==
    LET r == cl[c]
        id == ws.dirent[r.cur][Head(r.todo)]
    IN /\ r.pc = "walk" /\ (Refused(c) \/ ~InCache(c))
       /\ Move(c, IF Refused(c) THEN Ended(r, checkGeneration(c))
                  ELSE IF r.todo = <<>> THEN Arrived(r, Snap(ws, Root), <<>>)
                  ELSE IF id = 0 THEN Missing(r)
                  ELSE [r EXCEPT !.pc = "load", !.child = id], ws)
       /\ UNCHANGED <<cache, broken, budget>>

loadInodeByID(c) ==
    LET r == cl[c]
        s == Snap(ws, r.child)
    IN /\ r.pc = "load"
       /\ Move(c, IF s # NoSnap THEN Seen(r, s)
                  ELSE IF r.goal = "parents" /\ r.req.bound = {} THEN Ended(r, "parentconflict")
                  ELSE Missing(r), ws)
       /\ cachePath(c, Append(r.at, Head(r.todo)), s)
       /\ UNCHANGED <<broken, budget>>

CacheHit(c) ==
    /\ InCache(c) /\ ~Refused(c)
    /\ Move(c, Seen(cl[c], cache[c][NextPath(cl[c])]), ws)
    /\ UNCHANGED <<cache, broken, budget>>

(* The entry was dropped before the walk came to it.                       *)
applyRemoteInvalidation(c) ==
    /\ InCache(c) /\ ~Refused(c)
    /\ cache' = [cache EXCEPT ![c] = Restrict(@, DOMAIN @ \ {NextPath(cl[c])})]
    /\ UNCHANGED <<ws, cl, broken, budget>>

(* createInodeUnderParent up to its transaction.                           *)
Claim(c) ==
    LET r == cl[c]
        implicit == r.goal = "parents"
        parent == IF implicit THEN r.cur ELSE r.dst.id
        name == IF implicit THEN Head(r.todo) ELSE BaseName(r.req.path)
        link == ~implicit /\ r.req.kind = "ln"
    IN /\ r.pc = "claim"
       /\ IF ws.dirent[parent][name] # 0 THEN Move(c, Ended(r, "exists"), ws)
          ELSE /\ ws.next < MaxInode
               /\ Move(c, [r EXCEPT !.pc = "watch", !.script = "create", !.rev = 0,
                             !.src = [id |-> ws.next + 1, type |-> IF link THEN "symlink" ELSE "dir",
                                      parent |-> parent, name |-> name, rev |-> 0, mode |-> 0,
                                      data |-> IF link THEN r.req.to ELSE <<>>]],
                       [ws EXCEPT !.next = @ + 1])
       /\ UNCHANGED <<cache, broken, budget>>

(* A new inode number and the staged content of a new file; or the stage   *)
(* of a restored version, which keeps the inode unless the type changes.   *)
AllocStage(c) ==
    LET r == cl[c]
        restore == r.req.kind = "restore"
        v == r.req.version
        fresh == ~restore \/ r.src = NoSnap \/ r.src.type # v.type
        id == IF fresh THEN ws.next + 1 ELSE r.src.id
        new == [id |-> id, type |-> IF restore THEN v.type ELSE "file", parent |-> r.dst.id,
                name |-> BaseName(r.req.path), rev |-> 0, mode |-> IF restore THEN v.mode ELSE r.req.mode,
                data |-> IF restore THEN r.req.data ELSE <<>>]
    IN /\ r.pc = "alloc" /\ (fresh => ws.next < MaxInode)
       /\ Move(c, [r EXCEPT !.pc = "send", !.rev = 0, !.src = new,
                     !.script = IF restore THEN "restore" ELSE "publish",
                     !.path = IF restore THEN @ ELSE r.req.path,
                     !.over = IF restore THEN r.src.id ELSE 0,
                     !.overRev = IF restore /\ r.src # NoSnap THEN r.src.rev ELSE 0,
                     !.bytes = IF restore /\ r.src # NoSnap THEN ws.inode[r.src.id].data ELSE <<>>],
               [ws EXCEPT !.next = IF fresh THEN @ + 1 ELSE @,
                          !.stage[c] = IF restore THEN r.req.data ELSE Edit(r.req, <<>>)])
       /\ UNCHANGED <<cache, broken, budget>>

(* Staging of an existing file: the present content is read (or copied in  *)
(* Redis) and changed in the stage.                                        *)
Stage(c) ==
    LET r == cl[c]
    IN /\ r.pc = "stage"
       /\ Move(c, [r EXCEPT !.pc = "send", !.rev = 0],
               [ws EXCEPT !.stage[c] = Edit(r.req, ws.inode[r.src.id].data)])
       /\ UNCHANGED <<cache, broken, budget>>

(* The next attempt of a range operation.                                  *)
OpenInode(c) ==
    LET r == cl[c]
        s == Snap(ws, r.req.id)
        gone == s = NoSnap \/ (Ranged(r.req.kind) /\ ~Reachable(ws, r.req.id))
    IN /\ r.pc = "open"
       /\ Move(c, IF checkGeneration(c) # "ok" THEN Ended(r, checkGeneration(c))
                  ELSE IF gone THEN Ended(r, "notfound")
                  ELSE IF s.type # "file" THEN Ended(r, "notfile")
                  ELSE IF ~Ranged(r.req.kind) THEN [r EXCEPT !.pc = "read", !.src = s]
                  ELSE IF r.req.kind = "rtruncate" /\ r.req.size = Len(ws.inode[s.id].data)
                          /\ checkWriteCondition(r, s, FALSE)
                  THEN Ended(r, "ok")
                  ELSE Publish(r, "publish", s, PathOf(ws, s.id)), ws)
       /\ UNCHANGED <<cache, broken, budget>>

---------------------------------------------------------------------------
(* Publication. A script runs alone, or as the one command of a WATCH      *)
(* transaction that guards what was read outside the script.               *)

Args(c, r, token) ==
    [client |-> c, generation |-> Opened, id |-> r.src.id, ino |-> r.src, rev |-> token,
     creating |-> r.src.rev = 0, over |-> r.over, overRev |-> r.overRev]

RunScript(c, r, token) ==
    LET a == Args(c, r, token)
    IN CASE r.script = "publish" -> publishFileScript(ws, a)
         [] r.script = "delete" -> deleteInodeScript(ws, a)
         [] r.script = "update" -> updateInodeScript(ws, a)
         [] r.script = "create" -> createMetadataScript(ws, a)
         [] r.script = "rename" ->
              renameMetadataScript(ws, [to |-> r.dst.id, newName |-> BaseName(r.req.to)] @@ a)
         [] r.script = "restore" ->
              restoreVersionScript(ws, [parentPath |-> r.path, lineage |-> r.req.version.lineage,
                                        undelete |-> r.req.undelete, beforeHash |-> r.bytes] @@ a)

(* The keys a transaction watches besides the generation and the lease.    *)
ChainKeys_None(w, path) == {}
ChainKeys(w, path) == {<<"dirents", Follow(w, SubSeq(path, 1, i - 1))>> : i \in DOMAIN path}
WatchedKeys(r) ==
    (UNION {ChainKeys(ws, b[1]) : b \in r.req.bound})
    \cup (IF r.script = "create" THEN {<<"dirents", r.src.parent>>, <<"inode", r.src.parent>>} ELSE {})
    \cup (IF r.script = "rename"
          THEN {<<"dirents", r.src.parent>>, <<"dirents", r.dst.id>>, <<"inode", r.src.id>>,
                <<"inode", r.src.parent>>, <<"inode", r.dst.id>>}
               \cup (IF r.dstDir = 0 THEN {} ELSE {<<"dirents", r.dstDir>>})
          ELSE {})

(* The body of renamePath's transaction before its script.                 *)
GuardRename(r) ==
    LET old == r.src.parent
        now == Snap(ws, r.src.id)
        over == ws.dirent[r.dst.id][BaseName(r.req.to)]
        o == IF over = 0 THEN NoSnap ELSE Snap(ws, over)
        again == IF r.tries + 1 < MaxTries THEN [r EXCEPT !.tries = @ + 1] ELSE Ended(r, "busy")
    IN IF ~Exists(ws, old) \/ ~Exists(ws, r.dst.id) THEN Ended(r, "conflict")
       ELSE IF ws.dirent[old][r.src.name] \notin {0, r.src.id} THEN again
       ELSE IF ws.dirent[old][r.src.name] = 0 \/ now = NoSnap THEN Ended(r, "notfound")
       ELSE IF now.rev # r.src.rev THEN Ended(r, "conflict")
       ELSE IF over # 0 /\ o = NoSnap THEN again
       ELSE IF over # 0 /\ r.req.noreplace THEN Ended(r, "exists")
       ELSE IF over # 0 /\ (now.type = "dir") # (o.type = "dir") THEN Ended(r, "wrongtype")
       ELSE IF over # 0 /\ o.type = "dir" /\ r.dstDir # over THEN [r EXCEPT !.dstDir = over]
       ELSE IF over # 0 /\ o.type = "dir" /\ ws.dirent[over] # NoDirents THEN Ended(r, "notempty")
       ELSE [r EXCEPT !.pc = "exec", !.over = over, !.overRev = IF over = 0 THEN 0 ELSE o.rev]

GuardCreate(r) ==
    IF ~Exists(ws, r.src.parent) THEN Ended(r, "conflict")
    ELSE IF ws.dirent[r.src.parent][r.src.name] # 0 THEN Ended(r, "exists")
    ELSE [r EXCEPT !.pc = "exec"]

Watch(c) ==
    LET r == cl[c]
        led == \A b \in r.req.bound : b[2] # 0 /\ Follow(ws, b[1]) = b[2]
    IN /\ r.pc = "watch" \/ (r.pc = "send" /\ r.req.bound # {})
       /\ Move(c, IF Lifetimes(c) # "ok" THEN Ended(r, Lifetimes(c))
                  ELSE IF ~led THEN Ended(r, "conflict")
                  ELSE IF r.script = "rename" THEN GuardRename(r)
                  ELSE IF r.script = "create" THEN GuardCreate(r)
                  ELSE [r EXCEPT !.pc = "exec"], ws)
       /\ broken' = broken \ {c}
       /\ UNCHANGED <<cache, budget>>

(* What a script wrote aborts the transactions that watch it.              *)
Breaks(c, wrote) ==
    broken' = (broken \ {c}) \cup {d \in Client \ {c} : cl[d].pc = "exec" /\ WatchedKeys(cl[d]) \cap wrote # {}}

Execute(c) ==
    LET r == cl[c]
        token == IF r.rev = 0 THEN ws.token + 1 ELSE r.rev
    IN \E reply \in {RunScript(c, r, token)} :
         /\ Move(c, [r EXCEPT !.pc = "answer", !.rev = token, !.code = reply.code,
                       !.applied = IF reply.code \in {1, 3} /\ r.goal # "parents" THEN @ + 1 ELSE @],
                 [reply.w EXCEPT !.token = Max({@, token})])
         /\ Breaks(c, reply.wrote)
         /\ UNCHANGED cache

Send(c) ==
    /\ cl[c].pc = "send" /\ cl[c].req.bound = {}
    /\ Execute(c)
    /\ UNCHANGED budget

Exec(c) ==
    LET r == cl[c]
    IN /\ r.pc = "exec"
       /\ IF c \notin broken THEN Execute(c)
          ELSE /\ Move(c, IF r.tries + 1 < MaxTries THEN [r EXCEPT !.pc = "watch", !.tries = @ + 1]
                          ELSE Ended(r, "busy"), ws)
               /\ broken' = broken \ {c}
               /\ UNCHANGED cache
       /\ UNCHANGED budget

---------------------------------------------------------------------------
(* Answers.                                                                *)

(* ErrWriteConflict: a range operation is applied again to fresh content,  *)
(* an unconditional creation looks at the file that took the name.         *)
Conflict(r) ==
    IF Ranged(r.req.kind) /\ r.req.expect = AnyStat /\ r.tries + 1 < MaxTries
    THEN [r EXCEPT !.pc = "open", !.tries = @ + 1]
    ELSE IF r.script = "publish" /\ r.src.rev = 0 /\ r.req.kind # "chunks" /\ r.req.expect = AnyStat /\ r.req.bound = {}
    THEN IF r.req.exclusive THEN Ended(r, "exists") ELSE [r EXCEPT !.pc = "adopt"]
    ELSE Ended(r, "conflict")

(* The metadata as the client holds it after its publication.              *)
Published(r) ==
    IF r.script = "rename" THEN [r.src EXCEPT !.parent = r.dst.id, !.name = BaseName(r.req.to), !.rev = r.rev]
    ELSE [r.src EXCEPT !.rev = r.rev]

Succeeded(r) ==
    IF r.goal = "parents" THEN Seen([r EXCEPT !.code = 0, !.rev = 0], Published(r)) ELSE Ended(r, "ok")

(* Whether a command of unknown outcome ran is settled by the token it     *)
(* would have left.                                                        *)
Ran_IfPresent(w, r) == r.script = "publish" /\ Exists(w, r.src.id)
Ran(w, r) ==
    /\ r.rev # 0
    /\ \/ r.script = "publish" /\ w.inode[r.src.id].rev = r.rev
       \/ r.script = "restore" /\ Recorded(w, r.rev, r.src.id)

Recovered(r) == IF r.script = "restore" THEN [r EXCEPT !.pc = "sweep"] ELSE Succeeded(r)

Rejected(r) ==
    CASE r.code = -1 -> Conflict(r)
      [] r.code = -2 -> Ended(r, "changed")
      [] r.code = -3 -> Ended(r, IF r.script = "delete" THEN "notempty" ELSE "expired")
      [] r.code = -5 -> Ended(r, "lost")
      [] r.code = -7 -> Ended(r, "failed")
      [] r.code = -8 -> IF r.script \in {"create", "restore"} THEN Ended(r, "failed")
                        ELSE [r EXCEPT !.pc = "prepare"]
      [] r.code = -9 -> Ended(r, "full")

(* A refused restore first looks for the record it may have left.          *)
Answered(r) ==
    IF r.code = 3 THEN [r EXCEPT !.pc = "sweep"]
    ELSE IF r.code \in {1, 2} \/ (r.script = "restore" /\ Ran(ws, r)) THEN Recovered(r)
    ELSE Rejected(r)

(* Which path entries the client keeps after its own publication.          *)
Recache(c, r) ==
    LET made == IF r.goal = "parents" THEN Append(r.at, Head(r.todo))
                ELSE IF r.script = "create" THEN r.req.path ELSE r.path
        gone == {p \in DOMAIN cache[c] :
                   \/ r.script \in {"delete", "rename"} /\ IsPrefix(r.path, p)
                   \/ r.script = "rename" /\ IsPrefix(r.req.to, p)
                   \/ Ranged(r.req.kind) /\ p = r.path}
        rest == Restrict(cache[c], DOMAIN cache[c] \ gone)
    IN cache' = [cache EXCEPT ![c] =
         IF c \notin Mounts \/ r.code \notin {1, 2, 3} \/ r.script = "restore" THEN @
         ELSE IF r.script \in {"delete", "rename"} \/ Ranged(r.req.kind) \/ r.req.kind = "chunks" THEN rest
         ELSE (made :> Published(r)) @@ @]

Receive(c) ==
    LET r == cl[c]
    IN /\ r.pc = "answer"
       /\ Move(c, Answered(r), ws)
       /\ Recache(c, r)
       /\ UNCHANGED <<broken, budget>>

(* pruneHistory after a publication that recorded a version.               *)
PruneHistory(c) ==
    LET r == cl[c]
    IN /\ r.pc = "sweep"
       /\ Move(c, Succeeded(r), [ws EXCEPT !.hist = Prune(@)])
       /\ UNCHANGED <<cache, broken, budget>>

(* Prepare: the hashes a capture asked for, of the revisions it will see.  *)
HashContent(w, id) == IF w.inode[id].type = "file" THEN w.inode[id].data ELSE NoHash

(* The inodes still have the revisions the publication expects.            *)
preparePinScript(w, expected) == \A id \in DOMAIN expected : w.inode[id].rev = expected[id]

(* A script is run three times, a rename as often as its transaction.      *)
Prepared(r) ==
    IF r.script = "rename"
    THEN IF r.tries + 1 < MaxTries THEN [r EXCEPT !.pc = "watch", !.tries = @ + 1] ELSE Ended(r, "busy")
    ELSE IF r.prepares < 2 THEN [r EXCEPT !.pc = "send", !.prepares = @ + 1] ELSE Ended(r, "failed")

Prepare(c) ==
    LET r == cl[c]
        expected == [id \in {r.src.id} \cup ({r.over} \ {0}) |-> IF id = r.src.id THEN r.src.rev ELSE r.overRev]
        target == IF r.script = "rename" THEN r.req.to ELSE r.path
        Matching(id) == Matches(ws.hist.policy, target)
                        \/ (Exists(ws, id) /\ Matches(ws.hist.policy, PathOf(ws, id)))
        hashes == [id \in {i \in DOMAIN expected : Matching(i)} |->
                     [rev |-> expected[id], before |-> HashContent(ws, id),
                      after |-> IF id = r.over THEN NoHash
                                ELSE IF r.script = "publish" THEN ws.stage[c] ELSE HashContent(ws, id)]]
    IN /\ r.pc = "prepare"
       /\ IF ws.hist.policy.mode = "off" THEN Move(c, Prepared(r), ws)
          ELSE IF ~preparePinScript(ws, expected) THEN Move(c, Conflict(r), ws)
          ELSE IF r.script = "publish" /\ ws.stage[c] = NoStage THEN Move(c, Ended(r, "failed"), ws)
          ELSE Move(c, Prepared(r), [ws EXCEPT !.prepared[c] = hashes @@ @])
       /\ UNCHANGED <<cache, broken, budget>>

(* createFileIfMissing found the name taken: an existing file is accepted, *)
(* by createFile only if it holds the requested bytes.                     *)
Adopt(c) ==
    LET r == cl[c]
        id == ws.dirent[r.dst.id][BaseName(r.req.path)]
    IN /\ r.pc = "adopt"
       /\ Move(c, IF id = 0 THEN Ended(r, "notfound") ELSE [r EXCEPT !.pc = "adopted", !.child = id], ws)
       /\ UNCHANGED <<cache, broken, budget>>

Adopted(c) ==
    LET r == cl[c]
        s == Snap(ws, r.child)
    IN /\ r.pc = "adopted"
       /\ Move(c, Ended(r, IF s = NoSnap THEN "notfound"
                           ELSE IF s.type # "file" THEN "notfile"
                           ELSE IF r.req.data # <<>> /\ ws.inode[s.id].data # r.req.data THEN "conflict"
                           ELSE "adopted"), ws)
       /\ cachePath(c, r.req.path, IF s # NoSnap /\ s.type = "file" THEN s ELSE NoSnap)
       /\ UNCHANGED <<broken, budget>>

(* The entries of a directory are read at once, its children in a pipeline *)
(* of one command each. A child that is gone is skipped.                   *)
loadDirEntries(c) ==
    LET r == cl[c]
    IN /\ r.pc = "list"
       /\ Move(c, [r EXCEPT !.pc = "children",
                     !.list = Restrict(ws.dirent[r.src.id], {n \in Name : ws.dirent[r.src.id][n] # 0})], ws)
       /\ UNCHANGED <<cache, broken, budget>>

listDirChildren(c) ==
    LET r == cl[c]
        n == CHOOSE m \in DOMAIN r.list : TRUE
    IN /\ r.pc = "children"
       /\ IF r.list = <<>> THEN Move(c, Ended(r, "ok"), ws) /\ UNCHANGED cache
          ELSE /\ Move(c, [r EXCEPT !.list = Restrict(@, DOMAIN @ \ {n})], ws)
               /\ cachePath(c, Append(r.at, n), Snap(ws, r.list[n]))
       /\ UNCHANGED <<broken, budget>>

(* Content of several ranges is read one range at a time, and returned     *)
(* only if the revision is still the one that was opened; chunks are read  *)
(* without that check, their caller compares hashes.                       *)
ReadRange(c) ==
    LET r == cl[c]
        live == ws.inode[r.src.id].data
    IN /\ r.pc \in {"read", "rest"}
       /\ Move(c, IF r.pc = "rest" /\ r.req.kind = "readchunks" THEN Ended(r, "ok")
                  ELSE
                  [r EXCEPT !.pc = IF @ = "read" THEN "rest" ELSE "verify",
                            !.bytes = IF r.pc = "read" THEN SubSeq(live, 1, Min({1, Len(live)}))
                                      ELSE @ \o SubSeq(live, Len(@) + 1, Len(live))], ws)
       /\ UNCHANGED <<cache, broken, budget>>

SameRevision_Exists(w, s) == Exists(w, s.id)
SameRevision(w, s) == w.inode[s.id].rev = s.rev

VerifyRead(c) ==
    LET r == cl[c]
        again == IF r.tries + 1 = MaxTries THEN Ended(r, "conflict")
                 ELSE IF r.req.kind = "cat"
                 THEN resolvePath([r EXCEPT !.tries = @ + 1, !.bytes = <<>>], "target", r.req.path)
                 ELSE [r EXCEPT !.pc = "open", !.tries = @ + 1, !.bytes = <<>>]
    IN /\ r.pc = "verify"
       /\ Move(c, IF SameRevision(ws, r.src) THEN Ended(r, "ok")
                  ELSE IF r.req.kind = "read" /\ ~Exists(ws, r.src.id) THEN Ended(r, "notfound")
                  ELSE again, ws)
       /\ cache' = IF r.req.kind = "read" \/ SameRevision(ws, r.src) THEN cache
                   ELSE [cache EXCEPT ![c] = <<>>]
       /\ UNCHANGED <<broken, budget>>

---------------------------------------------------------------------------
(* Faults of the connection, of time and of the session.                   *)

Fault == budget.faults > 0 /\ budget' = [budget EXCEPT !.faults = @ - 1]

(* The answer of a script that ran alone is lost and the Redis client      *)
(* sends the command again.                                                *)
Retransmit(c) ==
    /\ cl[c].pc = "answer" /\ cl[c].req.bound = {} /\ cl[c].script \notin {"create", "rename"}
    /\ Fault
    /\ Execute(c)

(* The command fails for good, before or after it ran.                     *)
Disconnect(c) ==
    LET r == cl[c]
    IN /\ r.pc \in {"send", "exec", "answer"}
       /\ Fault
       /\ Move(c, IF Ran(ws, r) THEN Recovered(r) ELSE Ended(r, "failed"), ws)
       /\ Recache(c, [r EXCEPT !.code = IF Ran(ws, r) THEN 2 ELSE 0])
       /\ broken' = broken \ {c}

StageExpires(c) ==
    /\ cl[c].pc \in {"send", "prepare"} /\ ws.stage[c] # NoStage
    /\ Fault
    /\ ws' = [ws EXCEPT !.stage[c] = NoStage]
    /\ UNCHANGED <<cl, cache, broken>>

InTransaction == {c \in Client : cl[c].pc = "exec"}

(* Another process fences the workspace, or the lease of a mount expires.  *)
Fence ==
    /\ ws.generation = Opened
    /\ Fault
    /\ ws' = [ws EXCEPT !.generation = @ + 1]
    /\ broken' = broken \cup InTransaction
    /\ UNCHANGED <<cl, cache>>

LeaseLost(c) ==
    /\ c \in Mounts \cap ws.lease
    /\ Fault
    /\ ws' = [ws EXCEPT !.lease = @ \ {c}]
    /\ broken' = broken \cup (InTransaction \cap {c})
    /\ UNCHANGED <<cl, cache>>

(* History administration.                                                 *)
Event == budget.events > 0 /\ budget' = [budget EXCEPT !.events = @ - 1]

UpdatePolicy ==
    /\ Event
    /\ \E p \in Policies \ {ws.hist.policy} : Validate(p) /\ ws' = [ws EXCEPT !.hist = SetPolicy(@, p)]
    /\ UNCHANGED <<cl, cache, broken>>

SweepHistory ==
    /\ Event
    /\ ws' = [ws EXCEPT !.hist = Prune(@)]
    /\ UNCHANGED <<cl, cache, broken>>

(* A little more than a day goes by.                                       *)
NextDay ==
    /\ ws.hist.policy.maxAge > 0
    /\ Event
    /\ ws' = [ws EXCEPT !.hist.day = @ + 1]
    /\ UNCHANGED <<cl, cache, broken>>

ClientStep(c) ==
    \/ Begin(c) \/ BeginInode(c)
    \/ lookupChildID(c) \/ loadInodeByID(c) \/ CacheHit(c) \/ applyRemoteInvalidation(c)
    \/ loadDirEntries(c) \/ listDirChildren(c)
    \/ Claim(c) \/ AllocStage(c) \/ Stage(c) \/ OpenInode(c)
    \/ Watch(c) \/ Exec(c) \/ Send(c) \/ Receive(c) \/ PruneHistory(c) \/ Prepare(c)
    \/ Adopt(c) \/ Adopted(c) \/ ReadRange(c) \/ VerifyRead(c)
    \/ Retransmit(c) \/ Disconnect(c) \/ StageExpires(c) \/ LeaseLost(c)

Next == (\E c \in Client : ClientStep(c)) \/ Fence \/ UpdatePolicy \/ SweepHistory \/ NextDay

Spec == Init /\ [][Next]_vars

---------------------------------------------------------------------------
(* Properties.                                                             *)

(* Every publication script (publication.go, history_publication.go,       *)
(* restore_version.go) leaves the tree whole: an entry leads to an inode   *)
(* that names it back, every inode has its entry and is reachable from the *)
(* root, and the counters of the workspace count what is there.            *)
StoreSound ==
    LET live == {id \in InodeID : Exists(ws, id)}
        Kind(t) == {id \in live : ws.inode[id].type = t}
    IN /\ \A d \in InodeID, n \in Name :
             ws.dirent[d][n] # 0 =>
               /\ IsDir(ws, d) /\ Exists(ws, ws.dirent[d][n])
               /\ ws.inode[ws.dirent[d][n]].parent = d /\ ws.inode[ws.dirent[d][n]].name = n
       /\ \A id \in live \ {Root} :
             Reachable(ws, id) /\ ws.dirent[ws.inode[id].parent][ws.inode[id].name] = id
       /\ ws.info = [files |-> Cardinality(Kind("file")), dirs |-> Cardinality(Kind("dir")),
                     links |-> Cardinality(Kind("symlink")),
                     bytes |-> MapThenSumSet(LAMBDA id : Len(ws.inode[id].data), Kind("file"))]

Applies(c) == cl'[c].applied > cl[c].applied

(* The token of an operation makes its retransmission harmless             *)
(* (publication.go publishStagedFile, updatePublishedInode): an            *)
(* operation on a path takes effect at most once, and as long as what it   *)
(* did stands the client is not told that it failed.                       *)
RetrySettles ==
    [][\A c \in Client : cl[c].pc # "idle" /\ ~Ranged(cl[c].req.kind) =>
         /\ cl'[c].applied <= 1
         /\ cl'[c].pc = "idle" /\ cl'[c].result \in {"conflict", "exists", "expired"} /\ cl[c].applied > 0 =>
              ws.inode[cl[c].src.id].rev # cl[c].rev]_vars

(* A bound operation takes effect only while the paths of its directory    *)
(* handles still lead to those directories (native_parent.go               *)
(* watchExpectedParents).                                                  *)
BoundToParent ==
    [][\A c \in Client : Applies(c) => \A b \in cl[c].req.bound : Follow(ws, b[1]) = b[2]]_vars

(* An operation that changes part of a file never undoes what another      *)
(* client published after the content was read, and a conditional one      *)
(* replaces only the revision its caller saw (publication.go               *)
(* publishFileScript, native_range.go changeInodeRange).                   *)
NoLostUpdate ==
    [][\A c \in Client : Applies(c) =>
         LET q == cl[c].req
             id == cl[c].src.id
         IN /\ cl[c].script = "publish" /\ q.kind \notin {"write", "echocreate"} /\ cl[c].src.rev # 0 =>
                 ws'.inode[id].data = Edit(q, ws.inode[id].data)
            /\ q.expect # AnyStat /\ q.kind # "restore" =>
                 IF q.expect.id = 0 THEN Follow(ws, q.path) = 0 ELSE ws.inode[q.expect.id].rev = q.expect.rev]_vars

(* A client that is told of success has had its effect. Two operations may *)
(* find it done by a peer: a deletion whose file is gone, and the creation *)
(* of a missing file, which accepts one that appeared meanwhile; that      *)
(* success is the result "adopted", which this property is not about       *)
(* (publication.go publishStagedFile, deletePublishedInode,                *)
(* restore_version.go RestoreFileVersion).                                 *)
OkMeansApplied ==
    [][\A c \in Client :
         cl[c].pc # "idle" /\ cl'[c].pc = "idle" /\ cl'[c].result = "ok" =>
           \/ cl[c].applied > 0
           \/ cl[c].script = "delete" /\ ~Exists(ws, cl[c].src.id)
           \/ cl[c].req.kind \in {"mkdir", "cat", "read", "readchunks", "ls", "stat", "readlink"}
           \/ cl[c].pc = "open"]_vars

(* The bytes a read returns are those of one publication, although ranges  *)
(* are read one by one (native_range.go ReadInodeAt, native_core.go Cat).  *)
ReadsOnePublication ==
    [][\A c \in Client :
         cl[c].pc = "verify" /\ cl'[c].result = "ok" => cl[c].bytes = ws.inode[cl[c].src.id].data]_vars

(* A revision identifies the metadata and the place of an inode, so what a *)
(* cache says of an inode is true as long as the revision is               *)
(* (native_helpers.go cachePath, native_core.go InvalidateCache).          *)
RevisionIdentifies ==
    \A c \in Client : \A p \in DOMAIN cache[c] :
        LET s == cache[c][p]
        IN Exists(ws, s.id) /\ ws.inode[s.id].rev = s.rev => s = Snap(ws, s.id)

---------------------------------------------------------------------------
(* Properties of the history.                                              *)

(* The byte and reference counters of the history account for the records  *)
(* exactly, whatever capture.lua adds and evicts and pruneScript           *)
(* (retention.go) removes, and every version that was not pruned still has *)
(* its bytes. An inode whose history is up to date (capture.lua binds it   *)
(* to its lineage, by revision and hash) has its bytes as the newest       *)
(* version of that lineage; no two inodes continue one lineage; and        *)
(* neither eviction nor retention removes the newest record of a file or   *)
(* its newest recoverable one.                                             *)
HistoryAccounts ==
    LET h == ws.hist
        ids == {r.id : r \in h.records}
        bound == {id \in InodeID : Exists(ws, id) /\ ws.inode[id].hid # NoLineage /\ ws.inode[id].hrev = ws.inode[id].rev}
        Newest(id) == RecordOf(h, FileOf(h, ws.inode[id].hid).head)
        held == {r.hash : r \in {v \in h.records : v.blob}}
    IN /\ DOMAIN h.refs = held /\ DOMAIN h.blob = held
       /\ \A x \in held : h.blob[x] = x /\ h.refs[x] = Cardinality({r \in h.records : r.blob /\ r.hash = x})
       /\ h.bytes = SizeOf(h.records)
       /\ h.physical = MapThenSumSet(Len, held)
       /\ \A id \in bound :
            /\ ws.inode[id].hhash = ws.inode[id].data
            /\ ~Newest(id).deleted /\ Newest(id).hash = ws.inode[id].data /\ Newest(id).mode = ws.inode[id].mode
            /\ h.files[ws.inode[id].hid].inode = id
       /\ \A i, j \in bound : ws.inode[i].hid = ws.inode[j].hid => i = j
       /\ \A l \in DOMAIN h.files : {h.files[l].head, h.files[l].recoverable} \ {NoRecord} \subseteq ids

(* The lineage that client c's publication continues for an inode, and the *)
(* versions in it that hold what an inode holds.                           *)
LineageFor(c, id) ==
    IF ws.inode[id].hid # NoLineage THEN ws.inode[id].hid
    ELSE <<cl'[c].rev, IF cl[c].script = "restore" THEN cl[c].src.id ELSE id>>

VersionsOf(records, lineage, inode) ==
    {r \in records : r.lineage = lineage /\ ~r.deleted /\ r.type = inode.type /\ r.hash = inode.data}

TooLarge(inode) == ws.hist.policy.maxFile > 0 /\ Len(inode.data) > ws.hist.policy.maxFile

(* What the inode was is a version, with its bytes unless a file limit     *)
(* forbids them, or an older one that made room for this very change.      *)
WhatWasIsKept(c, id) ==
    LET old == ws.hist
        new == ws'.hist
        was == ws.inode[id]
        grown == old.bytes + SizeOf(new.records \ old.records)
    IN \/ \E r \in VersionsOf(new.records, LineageFor(c, id), was) :
            r.metaOnly => r \in old.records \/ TooLarge(was)
       \/ \E r \in VersionsOf(old.records \ new.records, LineageFor(c, id), was) :
            HoldsBytes(r) /\ old.policy.maxBytes > 0 /\ grown > old.policy.maxBytes

(* What it becomes heads the lineage: a version, a tombstone, or the inode *)
(* of another type that a restore puts in its place.                       *)
WhatIsHeads(c, id) ==
    LET now == ws'.inode[id]
        file == FileOf(ws'.hist, LineageFor(c, id))
        heads == {r \in ws'.hist.records : r.id = file.head}
    IN IF now.type = "none"
       THEN \E r \in heads : r.deleted \/ (cl[c].script = "restore" /\ file.inode = cl[c].src.id)
       ELSE \E r \in VersionsOf(heads, LineageFor(c, id), now) :
              r.id[1] = cl'[c].rev /\ (r.metaOnly => TooLarge(now))

(* While versioning covers a file or a symlink, no publication replaces or *)
(* removes it without keeping what it was, whether it is the one operated  *)
(* on or one that a rename or a restore puts out of the way: "It preserves *)
(* the existing contents before the first tracked overwrite or deletion"   *)
(* (README.md; capture.lua history_capture, its baseline). What the file   *)
(* becomes is the newest version of its lineage, a deletion leaves a       *)
(* tombstone, and no capture leaves the history above its limit.           *)
EveryChangeRecorded ==
    [][\A c \in Client : Applies(c) =>
         /\ \A id \in InodeID :
              LET was == ws.inode[id]
                  now == ws'.inode[id]
                  covered == was.type \in {"file", "symlink"} /\ Matches(ws.hist.policy, PathOf(ws, id))
              IN covered /\ <<now.type, now.data>> # <<was.type, was.data>> =>
                   WhatWasIsKept(c, id) /\ WhatIsHeads(c, id)
         /\ ws'.hist.records \ ws.hist.records # {} => ~OverLimit(ws'.hist)]_vars
====
