---------------------------- MODULE Publication ----------------------------
(***************************************************************************)
(* The live tree of a workspace in Redis and the Lua scripts that change   *)
(* it (mount/internal/client: publication.go, history_publication.go and   *)
(* restore_version.go). Redis runs a script as one command, so a script is *)
(* an operator from a workspace w and its arguments a to a reply: the code *)
(* it returns, the next workspace and the keys it wrote.                   *)
(*                                                                         *)
(* An inode hash and its content key are one record here, because every    *)
(* script writes both; the target of a symlink is its data. Times, owners  *)
(* and the indexed paths are left out.                                     *)
(***************************************************************************)
EXTENDS FileHistory, TLC

CONSTANTS Client, Name, MaxInode,
          NoStage        \* stands for a stage key that does not exist

Root == 1
InodeID == 1..MaxInode
NoInode == [type |-> "none", parent |-> 0, name |-> "", rev |-> 0, data |-> <<>>, mode |-> 0,
            hid |-> NoLineage, hrev |-> 0, hhash |-> NoHash]
NoDirents == [n \in Name |-> 0]

Exists(w, id) == w.inode[id].type # "none"
IsDir(w, id) == w.inode[id].type = "dir"

(* The names that lead from the root to id, and whether they do: every     *)
(* inode on the way has to exist.                                          *)
Ancestry(w, id) ==
    LET up[n \in 0..MaxInode] ==
          IF n = 0 THEN <<id>>
          ELSE LET below == up[n - 1]
                   top == Last(below)
               IN IF top \in {0, Root} \/ ~Exists(w, top) THEN below
                  ELSE Append(below, w.inode[top].parent)
    IN up[MaxInode]
Reachable(w, id) == Last(Ancestry(w, id)) = Root
PathOf(w, id) ==
    LET chain == Reverse(Ancestry(w, id))
    IN [i \in 1..(Len(chain) - 1) |-> w.inode[chain[i + 1]].name]

(* Where a path leads in the directory entries, 0 if nowhere.              *)
Follow(w, path) ==
    FoldLeft(LAMBDA id, n : IF id = 0 THEN 0 ELSE w.dirent[id][n], Root, path)

(* The tests of a script in their order; the first one that holds gives    *)
(* the code.                                                               *)
Verdict(tests) ==
    LET hits == {i \in DOMAIN tests : tests[i][1]}
    IN IF hits = {} THEN 1 ELSE tests[Min(hits)][2]

Reply(code, w, wrote) == [code |-> code, w |-> w, wrote |-> wrote]

(* What the script answers when history_capture aborts it.                 *)
Aborted(verdict) == IF verdict = "need" THEN -8 ELSE -9

Change(id, before, after, oldPath, newPath, body, staged, operation) ==
    [id |-> id, before |-> before, after |-> after, oldPath |-> oldPath, newPath |-> newPath,
     body |-> body, staged |-> staged, operation |-> operation, force |-> FALSE,
     lineage |-> NoLineage, beforeHash |-> NoHash, afterHash |-> NoHash]

(* Stores the inodes that captured changes leave, a deletion last, and the *)
(* other writes of the script, which give done, unless the capture aborts  *)
(* it.                                                                     *)
Captured(w, a, changes, cap, wrote, done) ==
    LET After(i) == Bound(a.rev, changes[i], cap.plans[i])
        left == [id \in InodeID |->
                   LET at == {i \in DOMAIN changes : changes[i].id = id}
                   IN IF at = {} THEN done.inode[id] ELSE After(Max(at))]
    IN IF cap.verdict \in {"need", "full"} THEN Reply(Aborted(cap.verdict), w, {})
       ELSE Reply(IF cap.verdict = "tracked" THEN 3 ELSE 1,
                  [done EXCEPT !.inode = left, !.hist = cap.h], wrote)

(* Runs a script that passed its tests.                                    *)
Capturing(w, a, changes, wrote, done) ==
    Captured(w, a, changes, HistoryCapture(w.hist, a.rev, changes, w.prepared[a.client]), wrote, done)

Lifetime(w, a) == << <<w.generation # a.generation, -2>>, <<a.client \notin w.lease, -5>> >>

(* The command was sent before and took effect: its token is the revision. *)
Repeated_Never(live, linked, a) == FALSE
Repeated(live, linked, a) == live.rev = a.rev /\ linked = a.id

(* What is there is no longer what the client saw.                         *)
Stale_IfMoved(live, linked, a) == linked # a.id
Stale(live, linked, a) == linked # a.id \/ live.rev # a.ino.rev

HasChildren_Never(w, id) == FALSE
HasChildren(w, id) == \E n \in Name : w.dirent[id][n] # 0 /\ Exists(w, w.dirent[id][n])

(* Every change of an inode gives it the token as its revision.            *)
Restamped_Not(inode, token) == inode
Restamped(inode, token) == [inode EXCEPT !.rev = token]

Count(info, kind, n) ==
    LET counter == CASE kind = "file" -> "files" [] kind = "dir" -> "dirs" [] kind = "symlink" -> "links"
    IN [info EXCEPT ![counter] = @ + n]

---------------------------------------------------------------------------
(* a.ino is the inode as the client last saw it, with the fields to store. *)

publishFileScript(w, a) ==
    LET live == w.inode[a.id]
        parent == a.ino.parent
        linked == w.dirent[parent][a.ino.name]
        body == w.stage[a.client]
        code == Verdict(Lifetime(w, a) \o
            << <<Repeated(live, linked, a), 2>>,
               <<~Exists(w, parent), -1>>,
               <<a.creating /\ linked # 0, -1>>,
               <<~a.creating /\ (Stale(live, linked, a) \/ live.type = "none"), -1>>,
               <<body = NoStage, -3>>,
               <<~IsDir(w, parent), -1>> >>)
        after == [live EXCEPT !.type = "file", !.parent = parent, !.name = a.ino.name,
                    !.mode = a.ino.mode, !.data = body, !.rev = a.rev]
        new == Append(PathOf(w, parent), a.ino.name)
        done == [w EXCEPT
            !.stage[a.client] = NoStage,
            !.dirent[parent][a.ino.name] = a.id,
            !.info = [(IF a.creating THEN Count(@, "file", 1) ELSE @)
                        EXCEPT !.bytes = @ + Len(body) - Len(live.data)]]
    IN IF code # 1 THEN Reply(code, w, {})
       ELSE Capturing(w, a,
              <<Change(a.id, live, after, IF a.creating THEN new ELSE PathOf(w, a.id), new, body, TRUE,
                       IF a.creating THEN "create" ELSE "write")>>,
              {<<"inode", a.id>>}
                \cup (IF a.creating THEN {<<"dirents", parent>>, <<"inode", parent>>} ELSE {}),
              done)

deleteInodeScript(w, a) ==
    LET live == w.inode[a.id]
        parent == a.ino.parent
        linked == w.dirent[parent][a.ino.name]
        code == Verdict(Lifetime(w, a) \o
            << <<linked = 0 /\ live.type = "none", 2>>,
               <<Stale(live, linked, a), -1>>,
               <<live.type = "dir" /\ HasChildren(w, a.id), -3>> >>)
        done == [w EXCEPT
            !.dirent[a.id] = NoDirents,
            !.dirent[parent][a.ino.name] = 0,
            !.info = [Count(@, live.type, -1) EXCEPT
                        !.bytes = IF live.type = "file" THEN @ - Len(live.data) ELSE @]]
    IN IF code # 1 THEN Reply(code, w, {})
       ELSE Capturing(w, a,
              <<Change(a.id, live, NoInode, PathOf(w, a.id), PathOf(w, a.id), <<>>, FALSE, "delete")>>,
              {<<"inode", a.id>>, <<"dirents", a.id>>, <<"dirents", parent>>, <<"inode", parent>>}, done)

updateInodeScript(w, a) ==
    LET live == w.inode[a.id]
        code == Verdict(Lifetime(w, a) \o
            << <<live.rev = a.rev, 2>>,
               <<live.type = "none", -1>>,
               <<a.id # Root /\ w.dirent[a.ino.parent][a.ino.name] # a.id, -1>>,
               <<live.rev # a.ino.rev, -1>> >>)
        after == Restamped([live EXCEPT !.mode = a.ino.mode], a.rev)
    IN IF code # 1 THEN Reply(code, w, {})
       ELSE Capturing(w, a,
              <<Change(a.id, live, after, PathOf(w, a.id), PathOf(w, a.id), live.data, FALSE, "metadata")>>,
              {<<"inode", a.id>>}, w)

(* Directories and symlinks. The transaction around it watches the         *)
(* generation and the lease.                                               *)
createMetadataScript(w, a) ==
    LET parent == a.ino.parent
        linked == w.dirent[parent][a.ino.name]
        code == Verdict(<< <<Repeated(w.inode[a.id], linked, a), 2>>,
                           <<linked # 0, -1>>,
                           <<~IsDir(w, parent), -1>> >>)
        after == [NoInode EXCEPT !.type = a.ino.type, !.parent = parent, !.name = a.ino.name,
                    !.mode = a.ino.mode, !.data = a.ino.data, !.rev = a.rev]
        path == Append(PathOf(w, parent), a.ino.name)
        done == [w EXCEPT !.dirent[parent][a.ino.name] = a.id, !.info = Count(@, a.ino.type, 1)]
    IN IF code # 1 THEN Reply(code, w, {})
       ELSE Capturing(w, a, <<Change(a.id, NoInode, after, path, path, after.data, FALSE, "create")>>,
              {<<"inode", a.id>>, <<"dirents", parent>>, <<"inode", parent>>}, done)

(* a.to and a.newName say where the inode goes, a.over the inode that was  *)
(* seen there (0 if none) and a.overRev its revision.                      *)
renameMetadataScript(w, a) ==
    LET live == w.inode[a.id]
        old == a.ino.parent
        linked == w.dirent[a.to][a.newName]
        replaced == IF linked = 0 THEN NoInode ELSE w.inode[linked]
        code == Verdict(<< <<Repeated(live, linked, a), 2>>,
                           <<Stale(live, w.dirent[old][a.ino.name], a), -1>>,
                           <<linked # a.over, -1>>,
                           <<~IsDir(w, old) \/ ~IsDir(w, a.to), -1>>,
                           <<linked # 0 /\ (replaced.rev # a.overRev \/ replaced.type = "none"), -1>> >>)
        after == Restamped([live EXCEPT !.parent = a.to, !.name = a.newName], a.rev)
        path == Append(PathOf(w, a.to), a.newName)
        moved == Change(a.id, live, after, PathOf(w, a.id), path, live.data, FALSE, "rename")
        gone == Change(linked, replaced, NoInode, path, path, <<>>, FALSE, "replace")
        done == [w EXCEPT
            !.dirent = [[[@ EXCEPT ![old][a.ino.name] = 0] EXCEPT ![a.to][a.newName] = a.id]
                          EXCEPT ![IF linked = 0 THEN Root ELSE linked] =
                                   IF linked = 0 THEN @ ELSE NoDirents],
            !.info = IF linked = 0 THEN @
                     ELSE [Count(@, replaced.type, -1) EXCEPT
                             !.bytes = IF replaced.type = "file" THEN @ - Len(replaced.data) ELSE @]]
    IN IF code # 1 THEN Reply(code, w, {})
       ELSE Capturing(w, a, IF linked = 0 THEN <<moved>> ELSE <<moved, gone>>,
              {<<"inode", a.id>>, <<"dirents", old>>, <<"dirents", a.to>>, <<"inode", old>>, <<"inode", a.to>>}
                \cup (IF linked = 0 THEN {} ELSE {<<"inode", linked>>, <<"dirents", linked>>}), done)

(* The record that the publication with this token left of the inode.      *)
Recorded(w, token, id) == <<token, id, "a">> \in {v.id : v \in w.hist.records}

(* a.parentPath is resolved again from the root; a.over is the inode seen  *)
(* at the destination, 0 for an absent one, a.undelete the lineage to go   *)
(* on with.                                                                *)
restoreVersionScript(w, a) ==
    LET parent == Follow(w, a.parentPath)
        current == IF parent = 0 THEN 0 ELSE w.dirent[parent][a.ino.name]
        before == IF current = 0 THEN NoInode ELSE w.inode[current]
        file == FileOf(w.hist, a.lineage)
        body == w.stage[a.client]
        isFile == a.ino.type = "file"
        code == Verdict(<< <<w.generation # a.generation, -2>>,
                           <<w.inode[a.id].rev = a.rev, IF Recorded(w, a.rev, a.id) THEN 2 ELSE -7>>,
                           <<parent # a.ino.parent \/ ~IsDir(w, a.ino.parent), -1>>,
                           <<current # a.over, -1>>,
                           <<current # 0 /\ before.rev # a.overRev, -1>>,
                           <<before.type = "dir", -1>>,
                           <<a.undelete /\ (file.head = NoRecord \/ ~RecordOf(w.hist, file.head).deleted), -1>>,
                           <<isFile /\ body = NoStage, -3>> >>)
        data == IF isFile THEN body ELSE a.ino.data
        kept == IF current = a.id THEN before ELSE NoInode
        after == [kept EXCEPT !.type = a.ino.type, !.parent = a.ino.parent, !.name = a.ino.name,
                    !.mode = a.ino.mode, !.data = data, !.rev = a.rev]
        path == Append(a.parentPath, a.ino.name)
        change == [Change(a.id, before, after, path, path, data, TRUE,
                          IF a.undelete THEN "undelete" ELSE "restore")
                     EXCEPT !.force = TRUE, !.beforeHash = a.beforeHash, !.afterHash = data,
                            !.lineage = IF a.undelete THEN a.lineage ELSE before.hid]
        done == [w EXCEPT
            !.inode = IF current \in {0, a.id} THEN @ ELSE [@ EXCEPT ![current] = NoInode],
            !.stage[a.client] = NoStage,
            !.dirent[a.ino.parent][a.ino.name] = a.id,
            !.info = [(LET less == IF current = 0 THEN @ ELSE Count(@, before.type, -1)
                       IN Count(less, a.ino.type, 1))
                        EXCEPT !.bytes = @ + (IF isFile THEN Len(data) ELSE 0)
                                           - (IF before.type = "file" THEN Len(before.data) ELSE 0)]]
    IN IF code # 1 THEN Reply(code, w, {})
       ELSE Capturing(w, a, <<change>>,
              {<<"inode", a.id>>, <<"dirents", a.ino.parent>>, <<"inode", a.ino.parent>>}
                \cup (IF current = 0 THEN {} ELSE {<<"inode", current>>}), done)
=============================================================================
