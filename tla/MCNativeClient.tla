--------------------------- MODULE MCNativeClient ---------------------------
(* Instances of NativeClient for TLC.                                      *)
EXTENDS NativeClient

CONSTANTS c1, c2, c3, c4

File(parent, name, rev, data) ==
    [NoInode EXCEPT !.type = "file", !.parent = parent, !.name = name, !.rev = rev, !.data = data]
Dir(parent, name, rev) == [NoInode EXCEPT !.type = "dir", !.parent = parent, !.name = name, !.rev = rev]
Link(parent, name, rev, target) ==
    [NoInode EXCEPT !.type = "symlink", !.parent = parent, !.name = name, !.rev = rev, !.data = target]

(* The workspace that holds the inodes of a sequence.                      *)
Holding(inodes, policy) ==
    LET inode == [id \in InodeID |-> IF id <= Len(inodes) THEN inodes[id] ELSE NoInode]
        Kind(t) == {id \in DOMAIN inodes : inodes[id].type = t}
    IN [inode |-> inode,
        dirent |-> [d \in InodeID |-> [n \in Name |->
            IF \E id \in InodeID \ {Root} : inode[id].type # "none" /\ inode[id].parent = d /\ inode[id].name = n
            THEN CHOOSE id \in InodeID \ {Root} : inode[id].type # "none" /\ inode[id].parent = d /\ inode[id].name = n
            ELSE 0]],
        info |-> [files |-> Cardinality(Kind("file")), dirs |-> Cardinality(Kind("dir")),
                  links |-> Cardinality(Kind("symlink")),
                  bytes |-> MapThenSumSet(LAMBDA id : Len(inodes[id].data), Kind("file"))],
        generation |-> Opened, lease |-> Client, next |-> Len(inodes), token |-> Len(inodes),
        stage |-> [c \in Client |-> NoStage], prepared |-> [c \in Client |-> <<>>],
        hist |-> EmptyHistory(policy)]

Off == [mode |-> "off", include |-> {}, exclude |-> {}, maxFile |-> 0, maxBytes |-> 0,
        maxVersions |-> 0, maxAge |-> 0]

(* /a is a directory with the file /a/a, /b one with a link /b/a to /a.    *)
TwoDirs == Holding(<<Dir(0, "", 1), Dir(1, "a", 2), Dir(1, "b", 3), File(2, "a", 4, <<1>>),
                     Link(3, "a", 5, <<"a">>)>>, Off)

Request(kind, path) ==
    [kind |-> kind, path |-> path, to |-> <<>>, id |-> 0, data |-> <<>>, off |-> 0, size |-> 0,
     mode |-> 1, exclusive |-> FALSE, noreplace |-> FALSE, bound |-> {}, expect |-> AnyStat,
     undelete |-> FALSE]

Moving(from, to) == [Request("mv", from) EXCEPT !.to = to]
BindTo(w, q) ==
    [q EXCEPT !.bound = WithExpectedParent(w, {ParentOf(q.path)} \cup IF q.kind = "mv" THEN {ParentOf(q.to)} ELSE {})]

Budget(requests, faults, events) ==
    [requests |-> [c \in Client |-> IF c \in DOMAIN requests THEN requests[c] ELSE 0],
     faults |-> faults, events |-> events]

AA == <<"a", "a">>
AB == <<"a", "b">>
BA == <<"b", "a">>
BB == <<"b", "b">>
Bytes(q) == [q EXCEPT !.data = <<2>>]
Observe(w, path) == LET id == Follow(w, path) IN [id |-> id, rev |-> IF id = 0 THEN 0 ELSE w.inode[id].rev]
If(w, q) == [q EXCEPT !.expect = Observe(w, q.path)]
AtInode(kind, id) == [Request(kind, <<>>) EXCEPT !.id = id]

(* One client works on files by path and by inode, alone or conditionally, *)
(* and moves a directory; the other one is a mount that moves and removes  *)
(* through bound handles.                                                  *)
PathRequests(w) ==
    {Bytes(Request("append", AA)), Bytes(Request("write", AB)), Bytes(Request("write", BA \o <<"a">>)),
     [Request("truncate", AA) EXCEPT !.size = 2], [Bytes(Request("chunks", AA)) EXCEPT !.off = 1, !.size = 2],
     Bytes(If(w, Request("write", AA))), If(w, Bytes(Request("write", AB))), If(w, Request("rm", AA)),
     [Request("create", BB) EXCEPT !.exclusive = TRUE], Request("create", AB),
     Request("mkdir", AB), [Request("ln", BB) EXCEPT !.to = <<"b">>],
     Request("chmod", AA), Request("rm", <<"a">>), Request("touch", AA), Request("touch", BB),
     Bytes([Request("echocreate", AA) EXCEPT !.mode = 0]), Bytes(Request("echocreate", AB)), Moving(AA, AB), Request("cat", BA \o <<"a">>),
     Request("readchunks", AA), Request("ls", BA), Request("readlink", BA), Request("stat", AA),
     BindTo(w, Moving(<<"a">>, BB)),
     Bytes(AtInode("range", 4)), Bytes(AtInode("rappend", 4)), AtInode("rtruncate", 4), AtInode("read", 4)}
MountRequests(w) ==
    {BindTo(w, Moving(<<"a">>, BB)), BindTo(w, Moving(AA, BB)), BindTo(w, Moving(<<"b">>, <<"a">>)),
     BindTo(w, Moving(<<"b">>, AB)), BindTo(w, Request("rm", AA)), BindTo(w, Request("setattrs", AA)),
     BindTo(w, Bytes(Request("write", AB))), BindTo(w, Request("mkdir", BB)),
     Bytes(AtInode("rappend", 4)), Request("ls", <<"a">>), Request("mkdir", AB), Request("rm", <<"a">>), Request("create", <<"a", "b", "a">>)}

---------------------------------------------------------------------------
(* Versioning of /a and /b, with room for four bytes of history.          *)
All == [Off EXCEPT !.mode = "all", !.maxBytes = 4, !.maxAge = 1]
OnlyA == [Off EXCEPT !.mode = "paths", !.include = {<<AnyDepth, {"a"}>>}, !.exclude = {<<{"b"}, AnyDepth>>}, !.maxFile = 1, !.maxVersions = 1]
MCPolicies == {Off, All, OnlyA, [Off EXCEPT !.mode = "paths"]}
OneFile(policy) == Holding(<<Dir(0, "", 1), File(1, "a", 2, <<1>>)>>, policy)

Selected(w, undelete, path) ==
    {[version |-> [lineage |-> v.lineage, type |-> v.type, mode |-> v.mode]]
       @@ [If(w, Request("restore", path)) EXCEPT !.data = v.hash, !.undelete = undelete] :
       v \in {r \in w.hist.records : HoldsBytes(r)}}
HistoryRequests(w) ==
    {[Request("write", <<"a">>) EXCEPT !.data = <<2, 2>>], Moving(<<"a">>, <<"b">>)}
    \cup Selected(w, FALSE, <<"a">>)
    \cup Selected(w, Follow(w, <<"b">>) = 0, <<"b">>)

(* Two clients and a fault on the two directories; two clients on one file *)
(* with a fault, or with events of the history: two, for the history to    *)
(* be turned off and on again, where it is on from the start.              *)
MCStart ==
    {<<TwoDirs, Budget(c1 :> 1 @@ c2 :> 1, 1, 0)>>}
    \cup {<<OneFile(h[1]), Budget(c3 :> 2 @@ c4 :> 1, h[2], h[3])>> :
            h \in {<<Off, 0, 1>>, <<OnlyA, 0, 1>>, <<All, 0, 2>>, <<All, 1, 0>>}}
MCAsked(c, w) ==
    CASE c = c1 -> PathRequests(w)
      [] c = c2 -> MountRequests(w)
      [] c = c3 -> HistoryRequests(w)
      [] c = c4 -> {Bytes(Request("write", <<"b">>)), [Request("ln", <<"b">>) EXCEPT !.to = <<"a">>],
                    Bytes(Request("append", <<"a">>)), Request("rm", <<"a">>)}
=============================================================================
