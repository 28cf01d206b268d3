------------------------------ MODULE MCMounts ------------------------------
(* Mounts on small instances: directory "out" with directory "in" inside.  *)
EXTENDS Mounts, TLC

CONSTANTS c1, c2, c3

MCRoot == {"out", "in"}
MCNested == {<<"in", "out">>}

Ask(op, d, backend) == [op |-> op, root |-> d, backend |-> backend, fg |-> FALSE, ro |-> FALSE, force |-> FALSE]
Syncs(d) == Ask("mount", d, "sync")
Native(d) == Ask("mount", d, "native")
Foreground(a) == [a EXCEPT !.fg = TRUE]
Unmounts(d) == {[Ask("unmount", d, "none") EXCEPT !.force = force] : force \in BOOLEAN}

\* Directories and saved states: nothing there; a known mount of "in", with a
\* file of its own, an empty one, one whose last deletion is not published.
Files(v) == [p \in Path |-> v]
Dir(exists, v) == [exists |-> exists, control |-> FALSE, id |-> 1, file |-> Files(v), synced |-> {}]
NoState == [gen |-> 0, mark |-> NoMark, base |-> NoBaseline]
KnownState(b) == [gen |-> 1, mark |-> [gen |-> 1, id |-> 1, ro |-> FALSE], base |-> Files(b)]
KnownDir(v) == [exists |-> TRUE, control |-> TRUE, id |-> 1, file |-> Files(v),
                synced |-> {<<1, 1, p, 1>> : p \in Path}]

Fresh == [disk |-> [d \in MCRoot |-> Dir(d = "out", Absent)], remote |-> Files(1),
          client |-> [d \in MCRoot |-> NoState]]
Populated(v) == [Fresh EXCEPT !.disk["in"] = Dir(TRUE, v)]
Known(v, b) == [disk |-> [d \in MCRoot |-> IF d = "in" THEN KnownDir(v) ELSE Dir(TRUE, Absent)],
                remote |-> Files(1),
                client |-> [d \in MCRoot |-> IF d = "in" THEN KnownState(b) ELSE NoState]]

\* A tree with every choice of commands.
With(tree, first, second, third) ==
    {[disk |-> tree.disk, remote |-> tree.remote, client |-> tree.client,
      ask |-> (c1 :> a @@ c2 :> b @@ c3 :> c)] : a \in first, b \in second, c \in third}

\* Nested directories, native mounts, and the mount of a directory with a past.
MCStart ==
    With(Fresh, {Syncs("out"), Foreground(Syncs("out"))}, {Syncs("in"), Native("in")}, Unmounts("in"))
      \cup With(Fresh, {Native("in"), Foreground(Native("in"))}, {Native("in"), Syncs("out")}, Unmounts("in"))
      \cup UNION {With(tree, {Syncs("in")}, {Ask("checkpoint", "in", "none")}, {Syncs("in")}) :
                    tree \in {Fresh, Populated(1), Populated(9), Known(1, 1), Known(Absent, 1), Known(Absent, Tombstone(1))}}
      \cup With(Known(1, 1), {Foreground(Syncs("in")), [Syncs("in") EXCEPT !.ro = TRUE]},
                {Ask("checkpoint", "in", "none")}, Unmounts("in"))
      \cup With(Fresh, {Native("in")}, {Ask("checkpoint", "in", "none")}, Unmounts("in"))
=============================================================================
