---------------------------- MODULE MCSyncSave -----------------------------
(* An instance of SyncSave for TLC: a directory with a file, and a file.   *)
EXTENDS SyncSave, TLC

D == <<"d">>
F == <<"d", "f">>
G == <<"g">>
Copy == <<"g.conflict">>
MCWalk == <<D, F, G, Copy>>
File(mode, data) == [type |-> "file", mode |-> mode, data |-> data]
Dir(mode) == [type |-> "dir", mode |-> mode, data |-> <<>>]
Link == [type |-> "symlink", mode |-> 1, data |-> <<9>>]
MCStart == (D :> None) @@ (F :> None) @@ (G :> File(1, <<1>>)) @@ (Copy :> None)
WithDir == [MCStart EXCEPT ![D] = Dir(2), ![F] = File(1, <<1, 1>>)]
MCEdited ==
    {MCStart, [WithDir EXCEPT ![G] = None]} \cup {[MCStart EXCEPT ![G] = e] : e \in {File(2, <<1>>), File(1, <<2>>), Link}}
MCAppEdits == {<<G, File(1, <<4>>)>>, <<G, None>>, <<F, File(1, <<2, 2>>)>>}
MCPeerEdits == {<<G, File(1, <<3>>)>>, <<G, File(2, <<1>>)>>, <<G, None>>, <<D, Dir(1)>>, <<F, File(1, <<3, 3>>)>>}
MCChunked(data) == Len(data) > 1
=============================================================================
