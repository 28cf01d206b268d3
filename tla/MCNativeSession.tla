-------------------------- MODULE MCNativeSession --------------------------
(* Instances of NativeSession for TLC.                                     *)
EXTENDS NativeSession, TLC

CONSTANTS s1, s2, o1, o2, o3

MCSessionOf == [o \in Owner |-> IF o = o3 THEN s2 ELSE s1]

(* Owners o1 and o2 share a mount; o1 closes files while o2 and o3 contend *)
(* for locks. Overlapping ranges and the release of one byte split, cut    *)
(* and join stored ranges.                                                 *)
LockRequest(start, end, type, wait) ==
    [kind |-> "lock", start |-> start, end |-> end, type |-> type, wait |-> wait]
MCAsked ==
    (o1 :> [kind : {"io", "close"}])
    @@ (o2 :> {LockRequest(0, 1, "write", TRUE), LockRequest(1, MaxByte, "write", FALSE),
               LockRequest(1, 1, "none", FALSE)})
    @@ (o3 :> {LockRequest(1, 1, "read", FALSE)})
=============================================================================
