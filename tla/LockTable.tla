----------------------------- MODULE LockTable -----------------------------
(***************************************************************************)
(* What the advisory locks of one file promise to the mounts that share a  *)
(* workspace: every byte is locked by any number of readers or by one      *)
(* writer, counting only owners whose session lease is alive.              *)
(***************************************************************************)
EXTENDS Integers

CONSTANTS Session, Owner, SessionOf, MaxByte

VARIABLES lease,   \* sessions whose lease key exists
          bytes,   \* the lock every owner holds on every byte
          held     \* the locks whose grant the owner has been told of

lvars == <<lease, bytes, held>>

Byte == 0..MaxByte
Mode == {"none", "read", "write"}
Nothing == [b \in Byte |-> "none"]
Span(first, last) == {b \in Byte : first <= b /\ b <= last}

Alive(o) == SessionOf[o] \in lease

Excludes(m, n) == m # "none" /\ n # "none" /\ (m = "write" \/ n = "write")

TableInit ==
    /\ lease = Session
    /\ bytes = [o \in Owner |-> Nothing]
    /\ held = [o \in Owner |-> Nothing]

(* A request of o is decided on a range: no live owner excludes it. Owners *)
(* without a lease may lose their records.                                 *)
Decide(o, first, last, m) ==
    /\ Alive(o)
    /\ \A b \in Span(first, last) : held[o][b] = "none"
    /\ bytes'[o] = [b \in Byte |-> IF b \in Span(first, last) THEN m ELSE bytes[o][b]]
    /\ \A p \in Owner \ {o} :
           IF Alive(p)
           THEN bytes'[p] = bytes[p] /\ \A b \in Span(first, last) : ~Excludes(m, bytes[p][b])
           ELSE bytes'[p] \in {bytes[p], Nothing}
    /\ UNCHANGED <<lease, held>>

DropAll(o) ==
    /\ Alive(o)
    /\ bytes' = [bytes EXCEPT ![o] = Nothing]
    /\ held[o] = Nothing
    /\ UNCHANGED <<lease, held>>

(* What an owner has been told never exceeds what is recorded for it.      *)
Learn(o) ==
    /\ held' \in [Owner -> [Byte -> Mode]]
    /\ \A p \in Owner \ {o} : held'[p] = held[p]
    /\ \A b \in Byte : held'[o][b] \in {"none", held[o][b], bytes[o][b]}
    /\ UNCHANGED <<lease, bytes>>

LeaseEnds(s) ==
    /\ s \in lease
    /\ lease' = lease \ {s}
    /\ UNCHANGED <<bytes, held>>

(* Records that nobody renews are collected.                               *)
Collect ==
    /\ \A o \in Owner : Alive(o) => held[o] = Nothing
    /\ bytes' = [o \in Owner |-> Nothing]
    /\ UNCHANGED <<lease, held>>

TableNext ==
    \/ /\ bytes' # bytes /\ bytes' \in [Owner -> [Byte -> Mode]]
       /\ \/ \E o \in Owner : DropAll(o) \/ \E first, last \in Byte, m \in Mode : Decide(o, first, last, m)
          \/ Collect
    \/ held' # held /\ \E o \in Owner : Learn(o)
    \/ \E s \in Session : LeaseEnds(s)

TableSpec == TableInit /\ [][TableNext]_lvars

(* Two live owners that were both told they hold a byte hold it for        *)
(* reading: the locks that Setlk grants (native_locks.go trySetLock).      *)
LockExclusion ==
    \A o, p \in Owner : o # p /\ Alive(o) /\ Alive(p) =>
        \A b \in Byte : ~Excludes(held[o][b], held[p][b])
=============================================================================
