--------------------------- MODULE NativeSession ---------------------------
(***************************************************************************)
(* Native mount sessions (mount/internal/client): the lease of every       *)
(* mounted session, the admission and draining of kernel requests around   *)
(* Barrier, and the advisory byte-range locks that mounts of one workspace *)
(* keep in a Redis hash, written by WATCH transactions.                    *)
(*                                                                         *)
(* An Owner is one kernel lock owner; it issues one request at a time. All *)
(* requests concern one inode: the lock hash of another inode is another   *)
(* key. Positions 0..MaxByte stand for the 64-bit range, MaxByte for its   *)
(* largest value.                                                          *)
(***************************************************************************)
EXTENDS Integers, Sequences, FiniteSets, SequencesExt

CONSTANTS Session, Owner, SessionOf, MaxByte,
          Asked,         \* the requests that each owner issues
          MaxRequests,   \* requests issued in a behaviour
          MaxAttempts,   \* executions of one WATCH transaction
          MaxEvents      \* crashes, lost leases, lost answers, interruptions, closes,
                         \* changes of the workspace, renewals that touch a watched key

VARIABLES
    generation,  \* the workspace still has the generation the sessions opened
    file,        \* the inode still exists and is a file
    lease,       \* sessions whose lease key exists
    table,       \* the lock hash: the stored ranges of every owner
    lost,        \* sessions that know their lease is gone
    closed,      \* sessions whose context was cancelled by Close
    renews,      \* sessions whose renewals name the lock hash (lockInodes)
    active, paused, barrier,   \* the admission gate of every session
    pc, req, err, tx, tries,   \* the request each owner has in progress
    dirty,       \* owners whose watched keys changed since WATCH
    held,        \* locks whose grant the application has been told of
    budget       \* how much of each bound is used up

vars == <<generation, file, lease, table, lost, closed, renews, active, paused, barrier,
          pc, req, err, tx, tries, dirty, held, budget>>

store == <<generation, file, lease, table>>
known == <<lost, closed>>
gate == <<active, paused, barrier>>

Byte == 0..MaxByte
Mode == {"none", "read", "write"}
Lock == {l \in [start : Byte, end : Byte, type : {"read", "write"}] : l.start <= l.end}
Nobody == "nobody"

Requests ==
    [kind : {"io", "close"}]
    \cup {r \in [kind : {"lock"}, start : Byte, end : Byte, type : Mode, wait : BOOLEAN] :
            /\ r.start <= r.end
            /\ r.type = "none" => ~r.wait}
Idle == [kind |-> "idle"]

ASSUME SessionAssumption ==
    /\ MaxByte \in Nat /\ MaxAttempts \in Nat \ {0}
    /\ IsFiniteSet(Owner) /\ SessionOf \in [Owner -> Session] /\ Nobody \notin Owner
    /\ Asked \in [Owner -> SUBSET Requests]

---------------------------------------------------------------------------
(* Ranges.                                                                 *)

lockRangesOverlap(a, b) == a.start <= b.end /\ b.start <= a.end

locksConflict(existing, requested) ==
    /\ requested.type # "none"
    /\ lockRangesOverlap(existing, requested)
    /\ existing.type = "write" \/ requested.type = "write"

nextLockStart(end) == IF end = MaxByte THEN end ELSE end + 1

LockBefore(a, b) == a.start < b.start \/ (a.start = b.start /\ a.end < b.end)

JoinLock(out, lock) ==
    IF /\ out # <<>>
       /\ Last(out).type = lock.type
       /\ lock.start <= nextLockStart(Last(out).end)
    THEN [out EXCEPT ![Len(out)].end = IF lock.end > @ THEN lock.end ELSE @]
    ELSE Append(out, lock)

normalizeFileLocks(locks) == FoldLeft(JoinLock, <<>>, SortSeq(locks, LockBefore))

CutLock(current, requested) ==
    IF ~lockRangesOverlap(current, requested) THEN <<current>>
    ELSE (IF current.start < requested.start
          THEN <<[current EXCEPT !.end = requested.start - 1]>> ELSE <<>>)
         \o (IF requested.end < current.end
             THEN <<[current EXCEPT !.start = requested.end + 1]>> ELSE <<>>)

applyFileLock(existing, requested) ==
    normalizeFileLocks(
        FlattenSeq([i \in DOMAIN existing |-> CutLock(existing[i], requested)])
        \o (IF requested.type = "none" THEN <<>>
            ELSE <<[start |-> requested.start, end |-> requested.end, type |-> requested.type]>>))

(* The lock a list of ranges puts on every byte.                           *)
Denotes(locks) ==
    [b \in Byte |->
       IF \E i \in DOMAIN locks : locks[i].start <= b /\ b <= locks[i].end
       THEN locks[CHOOSE i \in DOMAIN locks : locks[i].start <= b /\ b <= locks[i].end].type
       ELSE "none"]

Unlocked == [b \in Byte |-> "none"]

---------------------------------------------------------------------------
Init ==
    /\ generation = TRUE /\ file = TRUE
    /\ lease = Session
    /\ table = [o \in Owner |-> <<>>]
    /\ lost = {} /\ closed = {} /\ renews = {}
    /\ active = [s \in Session |-> 0]
    /\ paused = [s \in Session |-> FALSE]
    /\ barrier = [s \in Session |-> Nobody]
    /\ pc = [o \in Owner |-> "idle"]
    /\ req = [o \in Owner |-> Idle]
    /\ err = [o \in Owner |-> "ok"]
    /\ tx = [o \in Owner |-> [state |-> table, stale |-> {}]]
    /\ tries = [o \in Owner |-> 0]
    /\ dirty = {}
    /\ held = [o \in Owner |-> Unlocked]
    /\ budget = [requests |-> 0, events |-> 0]

Spend(kind) == budget' = [budget EXCEPT ![kind] = @ + 1]
Event == budget.events < MaxEvents /\ Spend("events")

InTransaction(o) == pc[o] \in {"leases", "exec"}

(* Writing the lock hash aborts every transaction that watches it.         *)
Touch(owners) == dirty' = dirty \cup {o \in owners : InTransaction(o)}

NoTx == [state |-> [o \in Owner |-> <<>>], stale |-> {}]

(* What check() finds, and what it remembers.                              *)
CheckResult(s) ==
    CASE s \in lost -> "lost"
      [] s \notin lost /\ ~generation -> "changed"
      [] s \notin lost /\ generation /\ s \notin lease -> "lost"
      [] OTHER -> "ok"
Remember(s, result) == lost' = IF result = "lost" THEN lost \cup {s} ELSE lost

(* The application issues a request. The range it asks about is no longer  *)
(* covered by an earlier answer.                                           *)
Forget(o, r) ==
    held' = [held EXCEPT ![o] =
        CASE r.kind = "io" -> @
          [] r.kind = "close" -> Unlocked
          [] r.kind = "lock" -> [b \in Byte |-> IF r.start <= b /\ b <= r.end THEN "none" ELSE @[b]]]

Issue(o, r) ==
    /\ pc[o] = "idle"
    /\ budget.requests < MaxRequests /\ Spend("requests")
    /\ pc' = [pc EXCEPT ![o] = "begin"]
    /\ req' = [req EXCEPT ![o] = r]
    /\ Forget(o, r)
    /\ UNCHANGED <<store, known, renews, gate, err, tx, tries, dirty>>

(* The gate: a request is admitted, is counted while it is in flight, and  *)
(* is no longer counted when it returns.                                   *)
Admits_Always(s) == TRUE
Admits(s) == ~paused[s]

Entered(s) == [active EXCEPT ![s] = @ + 1]

Left(s) == [active EXCEPT ![s] = @ - 1]

(* begin(): admission, held back while a barrier is draining, and the      *)
(* check of the session. A waiting lock request comes back here after its  *)
(* sleep. A request other than a lock request is in flight until finish.   *)
begin(o) ==
    LET s == SessionOf[o]
        result == CheckResult(s)
    IN /\ pc[o] \in {"begin", "sleep"}
       /\ \/ /\ Admits(s)
             /\ active' = Entered(s)
             /\ Remember(s, result)
             /\ err' = [err EXCEPT ![o] = result]
             /\ pc' = [pc EXCEPT ![o] = IF result = "ok" /\ req[o].kind # "io"
                                        THEN "watch" ELSE "finish"]
             /\ UNCHANGED req
          \/ /\ s \in closed /\ (paused[s] \/ pc[o] = "sleep")
             /\ pc' = [pc EXCEPT ![o] = "idle"]
             /\ req' = [req EXCEPT ![o] = Idle]
             /\ UNCHANGED <<active, lost, err>>
       /\ UNCHANGED <<store, closed, renews, paused, barrier, tx, tries, dirty, held, budget>>

(* retryWatch: WATCH the lease, the generation and the lock hash (and the  *)
(* inode for Setlk), check the first two, read the hash.                   *)
Watch(o) ==
    LET s == SessionOf[o]
        result == CASE s \notin lease -> "lost"
                    [] s \in lease /\ ~generation -> "changed"
                    [] s \in lease /\ generation /\ req[o].kind = "lock" /\ ~file -> "error"
                    [] OTHER -> "ok"
    IN /\ pc[o] = "watch"
       /\ err' = [err EXCEPT ![o] = result]
       /\ dirty' = dirty \ {o}
       /\ tries' = [tries EXCEPT ![o] = @ + 1]
       /\ tx' = [tx EXCEPT ![o] = IF result = "ok" /\ req[o].kind = "lock"
                                  THEN [state |-> table, stale |-> {}] ELSE NoTx]
       /\ pc' = [pc EXCEPT ![o] = IF result # "ok" THEN "finish"
                                  ELSE IF req[o].kind = "lock" THEN "leases" ELSE "exec"]
       /\ UNCHANGED <<store, known, renews, gate, req, held, budget>>

(* pruneExpiredLocks, outside the transaction, then the conflict test.     *)
PruneAndTest(o) ==
    LET stale == {p \in Owner : tx[o].state[p] # <<>> /\ SessionOf[p] \notin lease}
        conflict == \E p \in Owner \ ({o} \cup stale) : \E i \in DOMAIN tx[o].state[p] :
                        locksConflict(tx[o].state[p][i], req[o])
    IN /\ pc[o] = "leases"
       /\ tx' = [tx EXCEPT ![o] = IF conflict THEN NoTx ELSE [@ EXCEPT !.stale = stale]]
       /\ err' = [err EXCEPT ![o] = IF conflict THEN "block" ELSE "ok"]
       /\ pc' = [pc EXCEPT ![o] = IF conflict THEN "finish" ELSE "exec"]
       /\ UNCHANGED <<store, known, renews, gate, req, tries, dirty, held, budget>>

(* What EXEC writes when no watched key changed.                           *)
Written(o) ==
    IF req[o].kind = "close" THEN [table EXCEPT ![o] = <<>>]
    ELSE LET current == IF o \in tx[o].stale THEN <<>> ELSE tx[o].state[o]
             next == applyFileLock(current, req[o])
         IN [p \in Owner |-> IF p = o THEN next ELSE IF p \in tx[o].stale THEN <<>> ELSE table[p]]

Aborted_Never(o) == FALSE
Aborted(o) == o \in dirty

Exec(o, answered) ==
    /\ pc[o] = "exec"
    /\ IF Aborted(o)
       THEN /\ pc' = [pc EXCEPT ![o] = IF tries[o] < MaxAttempts THEN "watch" ELSE "finish"]
            /\ err' = [err EXCEPT ![o] = IF tries[o] < MaxAttempts THEN @ ELSE "error"]
            /\ dirty' = dirty \ {o}
            /\ UNCHANGED <<table, renews>>
       ELSE /\ table' = Written(o)
            /\ dirty' = IF table' # table \/ req[o].kind = "lock"
                        THEN {p \in Owner \ {o} : p \in dirty \/ InTransaction(p)} ELSE dirty
            /\ err' = [err EXCEPT ![o] = IF answered THEN "ok" ELSE "error"]
            /\ renews' = IF answered /\ req[o].kind = "lock"
                         THEN renews \cup {SessionOf[o]} ELSE renews
            /\ pc' = [pc EXCEPT ![o] = "finish"]
    /\ tx' = [tx EXCEPT ![o] = NoTx]
    /\ UNCHANGED <<generation, file, lease, known, gate, req, tries, held>>

(* finish(): a second check of a successful request, then the admission is *)
(* given back. A blocked waiting lock sleeps outside the gate; a close     *)
(* that released its locks goes on to the barrier.                         *)
finish(o) ==
    LET s == SessionOf[o]
        result == IF err[o] = "ok" THEN CheckResult(s) ELSE err[o]
        again == result = "block" /\ req[o].wait
        drain == result = "ok" /\ req[o].kind = "close"
    IN /\ pc[o] = "finish"
       /\ IF err[o] = "ok" THEN Remember(s, result) ELSE UNCHANGED lost
       /\ active' = Left(s)
       /\ held' = IF result = "ok" /\ req[o].kind = "lock"
                  THEN [held EXCEPT ![o] = [b \in Byte |->
                          IF req[o].start <= b /\ b <= req[o].end THEN req[o].type ELSE @[b]]]
                  ELSE held
       /\ err' = [err EXCEPT ![o] = "ok"]
       /\ tries' = [tries EXCEPT ![o] = 0]
       /\ pc' = [pc EXCEPT ![o] = IF again THEN "sleep" ELSE IF drain THEN "gate" ELSE "idle"]
       /\ req' = [req EXCEPT ![o] = IF again \/ drain THEN @ ELSE Idle]
       /\ UNCHANGED <<store, closed, renews, paused, barrier, tx, dirty, budget>>

---------------------------------------------------------------------------
(* Barrier.                                                                *)

Pause(o) ==
    LET s == SessionOf[o] IN
    /\ pc[o] = "gate"
    /\ barrier[s] = Nobody
    /\ barrier' = [barrier EXCEPT ![s] = o]
    /\ paused' = [paused EXCEPT ![s] = TRUE]
    /\ pc' = [pc EXCEPT ![o] = "drain"]
    /\ UNCHANGED <<store, known, renews, active, req, err, tx, tries, dirty, held, budget>>

Drain(o) ==
    /\ pc[o] = "drain"
    /\ active[SessionOf[o]] = 0
    /\ pc' = [pc EXCEPT ![o] = "verify"]
    /\ UNCHANGED <<store, known, renews, gate, req, err, tx, tries, dirty, held, budget>>

(* A barrier that does not let the next one in.                            *)
Resume_Alone(o) ==
    LET s == SessionOf[o] IN
    /\ barrier' = barrier
    /\ paused' = [paused EXCEPT ![s] = FALSE]
    /\ pc' = [pc EXCEPT ![o] = "idle"]
    /\ req' = [req EXCEPT ![o] = Idle]

Resume(o) ==
    LET s == SessionOf[o] IN
    /\ barrier' = [barrier EXCEPT ![s] = Nobody]
    /\ paused' = [paused EXCEPT ![s] = FALSE]
    /\ pc' = [pc EXCEPT ![o] = "idle"]
    /\ req' = [req EXCEPT ![o] = Idle]

Verify(o) ==
    /\ pc[o] = "verify"
    /\ Remember(SessionOf[o], CheckResult(SessionOf[o]))
    /\ Resume(o)
    /\ UNCHANGED <<store, closed, renews, active, err, tx, tries, dirty, held, budget>>

(* The caller's context ends while it waits.                               *)
Interrupt(o) ==
    /\ Event
    /\ \/ /\ pc[o] = "drain" /\ active[SessionOf[o]] > 0
          /\ Resume(o)
       \/ /\ pc[o] \in {"gate", "sleep"} \/ (pc[o] = "begin" /\ paused[SessionOf[o]])
          /\ pc' = [pc EXCEPT ![o] = "idle"]
          /\ req' = [req EXCEPT ![o] = Idle]
          /\ UNCHANGED <<paused, barrier>>
    /\ UNCHANGED <<store, known, renews, active, err, tx, tries, dirty, held>>

---------------------------------------------------------------------------
(* Leases.                                                                 *)

Running(s) == \A o \in Owner : SessionOf[o] = s => pc[o] # "dead"

(* The renewal script; PEXPIRE touches the keys that transactions watch.   *)
renew(s) ==
    /\ Running(s) /\ s \notin closed
    /\ \/ /\ generation /\ s \in lease
          /\ Event
          /\ Touch({o \in Owner : SessionOf[o] = s \/ s \in renews})
          /\ UNCHANGED lost
       \/ /\ generation /\ s \notin lease /\ s \notin lost
          /\ lost' = lost \cup {s}
          /\ UNCHANGED <<dirty, budget>>
    /\ UNCHANGED <<store, closed, renews, gate, pc, req, err, tx, tries, held>>

(* The transactions that watch a lease: those of its own session.          *)
LeaseWatchers_None(s) == {}
LeaseWatchers(s) == {o \in Owner : SessionOf[o] = s}

(* The lease runs out: its renewals fail for a TTL, or have stopped.       *)
LeaseExpires(s) ==
    /\ s \in lease
    /\ \/ generation /\ Running(s) /\ Event
       \/ ~generation /\ UNCHANGED budget
       \/ generation /\ ~Running(s) /\ UNCHANGED budget
    /\ lease' = lease \ {s}
    /\ Touch(LeaseWatchers(s))
    /\ UNCHANGED <<generation, file, table, known, renews, gate, pc, req, err, tx, tries, held>>

(* Close at unmount. The deletion of the lease may itself be lost.         *)
Close(s, deleted) ==
    /\ Running(s) /\ s \notin closed
    /\ Event
    /\ lost' = lost \cup {s} /\ closed' = closed \cup {s}
    /\ lease' = IF deleted THEN lease \ {s} ELSE lease
    /\ IF deleted THEN Touch(LeaseWatchers(s)) ELSE UNCHANGED dirty
    /\ UNCHANGED <<generation, file, table, renews, gate, pc, req, err, tx, tries, held>>

(* The mount process dies, its requests and its gate with it.              *)
Crash(s) ==
    LET Mine(f, x) == [o \in Owner |-> IF SessionOf[o] = s THEN x ELSE f[o]]
    IN /\ Running(s) /\ Event
       /\ pc' = Mine(pc, "dead")
       /\ req' = Mine(req, Idle) /\ err' = Mine(err, "ok")
       /\ tx' = Mine(tx, NoTx) /\ tries' = Mine(tries, 0)
       /\ dirty' = {o \in dirty : SessionOf[o] # s}
       /\ active' = [active EXCEPT ![s] = 0]
       /\ paused' = [paused EXCEPT ![s] = FALSE]
       /\ barrier' = [barrier EXCEPT ![s] = Nobody]
       /\ UNCHANGED <<store, known, renews, held>>

(* A checkpoint restore replaces the live tree; a peer removes the file.   *)
Change ==
    /\ Event
    /\ \/ generation /\ generation' = FALSE /\ UNCHANGED file
       \/ file /\ file' = FALSE /\ UNCHANGED generation
    /\ Touch(Owner)
    /\ UNCHANGED <<lease, table, known, renews, gate, pc, req, err, tx, tries, held>>

(* The hash expires two TTLs after its last write or renewal, a lease one  *)
(* TTL after its own: a live session that renews the hash keeps it.        *)
Abandoned_Always == TRUE
Abandoned == \A s \in lease : s \notin renews

LocksExpire ==
    /\ \E o \in Owner : table[o] # <<>>
    /\ Abandoned
    /\ table' = [o \in Owner |-> <<>>]
    /\ Touch(Owner)
    /\ UNCHANGED <<generation, file, lease, known, renews, gate, pc, req, err, tx, tries, held, budget>>

Step(o) ==
    \/ begin(o) \/ Watch(o) \/ PruneAndTest(o)
    \/ Exec(o, TRUE) /\ UNCHANGED budget
    \/ finish(o) \/ Pause(o) \/ Drain(o) \/ Verify(o)

Next ==
    \/ \E o \in Owner : \E r \in Asked[o] : Issue(o, r)
    \/ \E o \in Owner : Step(o) \/ Interrupt(o)
    \/ \E o \in Owner : o \notin dirty /\ Exec(o, FALSE) /\ Event
    \/ \E s \in Session : renew(s) \/ LeaseExpires(s) \/ Crash(s)
    \/ \E s \in Session, deleted \in BOOLEAN : Close(s, deleted)
    \/ Change \/ LocksExpire

(* A thread goes on with the request it is in.                             *)
Fairness == \A o \in Owner : WF_vars(Step(o))

Spec == Init /\ [][Next]_vars

FairSpec == Spec /\ Fairness

---------------------------------------------------------------------------
(* The promise of the lock hash, in terms of bytes instead of ranges: every *)
(* step of the transactions is a step of LockTable (applyFileLock,          *)
(* normalizeFileLocks, trySetLock, pruneExpiredLocks).                      *)
Promise == INSTANCE LockTable WITH bytes <- [o \in Owner |-> Denotes(table[o])]
ImplementsLockTable == Promise!TableSpec

(* Two applications on live sessions that were both told they hold a byte  *)
(* hold it for reading: setting a lock, pruning expired owners, lost       *)
(* answers, renewals and the expiry of the hash included (trySetLock).     *)
LockExclusion == Promise!LockExclusion

(* Once Barrier found the session drained, no request is admitted until it *)
(* has validated the session (begin, Barrier).                             *)
BarrierDrained ==
    \A o \in Owner : pc[o] = "verify" =>
        \A p \in Owner : SessionOf[p] = SessionOf[o] =>
            pc[p] \notin {"watch", "leases", "exec", "finish"}

(* A session whose lease is gone writes no lock any more, whatever its     *)
(* transactions read before: an expired session never reacquires a lock    *)
(* (trySetLock, UnlockAll).                                                *)
LostSessionWritesNothing ==
    [][\A o \in Owner : SessionOf[o] \notin lease =>
          table'[o] \in {table[o], <<>>}]_vars

(* Every Barrier ends, also while lock requests wait for each other: a     *)
(* sleeping lock request is not in flight (Setlk, Barrier).                *)
BarrierEnds ==
    \A o \in Owner : pc[o] \in {"gate", "drain", "verify"} ~> pc[o] \in {"idle", "dead"}
=============================================================================
