------------------------ MODULE NativeSessionProofs ------------------------
(***************************************************************************)
(* Barrier finds a session drained and keeps it so, and a session without  *)
(* a lease writes no lock, whatever the number of sessions, owners,        *)
(* requests and faults.                                                    *)
(***************************************************************************)
EXTENDS NativeSession, FiniteSetTheorems, TLAPS

(* The requests that passed begin and have not returned from finish.       *)
InFlight(s) == {p \in Owner : SessionOf[p] = s /\ pc[p] \in {"watch", "leases", "exec", "finish"}}

GateTypes ==
    /\ DOMAIN pc = Owner
    /\ active \in [Session -> Nat]
    /\ paused \in [Session -> BOOLEAN]
    /\ DOMAIN barrier = Session

(* The gate counts exactly the requests in flight, a barrier has closed    *)
(* its own gate, and found the count zero before it verifies.              *)
GateInv ==
    /\ GateTypes
    /\ \A s \in Session : active[s] = Cardinality(InFlight(s))
    /\ \A o \in Owner : pc[o] \in {"drain", "verify"} => barrier[SessionOf[o]] = o /\ paused[SessionOf[o]]
    /\ \A o \in Owner : pc[o] = "verify" => active[SessionOf[o]] = 0

LEMMA InFlightFinite ==
    ASSUME NEW s
    PROVE  IsFiniteSet(InFlight(s)) /\ IsFiniteSet(InFlight(s)')
<1>1. InFlight(s) \subseteq Owner /\ InFlight(s)' \subseteq Owner
  BY Zenon DEF InFlight
<1>2. QED
  BY <1>1, FS_Subset, SessionAssumption, Zenon

LEMMA GateInvDrains == GateInv => BarrierDrained
<1> SUFFICES ASSUME GateInv, NEW o \in Owner, pc[o] = "verify",
                    NEW p \in Owner, SessionOf[p] = SessionOf[o]
             PROVE  pc[p] \notin {"watch", "leases", "exec", "finish"}
  BY Zenon DEF BarrierDrained
<1>1. SessionOf[o] \in Session
  BY SessionAssumption, Zenon
<1>2. Cardinality(InFlight(SessionOf[o])) = 0
  BY <1>1, Zenon DEF GateInv
<1>3. InFlight(SessionOf[o]) = {}
  BY <1>2, InFlightFinite, FS_EmptySet, Zenon
<1>4. QED
  BY <1>3, Zenon DEF InFlight

(* A step that moves no request into or out of flight, opens no gate a     *)
(* barrier holds and lets no barrier through.                              *)
Steady ==
    /\ GateTypes'
    /\ \A s \in Session : InFlight(s)' = InFlight(s) /\ active'[s] = active[s]
    /\ \A o \in Owner : pc'[o] \in {"drain", "verify"} =>
          barrier'[SessionOf[o]] = o /\ paused'[SessionOf[o]]
    /\ \A o \in Owner : pc'[o] = "verify" => pc[o] = "verify" \/ active[SessionOf[o]] = 0

LEMMA SteadyKeeps == GateInv /\ Steady => GateInv'
<1> SUFFICES ASSUME GateInv, Steady
             PROVE  GateInv'
  OBVIOUS
<1>1. \A o \in Owner : SessionOf[o] \in Session
  BY SessionAssumption, Zenon
<1>2. \A s \in Session : active'[s] = Cardinality(InFlight(s)')
  BY ZenonT(60) DEF GateInv, Steady
<1>3. QED
  BY <1>1, <1>2, Zenon DEF GateInv, Steady

(* Steps that change neither the gate nor where requests are in it.        *)
LEMMA UnmovedKeeps ==
    ASSUME GateInv, UNCHANGED gate, DOMAIN pc' = Owner,
           \A o \in Owner : \/ pc'[o] = pc[o]
                            \/ {pc[o], pc'[o]} \subseteq {"watch", "leases", "exec", "finish"}
                            \/ {pc[o], pc'[o]} \subseteq {"idle", "begin", "sleep", "gate"}
    PROVE  GateInv'
<1>1. Steady
  BY Zenon DEF Steady, GateInv, GateTypes, gate, InFlight
<1>2. QED
  BY <1>1, SteadyKeeps, Zenon

(* Admission: the gate is open, so no barrier of the session is past its   *)
(* closing.                                                                *)
LEMMA BeginKeeps ==
    ASSUME GateInv, NEW o \in Owner, begin(o)
    PROVE  GateInv'
<1> DEFINE s == SessionOf[o]
<1>0. s \in Session
  BY SessionAssumption, Zenon
<1>1. CASE /\ ~paused[s] /\ active' = [active EXCEPT ![s] = @ + 1]
           /\ pc' = [pc EXCEPT ![o] = pc'[o]] /\ pc'[o] \in {"watch", "finish"}
           /\ pc[o] \in {"begin", "sleep"} /\ UNCHANGED <<paused, barrier>>
  <2>1. /\ InFlight(s)' = InFlight(s) \cup {o} /\ o \notin InFlight(s)
        /\ \A t \in Session \ {s} : InFlight(t)' = InFlight(t)
    BY <1>1, SMTT(60) DEF InFlight, GateInv, GateTypes
  <2>2. Cardinality(InFlight(s)') = Cardinality(InFlight(s)) + 1
    BY <2>1, InFlightFinite, FS_AddElement, ZenonT(60)
  <2>3. /\ active'[s] = active[s] + 1 /\ \A t \in Session \ {s} : active'[t] = active[t]
        /\ active' \in [Session -> Nat]
    BY <1>0, <1>1, SMTT(60) DEF GateInv, GateTypes
  <2>4. \A t \in Session : active'[t] = Cardinality(InFlight(t)')
    BY <1>0, <2>1, <2>2, <2>3, ZenonT(60) DEF GateInv
  <2>5. \A p \in Owner : pc'[p] \in {"drain", "verify"} => pc'[p] = pc[p] /\ SessionOf[p] # s
    BY <1>1, Zenon DEF GateInv, GateTypes
  <2>6. \A p \in Owner : SessionOf[p] \in Session
    BY SessionAssumption, Zenon
  <2>7. GateTypes'
    BY <1>1, <2>3, Zenon DEF GateInv, GateTypes
  <2>8. QED
    BY <1>1, <2>3, <2>4, <2>5, <2>6, <2>7, ZenonT(60) DEF GateInv
<1>2. CASE pc' = [pc EXCEPT ![o] = "idle"] /\ pc[o] \in {"begin", "sleep"} /\ UNCHANGED gate
  BY <1>2, UnmovedKeeps, ZenonT(60) DEF GateInv, GateTypes
<1>3. QED
  <2>1. CASE /\ Admits(s) /\ active' = Entered(s)
             /\ pc' = [pc EXCEPT ![o] = IF CheckResult(s) = "ok" /\ req[o].kind # "io" THEN "watch" ELSE "finish"]
    BY <1>1, <2>1, Zenon DEF begin, Admits, Entered, GateInv, GateTypes
  <2>2. CASE pc' = [pc EXCEPT ![o] = "idle"] /\ UNCHANGED active
    BY <1>2, <2>2, Zenon DEF begin, gate
  <2>3. QED
    BY <2>1, <2>2, Zenon DEF begin

(* Return: the request is no longer counted.                               *)
LEMMA FinishKeeps ==
    ASSUME GateInv, NEW o \in Owner, finish(o)
    PROVE  GateInv'
<1> DEFINE s == SessionOf[o]
<1>0. s \in Session
  BY SessionAssumption, Zenon
<1>1. /\ pc[o] = "finish" /\ active' = [active EXCEPT ![s] = @ - 1]
      /\ pc' = [pc EXCEPT ![o] = pc'[o]] /\ pc'[o] \in {"sleep", "gate", "idle"}
      /\ UNCHANGED <<paused, barrier>>
  BY Zenon DEF finish, Left, GateInv, GateTypes
<1>2. /\ InFlight(s)' = InFlight(s) \ {o} /\ o \in InFlight(s)
      /\ \A t \in Session \ {s} : InFlight(t)' = InFlight(t)
  BY <1>1, SMTT(60) DEF InFlight, GateInv, GateTypes
<1>3. Cardinality(InFlight(s)') = Cardinality(InFlight(s)) - 1
  BY <1>2, InFlightFinite, FS_RemoveElement, Zenon
<1>4. Cardinality(InFlight(s)') \in Nat /\ Cardinality(InFlight(s)) \in Nat
  BY InFlightFinite, FS_CardinalityType, ZenonT(60)
<1>5. /\ active'[s] = active[s] - 1 /\ \A t \in Session \ {s} : active'[t] = active[t]
      /\ active' \in [Session -> Nat]
  BY <1>0, <1>1, <1>3, <1>4, SMTT(60) DEF GateInv, GateTypes
<1>6. \A t \in Session : active'[t] = Cardinality(InFlight(t)')
  BY <1>0, <1>2, <1>3, <1>5, ZenonT(60) DEF GateInv
<1>7. \A p \in Owner : pc'[p] \in {"drain", "verify"} => pc'[p] = pc[p]
  BY <1>1, Zenon DEF GateInv, GateTypes
<1>8. \A p \in Owner : pc[p] = "verify" => SessionOf[p] # s
  <2>1. active[s] # 0
    BY <1>0, <1>3, <1>4, SMTT(60) DEF GateInv
  <2>2. QED
    BY <2>1, Zenon DEF GateInv
<1>9. \A p \in Owner : SessionOf[p] \in Session
  BY SessionAssumption, Zenon
<1>10. GateTypes'
  BY <1>1, <1>5, Zenon DEF GateInv, GateTypes
<1>11. QED
  BY <1>1, <1>5, <1>6, <1>7, <1>8, <1>9, <1>10, ZenonT(60) DEF GateInv

(* Only the barrier that closed a gate opens it.                           *)
LEMMA ResumeKeeps ==
    ASSUME GateInv, NEW o \in Owner, pc[o] \in {"drain", "verify"}, Resume(o), UNCHANGED active
    PROVE  GateInv'
<1>1. \A p \in Owner : SessionOf[p] \in Session
  BY SessionAssumption, Zenon
<1>2. /\ pc' = [pc EXCEPT ![o] = "idle"]
      /\ paused' = [paused EXCEPT ![SessionOf[o]] = FALSE]
      /\ barrier' = [barrier EXCEPT ![SessionOf[o]] = Nobody]
  BY Zenon DEF Resume
<1>3. \A p \in Owner : pc'[p] \in {"drain", "verify"} => pc'[p] = pc[p] /\ SessionOf[p] # SessionOf[o]
  BY <1>1, <1>2, SMTT(60) DEF GateInv, GateTypes
<1>4. \A s \in Session : InFlight(s)' = InFlight(s)
  BY <1>2, Zenon DEF InFlight, GateInv, GateTypes
<1>5. GateTypes'
  BY <1>2, Zenon DEF GateInv, GateTypes
<1>6. Steady
  BY <1>1, <1>2, <1>3, <1>4, <1>5, ZenonT(60) DEF Steady, GateInv, GateTypes
<1>7. QED
  BY <1>6, SteadyKeeps, Zenon

LEMMA PauseKeeps ==
    ASSUME GateInv, NEW o \in Owner, Pause(o)
    PROVE  GateInv'
<1>1. \A p \in Owner : SessionOf[p] \in Session
  BY SessionAssumption, Zenon
<1>2. /\ pc[o] = "gate" /\ barrier[SessionOf[o]] = Nobody /\ UNCHANGED active
      /\ pc' = [pc EXCEPT ![o] = "drain"]
      /\ paused' = [paused EXCEPT ![SessionOf[o]] = TRUE]
      /\ barrier' = [barrier EXCEPT ![SessionOf[o]] = o]
  BY Zenon DEF Pause
<1>3. \A p \in Owner \ {o} : pc'[p] \in {"drain", "verify"} => pc'[p] = pc[p] /\ SessionOf[p] # SessionOf[o]
  BY <1>2, SessionAssumption, SMTT(60) DEF GateInv, GateTypes
<1>4. \A s \in Session : InFlight(s)' = InFlight(s)
  BY <1>2, ZenonT(60) DEF InFlight, GateInv, GateTypes
<1>5. GateTypes'
  BY <1>2, Zenon DEF GateInv, GateTypes
<1>6. Steady
  BY <1>1, <1>2, <1>3, <1>4, <1>5, ZenonT(60) DEF Steady, GateInv, GateTypes
<1>7. QED
  BY <1>6, SteadyKeeps, ZenonT(60)

LEMMA DrainKeeps ==
    ASSUME GateInv, NEW o \in Owner, Drain(o)
    PROVE  GateInv'
<1>1. Steady
  BY SessionAssumption, ZenonT(60) DEF Drain, Steady, GateInv, GateTypes, gate, InFlight
<1>2. QED
  BY <1>1, SteadyKeeps, Zenon

(* A crash takes the gate of the session with its requests.                *)
LEMMA CrashKeeps ==
    ASSUME GateInv, NEW s \in Session, Crash(s)
    PROVE  GateInv'
<1>1. \A p \in Owner : SessionOf[p] \in Session
  BY SessionAssumption, Zenon
<1>2. /\ pc' = [o \in Owner |-> IF SessionOf[o] = s THEN "dead" ELSE pc[o]]
      /\ active' = [active EXCEPT ![s] = 0]
      /\ paused' = [paused EXCEPT ![s] = FALSE]
      /\ barrier' = [barrier EXCEPT ![s] = Nobody]
  BY Zenon DEF Crash
<1>3. InFlight(s)' = {} /\ \A t \in Session \ {s} : InFlight(t)' = InFlight(t)
  BY <1>2, Zenon DEF InFlight
<1>4. \A t \in Session : active'[t] = Cardinality(InFlight(t)')
  <2>1. active'[s] = 0 /\ \A t \in Session \ {s} : active'[t] = active[t]
    BY <1>2, Zenon DEF GateInv, GateTypes
  <2>2. Cardinality(InFlight(s)') = 0
    BY <1>3, FS_EmptySet, ZenonT(60)
  <2>3. QED
    BY <1>3, <2>1, <2>2, ZenonT(60) DEF GateInv
<1>5. \A p \in Owner : pc'[p] \in {"drain", "verify"} => pc'[p] = pc[p] /\ SessionOf[p] # s
  BY <1>2, Zenon
<1>6. GateTypes'
  BY <1>2, Zenon DEF GateInv, GateTypes
<1>7. \A t \in Session \ {s} : active'[t] = active[t] /\ paused'[t] = paused[t] /\ barrier'[t] = barrier[t]
  BY <1>2, Zenon DEF GateInv, GateTypes
<1>8. QED
  BY <1>1, <1>4, <1>5, <1>6, <1>7, ZenonT(60) DEF GateInv

LEMMA GateStep == GateInv /\ [Next]_vars => GateInv'
<1> SUFFICES ASSUME GateInv, [Next]_vars
             PROVE  GateInv'
  OBVIOUS
<1>1. CASE UNCHANGED vars
  BY <1>1, UnmovedKeeps, Zenon DEF vars, gate, GateInv, GateTypes
<1>2. ASSUME NEW o \in Owner, NEW r, Issue(o, r)
      PROVE  GateInv'
  BY <1>2, UnmovedKeeps, ZenonT(60) DEF Issue, GateInv, GateTypes
<1>3. ASSUME NEW o \in Owner, Watch(o)
      PROVE  GateInv'
  BY <1>3, UnmovedKeeps, SMTT(60) DEF Watch, GateInv, GateTypes
<1>4. ASSUME NEW o \in Owner, PruneAndTest(o)
      PROVE  GateInv'
  BY <1>4, UnmovedKeeps, ZenonT(60) DEF PruneAndTest, GateInv, GateTypes
<1>5. ASSUME NEW o \in Owner, NEW answered, Exec(o, answered)
      PROVE  GateInv'
  <2>1. pc[o] = "exec" /\ UNCHANGED gate /\ pc' = [pc EXCEPT ![o] = pc'[o]] /\ pc'[o] \in {"watch", "finish"}
    BY <1>5, ZenonT(60) DEF Exec, GateInv, GateTypes
  <2>2. QED
    BY <2>1, UnmovedKeeps, ZenonT(60) DEF GateInv, GateTypes
<1>6. ASSUME NEW o \in Owner, Verify(o)
      PROVE  GateInv'
  BY <1>6, ResumeKeeps, Zenon DEF Verify
<1>7. ASSUME NEW o \in Owner, Interrupt(o)
      PROVE  GateInv'
  <2>1. CASE pc[o] = "drain" /\ Resume(o)
    BY <1>7, <2>1, ResumeKeeps, ZenonT(60) DEF Interrupt
  <2>2. CASE pc[o] \in {"gate", "sleep", "begin"} /\ pc' = [pc EXCEPT ![o] = "idle"] /\ UNCHANGED <<paused, barrier>>
    BY <1>7, <2>2, UnmovedKeeps, ZenonT(60) DEF Interrupt, gate, GateInv, GateTypes
  <2>3. QED
    BY <1>7, <2>1, <2>2, ZenonT(60) DEF Interrupt
<1>8. ASSUME NEW s \in Session, renew(s) \/ LeaseExpires(s) \/ \E deleted \in BOOLEAN : Close(s, deleted)
      PROVE  GateInv'
  BY <1>8, UnmovedKeeps, Zenon DEF renew, LeaseExpires, Close, GateInv, GateTypes
<1>9. CASE Change \/ LocksExpire
  BY <1>9, UnmovedKeeps, Zenon DEF Change, LocksExpire, GateInv, GateTypes
<1>10. QED
  BY ZenonT(60), <1>1, <1>2, <1>3, <1>4, <1>5, <1>6, <1>7, <1>8, <1>9, BeginKeeps, FinishKeeps, PauseKeeps, DrainKeeps,
     CrashKeeps DEF Next, Step

(* While Barrier validates a drained session no request of the session is  *)
(* in flight, for any number of sessions, owners, requests and faults      *)
(* (native_session.go begin, Barrier).                                     *)
THEOREM BarrierFindsNobody == Spec => []BarrierDrained
<1>1. Init => GateInv
  <2> SUFFICES ASSUME Init
               PROVE  GateInv
    OBVIOUS
  <2>1. \A s \in Session : InFlight(s) = {}
    BY Zenon DEF Init, InFlight
  <2>2. QED
    BY <2>1, FS_EmptySet, Zenon DEF Init, GateInv, GateTypes
<1>2. QED
  BY <1>1, GateStep, GateInvDrains, PTL DEF Spec

---------------------------------------------------------------------------
(* A transaction of a session whose lease is gone is going to abort.       *)
WatchInv ==
    /\ DOMAIN pc = Owner /\ DOMAIN table = Owner
    /\ \A o \in Owner : InTransaction(o) /\ SessionOf[o] \notin lease => o \in dirty

LEMMA WatchDomains ==
    ASSUME WatchInv, [Next]_vars
    PROVE  DOMAIN pc' = Owner /\ DOMAIN table' = Owner
<1>1. DOMAIN pc' = Owner
  BY ZenonT(60) DEF WatchInv, Next, Step, vars, Issue, begin, Watch, PruneAndTest, Exec, finish, Pause, Drain, Verify, Resume,
     Interrupt, renew, LeaseExpires, Close, Crash, Change, LocksExpire
<1>2. DOMAIN table' = Owner
  BY ZenonT(60) DEF WatchInv, Next, Step, vars, store, Issue, begin, Watch, PruneAndTest, Exec, Written, finish, Pause, Drain,
     Verify, Interrupt, renew, LeaseExpires, Close, Crash, Change, LocksExpire
<1>3. QED
  BY <1>1, <1>2, ZenonT(60)

LEMMA WatchStep == WatchInv /\ [Next]_vars => WatchInv'
<1> SUFFICES ASSUME WatchInv, [Next]_vars, NEW q \in Owner, InTransaction(q)', SessionOf[q] \notin lease'
             PROVE  q \in dirty'
  BY WatchDomains, Zenon DEF WatchInv
<1> USE DEF WatchInv, InTransaction
<1>1. CASE UNCHANGED vars
  BY <1>1, Zenon DEF vars
<1>2. ASSUME NEW o \in Owner, NEW r, Issue(o, r)
      PROVE  q \in dirty'
  BY <1>2, ZenonT(60) DEF Issue, store
<1>3. ASSUME NEW o \in Owner, begin(o) \/ finish(o) \/ Pause(o) \/ Drain(o) \/ Verify(o) \/ Interrupt(o)
      PROVE  q \in dirty'
  BY <1>3, ZenonT(60) DEF begin, finish, Pause, Drain, Verify, Interrupt, Resume, store
<1>4. ASSUME NEW o \in Owner, Watch(o)
      PROVE  q \in dirty'
  BY <1>4, ZenonT(60) DEF Watch, store
<1>5. ASSUME NEW o \in Owner, PruneAndTest(o)
      PROVE  q \in dirty'
  BY <1>5, ZenonT(60) DEF PruneAndTest, store
<1>6. ASSUME NEW o \in Owner, NEW answered, Exec(o, answered)
      PROVE  q \in dirty'
  BY <1>6, ZenonT(60) DEF Exec, Aborted
<1>7. ASSUME NEW s \in Session, renew(s)
      PROVE  q \in dirty'
  BY <1>7, Zenon DEF renew, Touch, store
<1>8. ASSUME NEW s \in Session, LeaseExpires(s)
      PROVE  q \in dirty'
  BY <1>8, Zenon DEF LeaseExpires, Touch, LeaseWatchers
<1>9. ASSUME NEW s \in Session, NEW deleted \in BOOLEAN, Close(s, deleted)
      PROVE  q \in dirty'
  BY <1>9, Zenon DEF Close, Touch, LeaseWatchers
<1>10. ASSUME NEW s \in Session, Crash(s)
       PROVE  q \in dirty'
  BY <1>10, Zenon DEF Crash, store
<1>11. CASE Change \/ LocksExpire
  BY <1>11, Zenon DEF Change, LocksExpire, Touch
<1>12. QED
  BY <1>1, <1>2, <1>3, <1>4, <1>5, <1>6, <1>7, <1>8, <1>9, <1>10, <1>11, Zenon DEF Next, Step

(* No step writes a lock for an owner whose session lost its lease, for    *)
(* any number of sessions, owners, requests and faults (native_locks.go    *)
(* trySetLock, UnlockAll).                                                 *)
THEOREM NoLeaseNoLock == Spec => LostSessionWritesNothing
<1>1. Init => WatchInv
  BY Zenon DEF Init, WatchInv, InTransaction
<1>2. WatchInv /\ [Next]_vars => [\A o \in Owner : SessionOf[o] \notin lease => table'[o] \in {table[o], <<>>}]_vars
  <2> SUFFICES ASSUME WatchInv, [Next]_vars, NEW q \in Owner, SessionOf[q] \notin lease
               PROVE  table'[q] \in {table[q], <<>>}
    OBVIOUS
  <2>1. CASE UNCHANGED table
    BY <2>1, Zenon
  <2>2. ASSUME NEW o \in Owner, NEW answered, Exec(o, answered)
        PROVE  table'[q] \in {table[q], <<>>}
    <3>1. CASE o = q
      BY <2>2, <3>1, Zenon DEF Exec, Aborted, WatchInv, InTransaction
    <3>2. CASE o # q /\ table' = Written(o)
      BY <3>2, Zenon DEF Written, WatchInv
    <3>3. QED
      BY <2>1, <2>2, <3>1, <3>2, ZenonT(60) DEF Exec
  <2>3. CASE LocksExpire
    BY <2>3, Zenon DEF LocksExpire
  <2>4. QED
    BY ZenonT(60), <2>1, <2>2, <2>3 DEF Next, Step, vars, store, Issue, begin, Watch, PruneAndTest, finish, Pause, Drain,
       Verify, Interrupt, renew, LeaseExpires, Close, Crash, Change
<1>3. QED
  BY <1>1, <1>2, WatchStep, PTL DEF Spec, LostSessionWritesNothing
=============================================================================
