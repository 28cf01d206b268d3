-------------------------- MODULE LockTableProofs --------------------------
(***************************************************************************)
(* The lock table keeps conflicting owners apart, whatever the number of   *)
(* sessions, owners and bytes.                                             *)
(***************************************************************************)
EXTENDS LockTable, TLAPS

(* Live owners are told only of locks that are recorded, and the records   *)
(* of live owners do not exclude each other.                               *)
TableInv ==
    /\ bytes \in [Owner -> [Byte -> Mode]]
    /\ held \in [Owner -> [Byte -> Mode]]
    /\ \A o \in Owner : Alive(o) => \A b \in Byte : held[o][b] \in {"none", bytes[o][b]}
    /\ \A o, p \in Owner : o # p /\ Alive(o) /\ Alive(p) =>
          \A b \in Byte : ~Excludes(bytes[o][b], bytes[p][b])

(* TableInv says more than LockExclusion: a lock the owner knows of is one *)
(* that is recorded.                                                       *)
LEMMA TableInvExcludes == TableInv => LockExclusion
<1> SUFFICES ASSUME TableInv, NEW o \in Owner, NEW p \in Owner, o # p, Alive(o), Alive(p), NEW b \in Byte
             PROVE  ~Excludes(held[o][b], held[p][b])
  BY Zenon DEF LockExclusion
<1>1. held[o][b] \in {"none", bytes[o][b]} /\ held[p][b] \in {"none", bytes[p][b]}
  BY Zenon DEF TableInv
<1>2. ~Excludes(bytes[o][b], bytes[p][b])
  BY Zenon DEF TableInv
<1>3. QED
  BY <1>1, <1>2, Zenon DEF Excludes

(* A step of the table keeps TableInv.                                     *)
LEMMA TableStep == TableInv /\ [TableNext]_lvars => TableInv'
<1> SUFFICES ASSUME TableInv, [TableNext]_lvars
             PROVE  TableInv'
  OBVIOUS
<1> USE DEF TableInv, Alive
<1>1. CASE UNCHANGED lvars
  BY <1>1, Zenon DEF lvars
<1>2. ASSUME NEW o \in Owner, DropAll(o), bytes' \in [Owner -> [Byte -> Mode]]
      PROVE  TableInv'
  <2>1. /\ UNCHANGED <<lease, held>>
        /\ \A b \in Byte : held[o][b] = "none" /\ bytes'[o][b] = "none"
        /\ \A p \in Owner \ {o} : bytes'[p] = bytes[p]
    BY <1>2, Zenon DEF DropAll, Nothing
  <2>2. QED
    BY <1>2, <2>1, SMTT(60) DEF Excludes
<1>3. ASSUME NEW o \in Owner, NEW first \in Byte, NEW last \in Byte, NEW m \in Mode, Decide(o, first, last, m),
             bytes' \in [Owner -> [Byte -> Mode]]
      PROVE  TableInv'
  <2> DEFINE S == Span(first, last)
  <2>1. /\ UNCHANGED <<lease, held>>
        /\ \A b \in S : held[o][b] = "none" /\ bytes'[o][b] = m
        /\ \A b \in Byte \ S : bytes'[o][b] = bytes[o][b]
        /\ \A p \in Owner \ {o} : Alive(p) =>
              bytes'[p] = bytes[p] /\ \A b \in S : ~Excludes(m, bytes[p][b])
    BY <1>3, Zenon DEF Decide, Span
  <2>2. \A p \in Owner : Alive(p)' => Alive(p)
    BY <2>1, Zenon
  <2>3. ASSUME NEW p \in Owner, Alive(p), NEW b \in Byte
        PROVE  held'[p][b] \in {"none", bytes'[p][b]}
    <3>1. CASE p = o /\ b \in S
      BY <2>1, <3>1, Zenon
    <3>2. CASE p = o /\ b \notin S
      BY <2>1, <2>3, <3>2, Zenon
    <3>3. CASE p # o
      BY <2>1, <2>3, <3>3, Zenon
    <3>4. QED
      BY <3>1, <3>2, <3>3, Zenon
  <2>4. ASSUME NEW p \in Owner, NEW q \in Owner, p # q, Alive(p), Alive(q), NEW b \in Byte
        PROVE  ~Excludes(bytes'[p][b], bytes'[q][b])
    <3>1. CASE p = o /\ b \in S
      BY <2>1, <2>4, <3>1, SMTT(60)
    <3>2. CASE q = o /\ b \in S
      BY <2>1, <2>4, <3>2, SMTT(60) DEF Excludes
    <3>3. CASE b \notin S \/ (p # o /\ q # o)
      <4>1. bytes'[p][b] = bytes[p][b] /\ bytes'[q][b] = bytes[q][b]
        BY <2>1, <2>4, <3>3, Zenon
      <4>2. QED
        BY <2>4, <4>1, Zenon
    <3>4. QED
      BY <3>1, <3>2, <3>3, Zenon
  <2>5. QED
    BY <1>3, <2>1, <2>2, <2>3, <2>4, Zenon
<1>4. ASSUME Collect, bytes' \in [Owner -> [Byte -> Mode]]
      PROVE  TableInv'
  <2>1. /\ UNCHANGED <<lease, held>>
        /\ \A o \in Owner : Alive(o) => \A b \in Byte : held[o][b] = "none"
        /\ \A o \in Owner : \A b \in Byte : bytes'[o][b] = "none"
    BY <1>4, SMTT(60) DEF Collect, Nothing
  <2>2. QED
    BY <1>4, <2>1, Zenon DEF Excludes
<1>5. ASSUME NEW o \in Owner, Learn(o)
      PROVE  TableInv'
  BY <1>5, Zenon DEF Learn
<1>6. ASSUME NEW s \in Session, LeaseEnds(s)
      PROVE  TableInv'
  BY <1>6, Zenon DEF LeaseEnds
<1>7. QED
  BY <1>1, <1>2, <1>3, <1>4, <1>5, <1>6, Zenon DEF TableNext

(* Whatever is decided, dropped, forgotten or collected, two live owners   *)
(* never both know of locks on a byte one of which is a write lock         *)
(* (native_locks.go trySetLock).                                           *)
THEOREM TableExcludes == TableSpec => []LockExclusion
<1>1. TableInit => TableInv
  BY ZenonT(60) DEF TableInit, TableInv, Nothing, Mode, Excludes
<1>2. QED
  BY <1>1, TableStep, TableInvExcludes, PTL DEF TableSpec
=============================================================================
