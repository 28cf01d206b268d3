------------------------- MODULE CheckpointsProofs --------------------------
(***************************************************************************)
(* Proofs about Checkpoints: type correctness, the safety of a restore, and*)
(* that the tree a restore replaces is never lost, for every number of     *)
(* administrators, clients, files and checkpoints, provided no operation   *)
(* outlives its import lock.                                               *)
(***************************************************************************)
EXTENDS Checkpoints, TLAPS

(* The local variables keep their types under the updates the steps make.  *)
LEMMA NoOpType == NoOp \in Op
BY CheckpointsAssumption, Zenon DEF NoOp, Op, AllKinds, Part, NoTree, Generation, Phase

LEMMA LocalType ==
    ASSUME TypeOK, NEW p \in Proc, NEW l \in Label, NEW o \in Op, Local(p, l, o)
    PROVE  TypeOK'
BY Zenon DEF TypeOK, Local, Goto, store, counts, ghosts, catalog, live

LEMMA ReturnType ==
    ASSUME TypeOK, NEW p \in Proc, Return(p)
    PROVE  TypeOK'
BY LocalType, Zenon DEF TypeOK, Return, Label

LEMMA RefsType ==
    ASSUME NEW o \in Op, NEW r \in [Blob -> Nat]
    PROVE  [o EXCEPT !.refs = r] \in Op
BY Zenon DEF Op

LEMMA TodoType ==
    ASSUME NEW o \in Op, NEW x
    PROVE  [o EXCEPT !.todo = @ \ {x}] \in Op
<1>1. o.todo \ {x} \in SUBSET (File \cup Batch)
  BY Zenon DEF Op
<1>2. QED
  BY <1>1, Zenon DEF Op

LEMMA MarkType ==
    ASSUME NEW c \in Cp \cup {None}, NEW d \in BOOLEAN
    PROVE  [head |-> c, dirty |-> d] \in [head : Cp \cup {None}, dirty : BOOLEAN]
OBVIOUS

LEMMA TouchType ==
    ASSUME TypeOK, NEW K, Touch(K)
    PROVE  stale' \subseteq Proc
BY Zenon DEF TypeOK, Touch

LEMMA ClientType ==
    ASSUME TypeOK,
           \/ \E c \in Client : Open(c)
           \/ \E c \in Client, f \in File, b \in Blob : Publish(c, f, b)
           \/ UpdateWorkspaceSettings
           \/ LockExpires
    PROVE  TypeOK'
<1>1. ASSUME NEW c \in Client, Open(c) PROVE TypeOK'
  BY <1>1, Zenon DEF Open, TypeOK, store, catalog, live, ghosts, Generation
<1>2. ASSUME NEW c \in Client, NEW f \in File, NEW b \in Blob, Publish(c, f, b) PROVE TypeOK'
  <2>1. root'.files \in Part /\ root' \in [exists : BOOLEAN, files : Part]
    BY <1>2, Zenon DEF Publish, TypeOK, Part
  <2>2. mark' \in [head : Cp \cup {None}, dirty : BOOLEAN]
    <3>1. mark' = [mark EXCEPT !.dirty = TRUE] /\ mark \in [head : Cp \cup {None}, dirty : BOOLEAN]
      BY <1>2, Zenon DEF Publish, TypeOK
    <3>2. QED
      BY <3>1, Zenon
  <2>3. published' \subseteq Part /\ liveTree' \in Part
    BY <1>2, <2>1, Zenon DEF Publish, TypeOK
  <2>4. stale' \subseteq Proc
    BY <1>2, TouchType, Zenon DEF Publish
  <2>5. QED
    BY <1>2, <2>1, <2>2, <2>3, <2>4, SMTT(60) DEF Publish, TypeOK, catalog, counts
<1>3. ASSUME UpdateWorkspaceSettings PROVE TypeOK'
  BY <1>3, TouchType, Zenon DEF UpdateWorkspaceSettings, TypeOK, store, counts, ghosts, catalog, live
<1>4. ASSUME LockExpires PROVE TypeOK'
  BY <1>4, TouchType, SMTT(60) DEF LockExpires, TypeOK, counts, ghosts, catalog, live
<1>5. QED
  BY <1>1, <1>2, <1>3, <1>4, Zenon

LEMMA LockType ==
    ASSUME TypeOK, NEW p \in Proc,
           Release(p) \/ Heartbeat(p) \/ Fail(p) \/ Crash(p)
    PROVE  TypeOK'
<1>1. CASE Release(p)
  <2>1. stale' \subseteq Proc
    BY <1>1, Zenon DEF Release, TypeOK
  <2>2. QED
    BY <1>1, <2>1, NoOpType, Zenon DEF Release, TypeOK, Goto, Label, catalog, live, counts, ghosts
<1>2. CASE Heartbeat(p)
  BY <1>2, SMTT(60) DEF Heartbeat, TypeOK, store, catalog, live, counts, ghosts
<1>3. CASE Fail(p)
  BY <1>3, SMTT(60) DEF Fail, Goto, Label, TypeOK, store, catalog, live, ghosts
<1>4. CASE Crash(p)
  BY <1>4, NoOpType, SMTT(60) DEF Crash, Goto, Label, TypeOK, catalog, live, ghosts
<1>5. QED
  BY <1>1, <1>2, <1>3, <1>4, Zenon

LEMMA SaveType ==
    ASSUME TypeOK, NEW p \in Proc, Save(p)
    PROVE  TypeOK'
<1>0. op[p] \in Op
  BY Zenon DEF TypeOK
<1>1. ASSUME NEW c \in Cp, SaveStart(p, c) PROVE TypeOK'
  <2>1. [NoOp EXCEPT !.kind = "save", !.name = c, !.gen = generation] \in Op
    BY NoOpType, Zenon DEF Op, AllKinds, TypeOK
  <2>2. QED
    BY <1>1, <2>1, LocalType, Zenon DEF SaveStart, Label
<1>2. CASE CaptureMeta(p)
  <2>1. head # None => [op[p] EXCEPT !.head = head] \in Op
    BY <1>0, Zenon DEF Op, TypeOK
  <2>2. QED
    BY <1>2, <2>1, LocalType, ReturnType, Zenon DEF CaptureMeta, Label
<1>3. CASE CaptureRoot(p)
  <2>1. [op[p] EXCEPT !.changes = changes, !.todo = File] \in Op
    BY <1>0, Zenon DEF Op, TypeOK
  <2>2. QED
    BY <1>3, <2>1, LocalType, ReturnType, Zenon DEF CaptureRoot, Label
<1>4. ASSUME NEW f \in File, CaptureFile(p, f) PROVE TypeOK'
  <2>1. [op[p] EXCEPT !.tree[f] = root.files[f], !.todo = @ \ {f}] \in Op
    <3>1. op[p].todo \ {f} \in SUBSET (File \cup Batch)
      BY <1>0, Zenon DEF Op
    <3>2. [op[p].tree EXCEPT ![f] = root.files[f]] \in Part
      BY <1>0, Zenon DEF Op, Part, TypeOK
    <3>3. QED
      BY <1>0, <3>1, <3>2, Zenon DEF Op
  <2>2. QED
    BY <1>4, <2>1, LocalType, Zenon DEF CaptureFile, Label
<1>5. CASE CaptureEnd(p)
  BY <1>5, <1>0, LocalType, Zenon DEF CaptureEnd, Label
<1>6. CASE SaveHead(p)
  BY <1>6, <1>0, LocalType, ReturnType, Zenon DEF SaveHead, Label
<1>7. CASE SaveRead(p)
  <2>1. [op EXCEPT ![p].refs = refCount] \in [Proc -> Op]
    BY RefsType, Zenon DEF TypeOK
  <2>2. SaveWatch \in SUBSET Key
    BY Zenon DEF SaveWatch, Key
  <2>3. CASE Return(p)
    BY <2>3, ReturnType, Zenon
  <2>4. CASE ~Return(p)
    <3>1. pc' \in [Proc -> Label] /\ watch' \in [Proc -> SUBSET Key] /\ stale' \subseteq Proc
      BY <1>7, <2>2, <2>4, SMTT(60) DEF SaveRead, TypeOK, Goto, Label
    <3>2. QED
      BY <1>7, <2>1, <2>4, <3>1, Zenon DEF SaveRead, TypeOK, store, catalog, live, counts, ghosts
  <2>5. QED
    BY <2>3, <2>4, Zenon
<1>8. CASE SaveExec(p)
  <2>1. CASE p \in stale
    BY <2>1, <1>8, ReturnType, Zenon DEF SaveExec
  <2>2. CASE p \notin stale
    <3>1. op[p].name \in Cp /\ op[p].tree \in Part /\ op[p].refs \in [Blob -> Nat]
      BY <1>0, Zenon DEF Op
    <3>a. /\ savepoint' = [savepoint EXCEPT ![op[p].name] = op[p].tree]
          /\ refCount' = [b \in Blob |-> IF b \in manifestBlobRefs(op[p].tree)
                                          THEN Increment(op[p].refs[b]) ELSE refCount[b]]
          /\ head' = op[p].name /\ used' = used \cup {op[p].name}
      BY <1>8, <2>2, Zenon DEF SaveExec
    <3>b. /\ savepoint \in [Cp -> Part \cup {None}] /\ refCount \in [Blob -> Nat]
          /\ used \subseteq Cp
      BY Zenon DEF TypeOK
    <3>2. savepoint' \in [Cp -> Part \cup {None}] /\ refCount' \in [Blob -> Nat]
      BY <3>a, <3>b, <3>1, SMTT(60) DEF Increment
    <3>3. stale' \subseteq Proc
      BY <1>8, <2>2, TouchType, Zenon DEF SaveExec
    <3>4. head' \in Cp /\ used' \subseteq Cp
      BY <3>a, <3>b, <3>1, Zenon
    <3>4a. mark' \in [head : Cp \cup {None}, dirty : BOOLEAN]
      BY <1>8, <2>2, <3>1, MarkType, Zenon DEF SaveExec
    <3>5. pc' \in [Proc -> Label] /\ watch' \in [Proc -> SUBSET Key]
      BY <1>8, <2>2, ZenonT(60) DEF SaveExec, TypeOK, Goto, Label
    <3>6. QED
      BY <1>8, <2>2, <3>2, <3>3, <3>4, <3>5, <3>4a, Zenon DEF SaveExec, TypeOK, counts
  <2>3. QED
    BY <2>1, <2>2, Zenon
<1>9. QED
  BY <1>1, <1>2, <1>3, <1>4, <1>5, <1>6, <1>7, <1>8, Zenon DEF Save

LEMMA RestoreType ==
    ASSUME TypeOK, NEW p \in Proc, Restore(p)
    PROVE  TypeOK'
<1>0. op[p] \in Op
  BY Zenon DEF TypeOK
<1>1. ASSUME NEW c \in Cp, RestoreStart(p, c) PROVE TypeOK'
  <2>1. [NoOp EXCEPT !.kind = "restore", !.cp = c, !.m = savepoint[c]] \in Op
    BY <1>1, NoOpType, Zenon DEF RestoreStart, Op, AllKinds, TypeOK
  <2>2. restores' \in [started : Nat, retried : Nat]
    BY <1>1, SMTT(60) DEF RestoreStart, StartOrRetry, TypeOK
  <2>3. op' \in [Proc -> Op] /\ pc' \in [Proc -> Label]
    BY <1>1, <2>1, Zenon DEF RestoreStart, TypeOK, Goto, Label
  <2>4. QED
    BY <1>1, <2>2, <2>3, Zenon DEF RestoreStart, TypeOK, store, catalog, live, ghosts
<1>2. CASE RestoreLock(p)
  <2>1. CASE Return(p)
    BY <2>1, ReturnType, Zenon
  <2>2. CASE AcquireImportLock(p, "readGen")
    <3>1. pc' \in [Proc -> Label] /\ stale' \subseteq Proc
      BY <2>2, TouchType, Zenon DEF AcquireImportLock, TypeOK, Goto, Label
    <3>2. QED
      BY <2>2, <3>1, Zenon DEF AcquireImportLock, TypeOK, catalog, live, counts, ghosts
  <2>3. QED
    BY <1>2, <2>1, <2>2, Zenon DEF RestoreLock
<1>3. CASE RestoreReadGeneration(p)
  <2>1. PICK c \in Cp, r \in BOOLEAN, g \in Generation :
          op' = [op EXCEPT ![p].recovering = r, ![p].name = c, ![p].gen = g]
    <3>1. [phase |-> IF generation.phase = "restoring" THEN "restoring" ELSE "fencing",
           token |-> nextToken] \in Generation
      BY Zenon DEF TypeOK, Generation, Phase
    <3>2. QED
      BY CheckpointsAssumption, <1>3, <3>1, Zenon DEF RestoreReadGeneration
  <2>2. [op[p] EXCEPT !.recovering = r, !.name = c, !.gen = g] \in Op
    BY <1>0, Zenon DEF Op
  <2>3. op' = [op EXCEPT ![p] = [op[p] EXCEPT !.recovering = r, !.name = c, !.gen = g]]
    BY <2>1, Zenon DEF TypeOK
  <2>4. op' \in [Proc -> Op]
    BY <2>2, <2>3, Zenon DEF TypeOK
  <2>5. pc' \in [Proc -> Label] /\ nextToken' \in Nat
    BY <1>3, SMTT(60) DEF RestoreReadGeneration, TypeOK, Goto, Label
  <2>6. QED
    BY <1>3, <2>4, <2>5, Zenon DEF RestoreReadGeneration, TypeOK, store, catalog, live, ghosts
<1>4. CASE RestoreFence(p)
  <2>1. pc' \in [Proc -> Label] /\ stale' \subseteq Proc
    BY <1>4, TouchType, Zenon DEF RestoreFence, TypeOK, Goto, Label
  <2>2. generation' \in Generation
    BY <1>4, <1>0, Zenon DEF RestoreFence, Op
  <2>3. QED
    BY <1>4, <2>1, <2>2, Zenon DEF RestoreFence, TypeOK, catalog, live, counts, ghosts
<1>5. CASE LostCheck(p, "lostCheck", "activity") \/ LostCheck(p, "lostCheck2", "complete")
  BY <1>5, <1>0, LocalType, Zenon DEF LostCheck, Label
<1>6. CASE RestoreActivity(p)
  <2>1. pc' \in [Proc -> Label] /\ before' \in Cp \cup {None}
    BY <1>6, Zenon DEF RestoreActivity, TypeOK, Goto, Label
  <2>2. stale' \subseteq Proc
    BY <1>6, TouchType, Zenon DEF RestoreActivity, TypeOK
  <2>3. QED
    BY <1>6, <2>1, <2>2, Zenon DEF RestoreActivity, TypeOK, catalog, live, counts, ghosts
<1>7. CASE RestoreMark(p)
  <2>1. generation' \in Generation
    BY <1>7, <1>0, Zenon DEF RestoreMark, Op, Generation, Phase
  <2>2. [op[p] EXCEPT !.gen = generation'] \in Op
    BY <1>0, <2>1, Zenon DEF Op
  <2>3. op' \in [Proc -> Op] /\ pc' \in [Proc -> Label] /\ stale' \subseteq Proc
    BY <1>7, <2>2, TouchType, Zenon DEF RestoreMark, TypeOK, Goto, Label
  <2>4. QED
    BY <1>7, <2>1, <2>3, Zenon DEF RestoreMark, TypeOK, catalog, live, counts, ghosts
<1>8. CASE MoveWorkspaceHead(p)
  <2>1. CASE head = None
    BY <1>8, <2>1, ReturnType, Zenon DEF MoveWorkspaceHead
  <2>2. CASE head # None
    <3>1. [op[p] EXCEPT !.todo = File] \in Op
      BY <1>0, Zenon DEF Op
    <3>2. op' \in [Proc -> Op] /\ pc' \in [Proc -> Label] /\ stale' \subseteq Proc
      BY <1>8, <2>2, <3>1, TouchType, SMTT(60) DEF MoveWorkspaceHead, TypeOK, Goto, Label
    <3>3. head' \in Cp
      BY <1>8, <2>2, <1>0, Zenon DEF MoveWorkspaceHead, Op
    <3>4. QED
      BY <1>8, <2>2, <3>2, <3>3, Zenon DEF MoveWorkspaceHead, TypeOK, catalog, live, counts, ghosts
  <2>3. QED
    BY <2>1, <2>2, Zenon
<1>9. ASSUME NEW f \in File, ResetFile(p, f) \/ WriteNode(p, f) PROVE TypeOK'
  <2>1. [op[p] EXCEPT !.todo = @ \ {f}] \in Op
    BY <1>0, TodoType, Zenon
  <2>2. op' \in [Proc -> Op]
    <3>1. op' = [op EXCEPT ![p] = [op[p] EXCEPT !.todo = @ \ {f}]]
      BY <1>9, Zenon DEF ResetFile, WriteNode, TypeOK
    <3>2. QED
      BY <2>1, <3>1, Zenon DEF TypeOK
  <2>3. root' \in [exists : BOOLEAN, files : Part]
    <3>1. [root.files EXCEPT ![f] = None] \in Part
      BY Zenon DEF TypeOK, Part
    <3>2. [root.files EXCEPT ![f] = op[p].m[f]] \in Part
      BY <1>0, Zenon DEF TypeOK, Part, Op
    <3>3. root.exists \in BOOLEAN
      BY Zenon DEF TypeOK
    <3>4. ASSUME NEW e \in BOOLEAN, NEW t \in Part
          PROVE  [exists |-> e, files |-> t] \in [exists : BOOLEAN, files : Part]
      BY <3>4, Zenon
    <3>5. CASE ResetFile(p, f)
      <4>1. PICK e \in {root.exists, FALSE} : root' = [exists |-> e, files |-> [root.files EXCEPT ![f] = None]]
        BY <3>5, Zenon DEF ResetFile
      <4>2. e \in BOOLEAN
        BY <3>3, Zenon
      <4>3. QED
        BY <3>1, <3>4, <4>1, <4>2, Zenon
    <3>6. CASE WriteNode(p, f)
      BY <3>6, <3>2, <3>4, Zenon DEF WriteNode
    <3>7. QED
      BY <1>9, <3>5, <3>6, Zenon
  <2>4. QED
    BY <1>9, <2>2, <2>3, Zenon DEF ResetFile, WriteNode, TypeOK, catalog, counts, ghosts
<1>10. CASE ResetDone(p)
  <2>1. [op[p] EXCEPT !.todo = File] \in Op
    BY <1>0, Zenon DEF Op
  <2>2. op' \in [Proc -> Op] /\ pc' \in [Proc -> Label]
    BY <1>10, <2>1, Zenon DEF ResetDone, TypeOK, Goto, Label
  <2>3. root' \in [exists : BOOLEAN, files : Part]
    BY <1>10, Zenon DEF ResetDone, TypeOK
  <2>4. mark' \in [head : Cp \cup {None}, dirty : BOOLEAN]
    BY <1>10, MarkType, Zenon DEF ResetDone
  <2>5. QED
    BY <1>10, <2>2, <2>3, <2>4, Zenon DEF ResetDone, TypeOK, catalog, counts, ghosts
<1>11. CASE MarkWorkspaceRootClean(p)
  <2>1. op[p].cp \in Cp
    BY <1>0, Zenon DEF Op
  <2>2. mark' \in [head : Cp \cup {None}, dirty : BOOLEAN]
    BY <1>11, <2>1, MarkType, Zenon DEF MarkWorkspaceRootClean
  <2>3. pc' \in [Proc -> Label]
    BY <1>11, Zenon DEF MarkWorkspaceRootClean, TypeOK, Goto, Label
  <2>4. QED
    BY <1>11, <2>2, <2>3, Zenon DEF MarkWorkspaceRootClean, TypeOK, catalog, counts, ghosts
<1>12. CASE CompleteRestore(p)
  <2>1. CASE Return(p)
    BY <2>1, ReturnType, Zenon
  <2>2. CASE ~Return(p)
    <3>1. generation' \in Generation
      BY <1>12, <2>2, <1>0, SMTT(60) DEF CompleteRestore, Op, Generation, Phase
    <3>2. pc' \in [Proc -> Label] /\ stale' \subseteq Proc /\ changes' \in Nat /\ liveTree' \in Part
      BY <1>12, <2>2, TouchType, SMTT(60) DEF CompleteRestore, TypeOK, Goto, Label
    <3>3. QED
      BY <1>12, <2>2, <3>1, <3>2, Zenon DEF CompleteRestore, TypeOK, catalog, counts
  <2>3. QED
    BY <2>1, <2>2, Zenon
<1>13. QED
  BY <1>1, <1>2, <1>3, <1>4, <1>5, <1>6, <1>7, <1>8, <1>9, <1>10, <1>11, <1>12, Zenon DEF Restore

LEMMA DeleteType ==
    ASSUME TypeOK, NEW p \in Proc, Delete(p)
    PROVE  TypeOK'
<1>0. op[p] \in Op
  BY Zenon DEF TypeOK
<1>1. ASSUME NEW c \in Cp, DeleteCheckpointStart(p, c) PROVE TypeOK'
  <2>1. [NoOp EXCEPT !.kind = "deleteCp", !.cp = c, !.m = savepoint[c]] \in Op
    BY <1>1, NoOpType, Zenon DEF DeleteCheckpointStart, Op, AllKinds, TypeOK
  <2>2. QED
    BY <1>1, <2>1, LocalType, Zenon DEF DeleteCheckpointStart, Label
<1>2. CASE DeleteCheckpointRead(p)
  <2>1. CASE Return(p)
    BY <2>1, ReturnType, Zenon
  <2>2. CASE ~Return(p)
    <3>1. op[p].cp \in Cp /\ manifestBlobRefs(op[p].m) \subseteq Blob
      BY <1>0, ZenonT(60) DEF Op, Part, manifestBlobRefs
    <3>2. DeleteWatch(p) \subseteq Key
      BY <3>1, Zenon DEF DeleteWatch, Key
    <3>3. pc' \in [Proc -> Label] /\ watch' \in [Proc -> SUBSET Key] /\ stale' \subseteq Proc
      BY <1>2, <2>2, <3>2, SMTT(60) DEF DeleteCheckpointRead, TypeOK, Goto, Label
    <3>4. op' \in [Proc -> Op]
      BY <1>2, <2>2, RefsType, SMTT(60) DEF DeleteCheckpointRead, TypeOK
    <3>5. QED
      BY <1>2, <2>2, <3>3, <3>4, Zenon
      DEF DeleteCheckpointRead, TypeOK, store, catalog, live, counts, ghosts
  <2>3. QED
    BY <2>1, <2>2, Zenon
<1>3. CASE DeleteCheckpointExec(p)
  <2>1. CASE p \in stale
    BY <1>3, <2>1, ReturnType, Zenon DEF DeleteCheckpointExec
  <2>2. CASE p \notin stale
    <3>1. op[p].cp \in Cp /\ op[p].refs \in [Blob -> Nat]
      BY <1>0, Zenon DEF Op
    <3>a. /\ savepoint' = [savepoint EXCEPT ![op[p].cp] = None]
          /\ refCount' = [b \in Blob |-> IF b \in manifestBlobRefs(op[p].m)
                                          THEN Decrement(op[p].refs[b]) ELSE refCount[b]]
          /\ watch' = [watch EXCEPT ![p] = {}]
          /\ pc' = [pc EXCEPT ![p] = "release"]
      BY <1>3, <2>2, Zenon DEF DeleteCheckpointExec, Goto
    <3>b. /\ savepoint \in [Cp -> Part \cup {None}] /\ refCount \in [Blob -> Nat]
          /\ watch \in [Proc -> SUBSET Key] /\ pc \in [Proc -> Label]
      BY Zenon DEF TypeOK
    <3>2. savepoint' \in [Cp -> Part \cup {None}] /\ refCount' \in [Blob -> Nat]
      BY <3>a, <3>b, <3>1, SMTT(60) DEF Decrement
    <3>3. pc' \in [Proc -> Label] /\ watch' \in [Proc -> SUBSET Key]
      BY <3>a, <3>b, Zenon DEF Label
    <3>4. stale' \subseteq Proc
      BY <1>3, <2>2, TouchType, Zenon DEF DeleteCheckpointExec
    <3>5. QED
      BY <1>3, <2>2, <3>2, <3>3, <3>4, Zenon DEF DeleteCheckpointExec, TypeOK, live, counts, ghosts
  <2>3. QED
    BY <2>1, <2>2, Zenon
<1>4. CASE DeleteWorkspaceStart(p)
  <2>1. [NoOp EXCEPT !.kind = "deleteWs", !.todo = Batch] \in Op
    BY NoOpType, Zenon DEF Op, AllKinds
  <2>2. QED
    BY <1>4, <2>1, LocalType, Zenon DEF DeleteWorkspaceStart, Label
<1>5. CASE DeleteWorkspaceLock(p)
  <2>1. CASE Return(p)
    BY <2>1, ReturnType, Zenon
  <2>2. CASE AcquireImportLock(p, "dwFence")
    <3>1. pc' \in [Proc -> Label] /\ stale' \subseteq Proc
      BY <2>2, TouchType, Zenon DEF AcquireImportLock, TypeOK, Goto, Label
    <3>2. QED
      BY <2>2, <3>1, Zenon DEF AcquireImportLock, TypeOK, catalog, live, counts, ghosts
  <2>3. QED
    BY <1>5, <2>1, <2>2, Zenon DEF DeleteWorkspaceLock
<1>6. CASE DeleteWorkspaceFence(p)
  <2>1. CASE head = None
    BY <1>6, <2>1, ReturnType, Zenon DEF DeleteWorkspaceFence
  <2>2. CASE head # None
    <3>1. pc' \in [Proc -> Label] /\ stale' \subseteq Proc /\ generation' \in Generation
      BY <1>6, <2>2, TouchType, SMTT(60) DEF DeleteWorkspaceFence, TypeOK, Goto, Label, Generation, Phase
    <3>2. QED
      BY <1>6, <2>2, <3>1, Zenon DEF DeleteWorkspaceFence, TypeOK, catalog, live, counts
  <2>3. QED
    BY <2>1, <2>2, Zenon
<1>7. ASSUME NEW k \in Batch, DeleteWorkspaceBatch(p, k) PROVE TypeOK'
  <2>1. op' \in [Proc -> Op]
    <3>1. op' = [op EXCEPT ![p] = [op[p] EXCEPT !.todo = @ \ {k}]]
      BY <1>7, Zenon DEF DeleteWorkspaceBatch, TypeOK
    <3>2. QED
      BY <1>0, <3>1, TodoType, Zenon DEF TypeOK
  <2>2. savepoint' \in [Cp -> Part \cup {None}]
    BY <1>7, Zenon DEF DeleteWorkspaceBatch, TypeOK
  <2>3. root' \in [exists : BOOLEAN, files : Part]
    BY <1>7, Zenon DEF DeleteWorkspaceBatch, TypeOK, NoTree, Part
  <2>4. /\ mark' \in [head : Cp \cup {None}, dirty : BOOLEAN]
        /\ changes' \in Nat
        /\ before' \in Cp \cup {None}
        /\ refCount' \in [Blob -> Nat]
    <3>1. CASE k = <<"journal">>
      <4>1. mark' \in [head : Cp \cup {None}, dirty : BOOLEAN]
        BY <1>7, <3>1, MarkType, Zenon DEF DeleteWorkspaceBatch
      <4>2. QED
        BY <1>7, <3>1, <4>1, SMTT(60) DEF DeleteWorkspaceBatch, TypeOK
    <3>2. CASE k # <<"journal">>
      BY <1>7, <3>2, Zenon DEF DeleteWorkspaceBatch, TypeOK
    <3>3. QED
      BY <3>1, <3>2, Zenon
  <2>5. stale' \subseteq Proc
    BY <1>7, TouchType, Zenon DEF DeleteWorkspaceBatch
  <2>6. QED
    BY <1>7, <2>1, <2>2, <2>3, <2>4, <2>5, Zenon DEF DeleteWorkspaceBatch, TypeOK, counts, ghosts
<1>8. CASE DeleteWorkspaceRetire(p)
  <2>1. pc' \in [Proc -> Label] /\ stale' \subseteq Proc
    BY <1>8, TouchType, Zenon DEF DeleteWorkspaceRetire, TypeOK, Goto, Label
  <2>2. QED
    BY <1>8, <2>1, Zenon DEF DeleteWorkspaceRetire, TypeOK, catalog, live, counts, ghosts
<1>9. QED
  BY <1>1, <1>2, <1>3, <1>4, <1>5, <1>6, <1>7, <1>8, Zenon DEF Delete

LEMMA InitType ==
    ASSUME Init
    PROVE  TypeOK
<1>1. PICK t \in Tree :
         /\ savepoint = [c \in Cp |-> IF c = Initial THEN t ELSE None]
         /\ refCount = [b \in Blob |-> IF b \in manifestBlobRefs(t) THEN 1 ELSE 0]
         /\ root = [exists |-> TRUE, files |-> t]
         /\ published = {t}
         /\ liveTree = t
  BY Zenon DEF Init
<1>2. t \in Part
  BY Zenon DEF Tree, Part
<1>3. mark \in [head : Cp \cup {None}, dirty : BOOLEAN]
  BY CheckpointsAssumption, MarkType, Zenon DEF Init
<1>4. op \in [Proc -> Op] /\ pc \in [Proc -> Label] /\ generation \in Generation
  BY NoOpType, Zenon DEF Init, Label, Generation, Phase
<1>5. QED
  BY CheckpointsAssumption, <1>1, <1>2, <1>3, <1>4, Zenon DEF Init, TypeOK

LEMMA TypeStep ==
    ASSUME TypeOK, [Next]_vars
    PROVE  TypeOK'
<1>1. CASE Next
  BY <1>1, ClientType, LockType, SaveType, RestoreType, DeleteType, Zenon DEF Next
<1>2. CASE UNCHANGED vars
  BY <1>2, Zenon DEF vars, store, catalog, live, counts, ghosts, TypeOK
<1>3. QED
  BY <1>1, <1>2, Zenon

(* Every key and every local variable has its type in every reachable      *)
(* state, for any number of processes, files, blobs and checkpoints.       *)
THEOREM TypeCorrect == Spec => []TypeOK
<1>1. Init => TypeOK
  BY InitType, Zenon
<1>2. TypeOK /\ [Next]_vars => TypeOK'
  BY TypeStep, Zenon
<1>3. QED
  BY <1>1, <1>2, PTL DEF Spec

-----------------------------------------------------------------------------
(* The import lock and the fence, for every number of administrators,      *)
(* clients, files and checkpoints, provided no operation outlives its      *)
(* lock: one operation at a time replaces the root, and a deleted          *)
(* workspace stays deleted.                                                *)

(* The steps of the others: clients and Redis.                             *)
Outside ==
    \/ \E c \in Client : Open(c)
    \/ \E c \in Client, f \in File, b \in Blob : Publish(c, f, b)
    \/ UpdateWorkspaceSettings
    \/ LockExpires

LEMMA Distinct == None \notin Cp /\ None \notin Proc /\ Orphan \notin Proc /\ Initial \in Cp
BY CheckpointsAssumption, Zenon

LEMMA TreeIsNotNone == None \notin Part
BY CheckpointsAssumption, Zenon DEF Part

-----------------------------------------------------------------------------
(* An operation begins: it only sets its own control point and variables.  *)
Begin(p) == \/ \E c \in Cp : SaveStart(p, c) \/ RestoreStart(p, c) \/ DeleteCheckpointStart(p, c)
            \/ DeleteWorkspaceStart(p)

Begun(p, l, k) ==
    /\ pc[p] = "idle" /\ pc' = [pc EXCEPT ![p] = l]
    /\ \E o \in Op : o.kind = k /\ op' = [op EXCEPT ![p] = o]
    /\ UNCHANGED <<store, watch, stale, lost, ghosts>>

LEMMA BeginForm ==
    ASSUME TypeOK, NEW p \in Proc, Begin(p)
    PROVE  \/ Begun(p, "capMeta", "save")
           \/ Begun(p, "lock", "restore") \/ Begun(p, "lock", "deleteWs")
           \/ Begun(p, "dcRead", "deleteCp")
<1>1. ASSUME NEW c \in Cp, SaveStart(p, c) PROVE Begun(p, "capMeta", "save")
  <2>1. [NoOp EXCEPT !.kind = "save", !.name = c, !.gen = generation] \in Op
    BY NoOpType, Zenon DEF Op, AllKinds, TypeOK
  <2>2. [NoOp EXCEPT !.kind = "save", !.name = c, !.gen = generation].kind = "save"
    BY Zenon DEF NoOp
  <2>3. QED
    BY <1>1, <2>1, <2>2, Zenon DEF SaveStart, Local, Goto, Begun
<1>2. ASSUME NEW c \in Cp, RestoreStart(p, c) PROVE Begun(p, "lock", "restore")
  <2>1. [NoOp EXCEPT !.kind = "restore", !.cp = c, !.m = savepoint[c]] \in Op
    BY <1>2, NoOpType, Zenon DEF RestoreStart, Op, AllKinds, TypeOK
  <2>2. [NoOp EXCEPT !.kind = "restore", !.cp = c, !.m = savepoint[c]].kind = "restore"
    BY Zenon DEF NoOp
  <2>3. QED
    BY <1>2, <2>1, <2>2, Zenon DEF RestoreStart, Goto, Begun
<1>3. ASSUME NEW c \in Cp, DeleteCheckpointStart(p, c) PROVE Begun(p, "dcRead", "deleteCp")
  <2>1. [NoOp EXCEPT !.kind = "deleteCp", !.cp = c, !.m = savepoint[c]] \in Op
    BY <1>3, NoOpType, Zenon DEF DeleteCheckpointStart, Op, AllKinds, TypeOK
  <2>2. [NoOp EXCEPT !.kind = "deleteCp", !.cp = c, !.m = savepoint[c]].kind = "deleteCp"
    BY Zenon DEF NoOp
  <2>3. QED
    BY <1>3, <2>1, <2>2, Zenon DEF DeleteCheckpointStart, Local, Goto, Begun
<1>4. CASE DeleteWorkspaceStart(p)
  <2>1. [NoOp EXCEPT !.kind = "deleteWs", !.todo = Batch] \in Op
    BY NoOpType, Zenon DEF Op, AllKinds
  <2>2. [NoOp EXCEPT !.kind = "deleteWs", !.todo = Batch].kind = "deleteWs"
    BY Zenon DEF NoOp
  <2>3. QED
    BY <1>4, <2>1, <2>2, Zenon DEF DeleteWorkspaceStart, Local, Goto, Begun
<1>5. QED
  BY <1>1, <1>2, <1>3, <1>4, Zenon DEF Begin

(* The other steps of a save, a restore or a deletion.                     *)
SaveOn(p) == CaptureMeta(p) \/ CaptureRoot(p) \/ (\E f \in File : CaptureFile(p, f)) \/ CaptureEnd(p)
             \/ SaveHead(p) \/ SaveRead(p) \/ SaveExec(p)

RestoreOn(p) ==
    \/ RestoreLock(p) \/ RestoreReadGeneration(p) \/ RestoreFence(p)
    \/ LostCheck(p, "lostCheck", "activity") \/ RestoreActivity(p) \/ RestoreMark(p)
    \/ MoveWorkspaceHead(p) \/ (\E f \in File : ResetFile(p, f)) \/ ResetDone(p)
    \/ (\E f \in File : WriteNode(p, f)) \/ MarkWorkspaceRootClean(p)
    \/ LostCheck(p, "lostCheck2", "complete") \/ CompleteRestore(p)

DeleteOn(p) ==
    \/ DeleteCheckpointRead(p) \/ DeleteCheckpointExec(p)
    \/ DeleteWorkspaceLock(p) \/ DeleteWorkspaceFence(p)
    \/ (\E k \in Batch : DeleteWorkspaceBatch(p, k)) \/ DeleteWorkspaceRetire(p)

Stop(p) == Release(p) \/ Heartbeat(p) \/ Fail(p) \/ Crash(p)

Act(p) == Begin(p) \/ SaveOn(p) \/ RestoreOn(p) \/ DeleteOn(p) \/ Stop(p)

LEMMA NextForm ==
    ASSUME Next
    PROVE  Outside \/ \E p \in Proc : Act(p)
BY Zenon DEF Next, Outside, Act, Begin, SaveOn, RestoreOn, DeleteOn, Stop, Save, Restore, Delete

LEMMA OthersKept ==
    ASSUME TypeOK, NEW p \in Proc, NEW q \in Proc, q # p, Act(p)
    PROVE  pc'[q] = pc[q] /\ op'[q] = op[q] /\ watch'[q] = watch[q]
<1>0. pc \in [Proc -> Label] /\ op \in [Proc -> Op] /\ watch \in [Proc -> SUBSET Key]
  BY Zenon DEF TypeOK
<1>1. CASE Begin(p)
  BY <1>1, BeginForm, SMTT(60) DEF Begun, TypeOK
<1>2. CASE SaveOn(p)
  BY Zenon, <1>0, <1>2 DEF SaveOn, CaptureMeta, CaptureRoot, CaptureFile, CaptureEnd, SaveHead, SaveRead,
     SaveExec, Local, Return, Goto
<1>3. CASE RestoreOn(p)
  BY Zenon, <1>0, <1>3 DEF RestoreOn, RestoreLock, RestoreReadGeneration, RestoreFence, LostCheck,
     RestoreActivity, RestoreMark, MoveWorkspaceHead, ResetFile, ResetDone, WriteNode,
     MarkWorkspaceRootClean, CompleteRestore, AcquireImportLock, Local, Return, Goto
<1>4. CASE DeleteOn(p)
  BY Zenon, <1>0, <1>4 DEF DeleteOn, DeleteCheckpointRead, DeleteCheckpointExec, DeleteWorkspaceLock,
     DeleteWorkspaceFence, DeleteWorkspaceBatch, DeleteWorkspaceRetire, AcquireImportLock,
     Local, Return, Goto
<1>5. CASE Stop(p)
  BY <1>0, <1>5, Zenon DEF Stop, Release, Heartbeat, Fail, Crash, Goto
<1>6. QED
  BY <1>1, <1>2, <1>3, <1>4, <1>5, Zenon DEF Act

(* Which local variables the steps of an operation leave alone.            *)
Captured(o, f, b) == [o EXCEPT !.tree[f] = b, !.todo = @ \ {f}]

LEMMA SaveFields ==
    ASSUME TypeOK, NEW p \in Proc, SaveOn(p)
    PROVE  /\ op'[p].kind = op[p].kind /\ op'[p].gen = op[p].gen
           /\ op'[p].recovering = op[p].recovering /\ op'[p].name = op[p].name
<1> DEFINE Kept == /\ op'[p].kind = op[p].kind /\ op'[p].gen = op[p].gen
                   /\ op'[p].recovering = op[p].recovering /\ op'[p].name = op[p].name
<1>0. op \in [Proc -> Op] /\ op[p] \in Op
  BY Zenon DEF TypeOK
<1>1. CASE CaptureMeta(p)
  BY <1>0, <1>1, SMTT(60) DEF CaptureMeta, Local, Return, Op
<1>2. CASE CaptureRoot(p)
  <2>1. op'[p] = op[p] \/ op'[p] = [op[p] EXCEPT !.changes = changes, !.todo = File]
    BY <1>0, <1>2, Zenon DEF CaptureRoot, Local, Return
  <2>2. QED
    BY <1>0, <2>1, Zenon DEF Op
<1>3. ASSUME NEW f \in File, CaptureFile(p, f) PROVE Kept
  <2>1. op'[p] = Captured(op[p], f, root.files[f])
    BY <1>0, <1>3, Zenon DEF CaptureFile, Local, Captured
  <2>2. root.files[f] \in Blob \cup {None}
    BY Zenon DEF TypeOK, Part
  <2>3. QED
    BY <1>0, <2>1, <2>2, Zenon DEF Captured, Op
<1>4. CASE SaveRead(p)
  BY <1>0, <1>4, SMTT(60) DEF SaveRead, Return, Local, Op
<1>5. CASE CaptureEnd(p) \/ SaveHead(p) \/ SaveExec(p)
  BY <1>0, <1>5, Zenon DEF CaptureEnd, SaveHead, SaveExec, Local, Return
<1>6. QED
  BY <1>1, <1>2, <1>3, <1>4, <1>5, Zenon DEF SaveOn

LEMMA RestoreFields ==
    ASSUME TypeOK, NEW p \in Proc, RestoreOn(p)
    PROVE  /\ op'[p].kind = op[p].kind
           /\ ~RestoreReadGeneration(p) => op'[p].recovering = op[p].recovering
           /\ ~RestoreReadGeneration(p) /\ ~RestoreMark(p) => op'[p].gen = op[p].gen
<1> DEFINE Kept == /\ op'[p].kind = op[p].kind /\ op'[p].gen = op[p].gen
                   /\ op'[p].recovering = op[p].recovering
<1>0. op \in [Proc -> Op] /\ op[p] \in Op
  BY Zenon DEF TypeOK
<1>1. CASE RestoreLock(p)
  BY <1>0, <1>1, Zenon DEF RestoreLock, Local, Return, AcquireImportLock
<1>2. CASE RestoreReadGeneration(p)
  <2>1. op'[p].kind = op[p].kind
    BY <1>0, <1>2, SMTT(60) DEF RestoreReadGeneration, Op
  <2>2. QED
    BY <1>2, <2>1, Zenon
<1>3. CASE RestoreMark(p)
  <2>1. op'[p].kind = op[p].kind /\ op'[p].recovering = op[p].recovering
    BY <1>0, <1>3, Zenon DEF RestoreMark, Op
  <2>2. QED
    BY <1>3, <2>1, Zenon
<1>4. CASE MoveWorkspaceHead(p)
  BY <1>0, <1>4, Zenon DEF MoveWorkspaceHead, Local, Return, Op
<1>5. ASSUME NEW f \in File, ResetFile(p, f) \/ WriteNode(p, f) PROVE Kept
  BY <1>0, <1>5, SMTT(60) DEF ResetFile, WriteNode, Op
<1>6. CASE ResetDone(p)
  BY <1>0, <1>6, Zenon DEF ResetDone, Op
<1>7. CASE \/ RestoreFence(p) \/ RestoreActivity(p) \/ MarkWorkspaceRootClean(p)
           \/ CompleteRestore(p)
           \/ LostCheck(p, "lostCheck", "activity") \/ LostCheck(p, "lostCheck2", "complete")
  BY Zenon, <1>0, <1>7 DEF RestoreFence, LostCheck, RestoreActivity, MarkWorkspaceRootClean,
     CompleteRestore, Local, Return
<1>8. QED
  BY <1>1, <1>2, <1>3, <1>4, <1>5, <1>6, <1>7, Zenon DEF RestoreOn

LEMMA DeleteFields ==
    ASSUME TypeOK, NEW p \in Proc, DeleteOn(p)
    PROVE  op'[p].kind = op[p].kind /\ op'[p].cp = op[p].cp
<1> DEFINE Kept == op'[p].kind = op[p].kind /\ op'[p].cp = op[p].cp
<1>0. op \in [Proc -> Op] /\ op[p] \in Op
  BY Zenon DEF TypeOK
<1>1. CASE DeleteCheckpointRead(p)
  BY <1>0, <1>1, SMTT(60) DEF DeleteCheckpointRead, Local, Return, Op
<1>2. ASSUME NEW k \in Batch, DeleteWorkspaceBatch(p, k) PROVE Kept
  BY <1>0, <1>2, Zenon DEF DeleteWorkspaceBatch, Op
<1>3. CASE DeleteCheckpointExec(p) \/ DeleteWorkspaceLock(p) \/ DeleteWorkspaceFence(p)
           \/ DeleteWorkspaceRetire(p)
  BY Zenon, <1>0, <1>3 DEF DeleteCheckpointExec, DeleteWorkspaceLock, DeleteWorkspaceFence,
     DeleteWorkspaceRetire, AcquireImportLock, Local, Return
<1>4. QED
  BY <1>1, <1>2, <1>3, Zenon DEF DeleteOn

-----------------------------------------------------------------------------
(* The lock: its holder keeps the key until the operation is over.         *)

(* What a step of p may do to the lock key.                                *)
LEMMA LockKeyStep ==
    ASSUME TypeOK, NEW p \in Proc, Act(p)
    PROVE  importLock' = importLock \/ importLock = p \/ (importLock = None /\ importLock' = p)
<1>1. CASE Begin(p)
  BY <1>1, BeginForm, Zenon DEF Begun, store
<1>2. CASE SaveOn(p)
  BY Zenon, <1>2 DEF SaveOn, CaptureMeta, CaptureRoot, CaptureFile, CaptureEnd, SaveHead, SaveRead,
     SaveExec, Local, Return, store
<1>3. CASE RestoreOn(p)
  BY Zenon, <1>3 DEF RestoreOn, RestoreLock, RestoreReadGeneration, RestoreFence, LostCheck,
     RestoreActivity, RestoreMark, MoveWorkspaceHead, ResetFile, ResetDone, WriteNode,
     MarkWorkspaceRootClean, CompleteRestore, AcquireImportLock, Local, Return, store
<1>4. CASE DeleteOn(p)
  BY Zenon, <1>4 DEF DeleteOn, DeleteCheckpointRead, DeleteCheckpointExec, DeleteWorkspaceLock,
     DeleteWorkspaceFence, DeleteWorkspaceBatch, DeleteWorkspaceRetire, AcquireImportLock,
     Local, Return, store
<1>5. CASE Stop(p)
  BY <1>5, Zenon DEF Stop, Release, Heartbeat, Fail, Crash, store
<1>6. QED
  BY <1>1, <1>2, <1>3, <1>4, <1>5, Zenon DEF Act

LEMMA LostStep ==
    ASSUME LockHeld, ~MayStall, NEW p \in Proc, TypeOK, Act(p)
    PROVE  lost' = {}
<1>0. lost = {} /\ (UnderLock(p) => importLock = p)
  BY Zenon DEF LockHeld
<1>1. CASE Begin(p)
  BY <1>0, <1>1, BeginForm, Zenon DEF Begun
<1>2. CASE SaveOn(p)
  BY Zenon, <1>0, <1>2 DEF SaveOn, CaptureMeta, CaptureRoot, CaptureFile, CaptureEnd, SaveHead, SaveRead,
     SaveExec, Local, Return
<1>3. CASE RestoreOn(p)
  BY Zenon, <1>0, <1>3 DEF RestoreOn, RestoreLock, RestoreReadGeneration, RestoreFence, LostCheck,
     RestoreActivity, RestoreMark, MoveWorkspaceHead, ResetFile, ResetDone, WriteNode,
     MarkWorkspaceRootClean, CompleteRestore, AcquireImportLock, Local, Return
<1>4. CASE DeleteOn(p)
  BY Zenon, <1>0, <1>4 DEF DeleteOn, DeleteCheckpointRead, DeleteCheckpointExec, DeleteWorkspaceLock,
     DeleteWorkspaceFence, DeleteWorkspaceBatch, DeleteWorkspaceRetire, AcquireImportLock,
     Local, Return
<1>5. CASE Stop(p)
  BY <1>0, <1>5, Zenon DEF Stop, Release, Heartbeat, Fail, Crash
<1>6. QED
  BY <1>1, <1>2, <1>3, <1>4, <1>5, Zenon DEF Act

LEMMA SaveLabels ==
    ASSUME TypeOK, NEW p \in Proc, SaveOn(p)
    PROVE  /\ pc[p] \in CaptureLabel
           /\ \/ pc'[p] \in CaptureLabel \cup {"release"}
              \/ pc'[p] = "lostCheck" /\ op[p].kind = "restore"
<1>1. pc \in [Proc -> Label]
  BY Zenon DEF TypeOK
<1>2. QED
  BY Zenon, <1>1 DEF SaveOn, CaptureMeta, CaptureRoot, CaptureFile, CaptureEnd, SaveHead, SaveRead,
     SaveExec, Local, Return, Goto, CaptureLabel

(* The step's own control point still fits its kind, and it still owns the *)
(* lock if it works under it.                                              *)
LEMMA LockOwn ==
    ASSUME TypeOK, LockHeld, NEW p \in Proc, Act(p)
    PROVE  KindOf(p)' /\ (UnderLock(p)' => importLock' = p)
<1>0. /\ pc \in [Proc -> Label] /\ op \in [Proc -> Op]
      /\ KindOf(p) /\ (UnderLock(p) => importLock = p)
  BY Zenon DEF TypeOK, LockHeld
<1>1. CASE Begin(p)
  BY <1>0, <1>1, BeginForm, ZenonT(60) DEF Begun, KindOf, UnderLock, ReplaceLabel, CaptureLabel
<1>2. CASE SaveOn(p)
  <2>1. op'[p].kind = op[p].kind
    BY <1>2, SaveFields, Zenon
  <2>2. importLock' = importLock
    BY Zenon, <1>2 DEF SaveOn, CaptureMeta, CaptureRoot, CaptureFile, CaptureEnd, SaveHead, SaveRead,
     SaveExec, Local, Return, store
  <2>3. /\ pc[p] \in CaptureLabel
        /\ pc'[p] \in CaptureLabel \cup {"release"} \/ (pc'[p] = "lostCheck" /\ op[p].kind = "restore")
    BY <1>2, SaveLabels, Zenon
  <2>4. QED
    BY <1>0, <2>1, <2>2, <2>3, Zenon DEF KindOf, UnderLock, ReplaceLabel, CaptureLabel
<1>3. CASE RestoreOn(p)
  <2>1. op'[p].kind = op[p].kind
    BY <1>3, RestoreFields, Zenon
  <2>2. \/ importLock' = importLock /\ pc[p] # "lock"
        \/ importLock' = p \/ pc'[p] = "release"
    BY Zenon, <1>0, <1>3 DEF RestoreOn, RestoreLock, RestoreReadGeneration, RestoreFence, LostCheck,
     RestoreActivity, RestoreMark, MoveWorkspaceHead, ResetFile, ResetDone, WriteNode,
     MarkWorkspaceRootClean, CompleteRestore, AcquireImportLock, Local, Return, Goto, store
  <2>3. /\ op[p].kind = "restore" /\ pc[p] \notin {"idle", "release"}
        /\ pc'[p] \in {"readGen", "fence", "lostCheck", "activity", "restoring", "release", "capMeta"}
                       \cup ReplaceLabel
    BY Zenon, <1>0, <1>3 DEF RestoreOn, RestoreLock, RestoreReadGeneration, RestoreFence, LostCheck,
     RestoreActivity, RestoreMark, MoveWorkspaceHead, ResetFile, ResetDone, WriteNode,
     MarkWorkspaceRootClean, CompleteRestore, AcquireImportLock, Local, Return, Goto, KindOf,
     ReplaceLabel
  <2>4. QED
    BY <1>0, <2>1, <2>2, <2>3, Zenon DEF KindOf, UnderLock, ReplaceLabel, CaptureLabel
<1>4. CASE DeleteOn(p)
  <2>1. op'[p].kind = op[p].kind
    BY <1>4, DeleteFields, Zenon
  <2>2. \/ importLock' = importLock /\ pc[p] # "lock"
        \/ importLock' = p \/ pc'[p] = "release"
    BY Zenon, <1>0, <1>4 DEF DeleteOn, DeleteCheckpointRead, DeleteCheckpointExec, DeleteWorkspaceLock,
     DeleteWorkspaceFence, DeleteWorkspaceBatch, DeleteWorkspaceRetire, AcquireImportLock,
     Local, Return, Goto, store
  <2>3. \/ pc'[p] = "release"
        \/ pc[p] = "dcRead" /\ pc'[p] = "dcExec"
        \/ op[p].kind = "deleteWs" /\ pc[p] \in {"lock", "dwFence", "dwDelete"}
             /\ pc'[p] \in {"dwFence", "dwDelete"}
    BY Zenon, <1>0, <1>4 DEF DeleteOn, DeleteCheckpointRead, DeleteCheckpointExec, DeleteWorkspaceLock,
     DeleteWorkspaceFence, DeleteWorkspaceBatch, DeleteWorkspaceRetire, AcquireImportLock,
     Local, Return, Goto, KindOf
  <2>4. QED
    BY <1>0, <2>1, <2>2, <2>3, Zenon DEF KindOf, UnderLock, ReplaceLabel, CaptureLabel
<1>5. CASE Stop(p)
  BY Zenon, <1>0, <1>5 DEF Stop, Release, Heartbeat, Fail, Crash, Goto, store, KindOf, UnderLock,
     ReplaceLabel, CaptureLabel
<1>6. QED
  BY <1>1, <1>2, <1>3, <1>4, <1>5, Zenon DEF Act

LEMMA LockStep ==
    ASSUME TypeOK, LockHeld, ~MayStall, [Next]_vars
    PROVE  LockHeld'
<1>1. ASSUME NEW p \in Proc, Act(p) PROVE LockHeld'
  <2>1. ASSUME NEW q \in Proc, q # p PROVE KindOf(q)' /\ (UnderLock(q)' => importLock' = q)
    <3>1. KindOf(q) /\ (UnderLock(q) => importLock = q)
      BY Zenon DEF LockHeld
    <3>2. pc'[q] = pc[q] /\ op'[q] = op[q]
      BY <1>1, <2>1, OthersKept, Zenon
    <3>3. importLock' = importLock \/ importLock # q
      BY <1>1, <2>1, LockKeyStep, Distinct, Zenon
    <3>4. QED
      BY <3>1, <3>2, <3>3, Zenon DEF KindOf, UnderLock
  <2>2. QED
    BY <1>1, <2>1, LockOwn, LostStep, Zenon DEF LockHeld
<1>2. CASE Outside
  <2>1. UNCHANGED <<pc, op, lost>>
    BY <1>2, Zenon DEF Outside, Open, Publish, UpdateWorkspaceSettings, LockExpires
  <2>2. importLock' = importLock \/ importLock = Orphan
    BY <1>2, Zenon DEF Outside, Open, Publish, UpdateWorkspaceSettings, LockExpires, LockHeld, store
  <2>3. QED
    BY <2>1, <2>2, Distinct, Zenon DEF LockHeld, KindOf, UnderLock
<1>3. CASE UNCHANGED vars
  BY <1>3, Zenon DEF vars, store, LockHeld, KindOf, UnderLock
<1>4. QED
  BY <1>1, <1>2, <1>3, NextForm, Zenon

(* Only one operation at a time replaces or removes the live root: a       *)
(* second restore or deletion of the workspace waits for the import lock.  *)
THEOREM RootReplacedByOne ==
    ASSUME ~MayStall
    PROVE  Spec => []OneReplacement
<1>1. Init => TypeOK /\ LockHeld
  BY InitType, Zenon DEF Init, LockHeld, KindOf, UnderLock, ReplaceLabel, CaptureLabel
<1>2. TypeOK /\ LockHeld /\ [Next]_vars => (TypeOK /\ LockHeld)'
  BY TypeStep, LockStep, Zenon
<1>3. TypeOK /\ LockHeld => OneReplacement
  BY Zenon DEF LockHeld, KindOf, UnderLock, OneReplacement, ReplacingRoot, ReplaceLabel
<1>4. QED
  BY <1>1, <1>2, <1>3, PTL DEF Spec

-----------------------------------------------------------------------------
(* The fence: the generation is the lock holder's.                         *)

(* A step that is not under the lock leaves the fence and the root alone.  *)
LEMMA UnlockedStep ==
    ASSUME TypeOK, LockHeld, NEW p \in Proc, Act(p), ~UnderLock(p)
    PROVE  /\ generation' = generation /\ root' = root /\ before' = before
           /\ deleting' = deleting /\ liveTree' = liveTree
           /\ head' = head \/ head' # None
<1> DEFINE Kept == /\ generation' = generation /\ root' = root /\ before' = before
                   /\ deleting' = deleting /\ liveTree' = liveTree
                   /\ head' = head \/ head' # None
<1>0. KindOf(p) /\ op[p] \in Op
  BY Zenon DEF LockHeld, TypeOK
<1>1. CASE Begin(p)
  BY <1>1, BeginForm, Zenon DEF Begun, store, live, ghosts
<1>2. CASE SaveOn(p)
  BY Zenon, <1>0, <1>2, Distinct DEF SaveOn, CaptureMeta, CaptureRoot, CaptureFile, CaptureEnd, SaveHead,
     SaveRead, SaveExec, Local, Return, store, live, ghosts, Op
<1>3. CASE RestoreOn(p)
  <2>1. pc[p] = "lock"
    BY Zenon, <1>0, <1>3 DEF RestoreOn, RestoreLock, RestoreReadGeneration, RestoreFence, LostCheck,
     RestoreActivity, RestoreMark, MoveWorkspaceHead, ResetFile, ResetDone, WriteNode,
     MarkWorkspaceRootClean, CompleteRestore, KindOf, UnderLock, ReplaceLabel
  <2>2. RestoreLock(p)
    BY Zenon, <1>3, <2>1 DEF RestoreOn, RestoreReadGeneration, RestoreFence, LostCheck,
     RestoreActivity, RestoreMark, MoveWorkspaceHead, ResetFile, ResetDone, WriteNode,
     MarkWorkspaceRootClean, CompleteRestore
  <2>3. QED
    BY <2>2, Zenon DEF RestoreLock, AcquireImportLock, Return, Local, store, live, ghosts
<1>4. CASE DeleteOn(p)
  <2>1. DeleteCheckpointRead(p) \/ DeleteCheckpointExec(p) \/ DeleteWorkspaceLock(p)
    BY Zenon, <1>0, <1>4 DEF DeleteOn, DeleteWorkspaceFence, DeleteWorkspaceBatch, DeleteWorkspaceRetire,
     KindOf, UnderLock
  <2>2. QED
    BY Zenon, <2>1 DEF DeleteCheckpointRead, DeleteCheckpointExec, DeleteWorkspaceLock,
       AcquireImportLock, Return, Local, store, live, ghosts
<1>5. CASE Stop(p)
  BY <1>5, Zenon DEF Stop, Release, Heartbeat, Fail, Crash, store, live, ghosts
<1>6. QED
  BY <1>1, <1>2, <1>3, <1>4, <1>5, Zenon DEF Act

LEMMA Exclusive ==
    ASSUME LockHeld, NEW p \in Proc, NEW q \in Proc, q # p, UnderLock(q)
    PROVE  ~UnderLock(p)
BY Zenon DEF LockHeld

(* What the lock holder relies on is not disturbed by the steps of others. *)
LEMMA FenceOthers ==
    ASSUME TypeOK, LockHeld, FenceHeld, NEW p \in Proc, NEW q \in Proc, q # p, Act(p)
    PROVE  FenceOf(q)'
<1>1. pc'[q] = pc[q] /\ op'[q] = op[q]
  BY OthersKept, Zenon
<1>2. FenceOf(q) /\ KindOf(q)
  BY Zenon DEF FenceHeld, LockHeld
<1>3. CASE UnderLock(q)
  <2>1. generation' = generation /\ (head' = head \/ head' # None)
    BY <1>3, Exclusive, UnlockedStep, Zenon
  <2>2. QED
    BY <1>1, <1>2, <2>1, Zenon DEF FenceOf
<1>4. CASE ~UnderLock(q)
  BY <1>1, <1>2, <1>4, Zenon DEF FenceOf, UnderLock, KindOf, CaptureLabel, ReplaceLabel
<1>5. QED
  BY <1>3, <1>4, Zenon

LEMMA FenceOwnSave ==
    ASSUME TypeOK, LockHeld, NEW p \in Proc, FenceOf(p), SaveOn(p)
    PROVE  FenceOf(p)'
<1>1. /\ op'[p].kind = op[p].kind /\ op'[p].gen = op[p].gen
      /\ op'[p].recovering = op[p].recovering
  BY SaveFields, Zenon
<1>2. generation' = generation
  BY Zenon DEF SaveOn, CaptureMeta, CaptureRoot, CaptureFile, CaptureEnd, SaveHead, SaveRead,
     SaveExec, Local, Return, store
<1>3. /\ pc[p] \in CaptureLabel
      /\ pc'[p] \in CaptureLabel \cup {"release"} \/ (pc'[p] = "lostCheck" /\ op[p].kind = "restore")
  BY SaveLabels, Zenon
<1>4. QED
  BY <1>1, <1>2, <1>3, Zenon DEF FenceOf, CaptureLabel, ReplaceLabel

LEMMA ReadGenerationFields ==
    ASSUME TypeOK, NEW p \in Proc, RestoreReadGeneration(p)
    PROVE  /\ op'[p].recovering = (generation.phase = "restoring")
           /\ op'[p].gen.phase = IF op'[p].recovering THEN "restoring" ELSE "fencing"
<1>1. op \in [Proc -> Op] /\ op[p] \in Op
  BY Zenon DEF TypeOK
<1> DEFINE r == generation.phase = "restoring"
           g == [phase |-> IF r THEN "restoring" ELSE "fencing", token |-> nextToken]
<1>2. PICK c : op' = [op EXCEPT ![p].recovering = r, ![p].name = c, ![p].gen = g]
  BY Zenon DEF RestoreReadGeneration
<1>3. r \in BOOLEAN
  OBVIOUS
<1>4. op'[p].recovering = r
  <2> HIDE DEF r, g
  <2> QED BY <1>1, <1>2, <1>3 DEF Op
<1>5. op'[p].gen = g
  <2> HIDE DEF r, g
  <2> QED BY <1>1, <1>2, <1>3 DEF Op
<1>6. op'[p].gen.phase = IF r THEN "restoring" ELSE "fencing"
  BY <1>5, SMTT(60)
<1>7. QED
  BY <1>4, <1>6, Zenon

LEMMA FenceOwnRestore ==
    ASSUME TypeOK, LockHeld, NEW p \in Proc, FenceOf(p), RestoreOn(p)
    PROVE  FenceOf(p)'
<1>0. pc \in [Proc -> Label] /\ op \in [Proc -> Op] /\ op[p] \in Op /\ KindOf(p)
  BY Zenon DEF TypeOK, LockHeld
<1>1. CASE RestoreLock(p)
  <2>1. pc'[p] \in {"readGen", "release"}
    BY <1>0, <1>1, Zenon DEF RestoreLock, AcquireImportLock, Return, Local, Goto
  <2>2. QED
    BY <2>1, Zenon DEF FenceOf, CaptureLabel, ReplaceLabel
<1>2. CASE RestoreReadGeneration(p)
  <2>1. pc'[p] = "fence" /\ generation' = generation
    BY <1>0, <1>2, Zenon DEF RestoreReadGeneration, Goto, store
  <2>2. QED
    BY <1>2, <2>1, ReadGenerationFields, Zenon DEF FenceOf, CaptureLabel, ReplaceLabel
<1>3. CASE RestoreFence(p)
  <2>1. /\ pc[p] = "fence" /\ generation' = op[p].gen /\ op' = op
        /\ pc'[p] = "lostCheck" \/ (pc'[p] = "capMeta" /\ ~op[p].recovering)
    BY <1>0, <1>3, Zenon DEF RestoreFence, Goto
  <2>2. QED
    BY <2>1, Zenon DEF FenceOf, CaptureLabel, ReplaceLabel
<1>4. CASE LostCheck(p, "lostCheck", "activity") \/ RestoreActivity(p)
  <2>1. /\ pc[p] \in {"lostCheck", "activity"} /\ pc'[p] \in {"activity", "restoring", "release"}
        /\ op'[p] = op[p] /\ generation' = generation
    BY <1>0, <1>4, Zenon DEF LostCheck, Local, RestoreActivity, Goto, store
  <2>2. QED
    BY <2>1, Zenon DEF FenceOf, CaptureLabel, ReplaceLabel
<1>5. CASE RestoreMark(p)
  <2>1. pc'[p] = "move" /\ generation'.phase = "restoring" /\ op'[p].gen = generation'
    BY <1>0, <1>5, Zenon DEF RestoreMark, Goto, Op
  <2>2. QED
    BY <2>1, Zenon DEF FenceOf, CaptureLabel, ReplaceLabel
<1>6. CASE MoveWorkspaceHead(p)
  <2>1. /\ pc[p] = "move" /\ generation' = generation /\ op'[p].gen = op[p].gen
        /\ pc'[p] = "release" \/ (pc'[p] = "reset" /\ head' = op[p].cp)
    BY <1>0, <1>6, ZenonT(60) DEF MoveWorkspaceHead, Return, Local, Goto, store, Op
  <2>2. op[p].cp # None
    BY <1>0, Distinct, Zenon DEF Op
  <2>3. QED
    BY <2>1, <2>2, Zenon DEF FenceOf, CaptureLabel, ReplaceLabel
<1>7. CASE \/ (\E f \in File : ResetFile(p, f)) \/ ResetDone(p) \/ (\E f \in File : WriteNode(p, f))
           \/ MarkWorkspaceRootClean(p) \/ LostCheck(p, "lostCheck2", "complete")
  <2>1. op'[p].gen = op[p].gen
    BY Zenon, <1>0, <1>7, RestoreFields DEF ResetFile, ResetDone, WriteNode, MarkWorkspaceRootClean, LostCheck,
       RestoreReadGeneration, RestoreMark
  <2>2. /\ pc[p] \in {"reset", "write", "lostCheck2"} /\ head' = head /\ generation' = generation
        /\ pc'[p] \in {"reset", "write", "lostCheck2", "complete", "release"}
    BY Zenon, <1>0, <1>7 DEF ResetFile, ResetDone, WriteNode, MarkWorkspaceRootClean, LostCheck, Local, Goto,
       store
  <2>3. QED
    BY <2>1, <2>2, Zenon DEF FenceOf, CaptureLabel, ReplaceLabel
<1>8. CASE CompleteRestore(p)
  <2>1. pc'[p] = "release"
    BY <1>0, <1>8, Zenon DEF CompleteRestore, Return, Local, Goto
  <2>2. QED
    BY <2>1, Zenon DEF FenceOf, CaptureLabel, ReplaceLabel
<1>9. QED
  BY <1>1, <1>2, <1>3, <1>4, <1>5, <1>6, <1>7, <1>8, Zenon DEF RestoreOn

LEMMA FenceOwn ==
    ASSUME TypeOK, LockHeld, NEW p \in Proc, FenceOf(p), Act(p)
    PROVE  FenceOf(p)'
<1>0. pc \in [Proc -> Label] /\ op \in [Proc -> Op] /\ op[p] \in Op /\ KindOf(p)
  BY Zenon DEF TypeOK, LockHeld
<1>1. CASE Begin(p)
  BY <1>0, <1>1, BeginForm, ZenonT(60) DEF Begun, FenceOf, CaptureLabel, ReplaceLabel
<1>2. CASE DeleteOn(p)
  <2>1. CASE \/ DeleteCheckpointRead(p) \/ DeleteCheckpointExec(p) \/ DeleteWorkspaceLock(p)
             \/ DeleteWorkspaceRetire(p)
    <3>1. pc'[p] \in {"release", "dcExec", "dwFence"}
      BY Zenon, <1>0, <2>1 DEF DeleteCheckpointRead, DeleteCheckpointExec, DeleteWorkspaceLock,
         DeleteWorkspaceRetire, AcquireImportLock, Local, Return, Goto
    <3>2. QED
      BY <3>1, Zenon DEF FenceOf, CaptureLabel, ReplaceLabel
  <2>2. CASE DeleteWorkspaceFence(p)
    <3>1. \/ pc'[p] = "release"
          \/ pc'[p] = "dwDelete" /\ generation'.phase = "deleted" /\ head' # None
      BY <1>0, <2>2, SMTT(60) DEF DeleteWorkspaceFence, Local, Return, Goto
    <3>2. QED
      BY <3>1, Zenon DEF FenceOf, CaptureLabel, ReplaceLabel
  <2>3. ASSUME NEW k \in Batch, DeleteWorkspaceBatch(p, k) PROVE FenceOf(p)'
    <3>1. pc[p] = "dwDelete" /\ pc' = pc /\ generation' = generation /\ head' = head
      BY <2>3, Zenon DEF DeleteWorkspaceBatch
    <3>2. QED
      BY <3>1, Zenon DEF FenceOf, CaptureLabel, ReplaceLabel
  <2>4. QED
    BY <1>2, <2>1, <2>2, <2>3, Zenon DEF DeleteOn
<1>3. CASE Stop(p)
  <2>1. pc'[p] \in {"idle", "release"}
        \/ (pc'[p] = pc[p] /\ op'[p] = op[p] /\ generation' = generation /\ head' = head)
    BY <1>0, <1>3, Zenon DEF Stop, Release, Heartbeat, Fail, Crash, Goto, store
  <2>2. QED
    BY <2>1, Zenon DEF FenceOf, CaptureLabel, ReplaceLabel
<1>4. QED
  BY <1>1, <1>2, <1>3, FenceOwnSave, FenceOwnRestore, Zenon DEF Act

(* Deletion retires the head behind its tombstone, and a restore publishes *)
(* a generation while the head exists.                                     *)
LEMMA FinalStep ==
    ASSUME TypeOK, LockHeld, FenceHeld, NEW p \in Proc, Act(p)
    PROVE  DeletionIsFinal'
<1>0. DeletionIsFinal /\ FenceOf(p) /\ op[p] \in Op
  BY Zenon DEF FenceHeld, TypeOK
<1>1. CASE ~UnderLock(p)
  BY <1>0, <1>1, UnlockedStep, Zenon DEF DeletionIsFinal
<1>2. CASE Begin(p)
  BY <1>0, <1>2, BeginForm, Zenon DEF Begun, store, DeletionIsFinal
<1>3. CASE SaveOn(p)
  <2>1. generation' = generation /\ (head' = head \/ head' # None)
    BY Zenon, <1>0, <1>3, Distinct DEF SaveOn, CaptureMeta, CaptureRoot, CaptureFile, CaptureEnd, SaveHead,
       SaveRead, SaveExec, Local, Return, store, Op
  <2>2. QED
    BY <1>0, <2>1, Zenon DEF DeletionIsFinal
<1>4. CASE RestoreOn(p)
  <2>1. CASE RestoreFence(p) \/ RestoreMark(p)
    <3>1. generation'.phase # "live"
      BY <1>0, <2>1, SMTT(60) DEF RestoreFence, RestoreMark, FenceOf
    <3>2. QED
      BY <3>1, Zenon DEF DeletionIsFinal
  <2>2. CASE CompleteRestore(p)
    <3>1. head # None /\ head' = head
      BY <1>0, <2>2, Zenon DEF CompleteRestore, FenceOf, Return, Local, store
    <3>2. QED
      BY <3>1, Zenon DEF DeletionIsFinal
  <2>3. CASE ~RestoreFence(p) /\ ~RestoreMark(p) /\ ~CompleteRestore(p)
    <3>1. generation' = generation /\ (head' = head \/ head' # None)
      BY Zenon, <1>0, <1>4, <2>3, Distinct DEF RestoreOn, RestoreLock, RestoreReadGeneration, LostCheck,
       RestoreActivity, MoveWorkspaceHead, ResetFile, ResetDone, WriteNode,
       MarkWorkspaceRootClean, AcquireImportLock, Local, Return, store, Op
    <3>2. QED
      BY <1>0, <3>1, Zenon DEF DeletionIsFinal
  <2>4. QED
    BY <2>1, <2>2, <2>3, Zenon
<1>5. CASE DeleteOn(p)
  <2>1. CASE DeleteWorkspaceRetire(p)
    <3>1. generation' = generation /\ generation.phase = "deleted"
      BY <1>0, <2>1, Zenon DEF DeleteWorkspaceRetire, FenceOf
    <3>2. QED
      BY <3>1, Zenon DEF DeletionIsFinal
  <2>2. CASE ~DeleteWorkspaceRetire(p)
    <3>1. ASSUME NEW k \in Batch, DeleteWorkspaceBatch(p, k)
          PROVE  head' = head /\ generation' = generation
      BY <3>1, Zenon DEF DeleteWorkspaceBatch
    <3>2. DeleteWorkspaceFence(p) => head' = head /\ (generation' = generation \/ generation'.phase = "deleted")
      BY SMTT(60) DEF DeleteWorkspaceFence, Local, Return, store
    <3>3. DeleteCheckpointRead(p) \/ DeleteCheckpointExec(p) \/ DeleteWorkspaceLock(p)
            => head' = head /\ generation' = generation
      BY Zenon DEF DeleteCheckpointRead, DeleteCheckpointExec, DeleteWorkspaceLock, AcquireImportLock,
         Local, Return, store
    <3>4. QED
      BY <1>0, <1>5, <2>2, <3>1, <3>2, <3>3, Zenon DEF DeletionIsFinal, DeleteOn
  <2>3. QED
    BY <2>1, <2>2, Zenon
<1>6. CASE Stop(p)
  <2>1. generation' = generation /\ head' = head
    BY <1>6, Zenon DEF Stop, Release, Heartbeat, Fail, Crash, store
  <2>2. QED
    BY <1>0, <2>1, Zenon DEF DeletionIsFinal
<1>7. QED
  BY <1>2, <1>3, <1>4, <1>5, <1>6, Zenon DEF Act

LEMMA FenceStep ==
    ASSUME TypeOK, LockHeld, FenceHeld, [Next]_vars
    PROVE  FenceHeld'
<1>1. ASSUME NEW p \in Proc, Act(p) PROVE FenceHeld'
  <2>1. ASSUME NEW q \in Proc PROVE FenceOf(q)'
    <3>1. CASE q = p
      BY <1>1, <3>1, FenceOwn, Zenon DEF FenceHeld
    <3>2. CASE q # p
      BY <1>1, <3>2, FenceOthers, Zenon
    <3>3. QED
      BY <3>1, <3>2, Zenon
  <2>2. QED
    BY <1>1, <2>1, FinalStep, Zenon DEF FenceHeld
<1>2. CASE Outside
  <2>1. UNCHANGED <<pc, op, generation, head>>
    BY <1>2, Zenon DEF Outside, Open, Publish, UpdateWorkspaceSettings, LockExpires, store
  <2>2. QED
    BY <2>1, Zenon DEF FenceHeld, FenceOf, DeletionIsFinal
<1>3. CASE UNCHANGED vars
  BY <1>3, Zenon DEF vars, store, FenceHeld, FenceOf, DeletionIsFinal
<1>4. QED
  BY <1>1, <1>2, <1>3, NextForm, Zenon

LEMMA FenceInit ==
    ASSUME Init
    PROVE  LockHeld /\ FenceHeld
<1>1. head = Initial /\ lost = {} /\ \A p \in Proc : pc[p] = "idle"
  BY Zenon DEF Init
<1>2. LockHeld
  BY <1>1, Zenon DEF LockHeld, KindOf, UnderLock, ReplaceLabel, CaptureLabel
<1>3. FenceHeld
  BY <1>1, Distinct, Zenon DEF FenceHeld, FenceOf, DeletionIsFinal, ReplaceLabel, CaptureLabel
<1>4. QED
  BY <1>2, <1>3, Zenon

(* Once the deletion of a workspace has retired its metadata no generation *)
(* is live, so that no client opens it or publishes into it again.         *)
THEOREM DeletedStaysDeleted ==
    ASSUME ~MayStall
    PROVE  Spec => []DeletionIsFinal
<1>1. Init => TypeOK /\ LockHeld /\ FenceHeld
  BY InitType, FenceInit, Zenon
<1>2. TypeOK /\ LockHeld /\ FenceHeld /\ [Next]_vars => (TypeOK /\ LockHeld /\ FenceHeld)'
  BY TypeStep, LockStep, FenceStep, Zenon
<1>3. FenceHeld => DeletionIsFinal
  BY Zenon DEF FenceHeld
<1>4. QED
  BY <1>1, <1>2, <1>3, PTL DEF Spec

-----------------------------------------------------------------------------
(* What WATCH transactions have read holds when they commit, and the tree  *)
(* behind the fence is the one clients last saw.                           *)

(* The transactions: a write to a key makes its watchers stale.            *)

LEMMA TouchMarks ==
    ASSUME NEW K, Touch(K), NEW q \in Proc, q \notin stale', NEW k \in K
    PROVE  q \notin stale /\ k \notin watch[q]
BY Zenon DEF Touch

(* What a step of p that leaves q's transaction alive cannot have changed. *)
LEMMA WatchedKept ==
    ASSUME TypeOK, LockHeld, WatchGuards, NEW p \in Proc, NEW q \in Proc, q # p, Act(p), q \notin stale'
    PROVE  /\ q \notin stale
           /\ MetaKey \in watch[q] => head' = head
           /\ BeforeKey \in watch[q] => before' = before
           /\ LockKey \in watch[q] => importLock' = importLock \/ (importLock = p /\ importLock' = Orphan)
           /\ MetaKey \in watch[q] => \A c \in Cp : savepoint[c] = None => savepoint'[c] = None
<1> DEFINE Kept == /\ q \notin stale
                   /\ MetaKey \in watch[q] => head' = head
                   /\ BeforeKey \in watch[q] => before' = before
                   /\ LockKey \in watch[q] =>
                        importLock' = importLock \/ (importLock = p /\ importLock' = Orphan)
                   /\ MetaKey \in watch[q] => \A c \in Cp : savepoint[c] = None => savepoint'[c] = None
<1>0. savepoint \in [Cp -> Part \cup {None}] /\ op[p] \in Op
  BY Zenon DEF TypeOK
<1>1. CASE Begin(p)
  BY <1>1, BeginForm, Zenon DEF Begun, store, catalog
<1>2. CASE SaveOn(p)
  <2>1. CASE SaveExec(p) /\ p \notin stale
    <3>1. Touch({MetaKey, SavepointKey(op[p].name)} \cup {RefKey(b) : b \in manifestBlobRefs(op[p].tree)})
      BY <2>1, Zenon DEF SaveExec
    <3>2. q \notin stale /\ MetaKey \notin watch[q]
      BY <3>1, TouchMarks, Zenon
    <3>3. before' = before /\ importLock' = importLock
      BY <2>1, Zenon DEF SaveExec
    <3>4. QED
      BY <3>2, <3>3, Zenon
  <2>2. CASE ~(SaveExec(p) /\ p \notin stale)
    <3>1. UNCHANGED store /\ (stale' = stale \/ stale' = stale \ {p})
      BY Zenon, <1>2, <2>2 DEF SaveOn, CaptureMeta, CaptureRoot, CaptureFile, CaptureEnd, SaveHead, SaveRead,
         SaveExec, Local, Return
    <3>2. QED
      BY <3>1, Zenon DEF store, catalog
  <2>3. QED
    BY <2>1, <2>2, Zenon
<1>3. CASE RestoreOn(p)
  <2>1. CASE RestoreLock(p)
    <3>1. CASE Return(p)
      BY <3>1, Zenon DEF Return, Local, store, catalog
    <3>2. CASE AcquireImportLock(p, "readGen")
      <4>1. q \notin stale /\ LockKey \notin watch[q]
        BY <3>2, TouchMarks, Zenon DEF AcquireImportLock
      <4>2. QED
        BY <3>2, <4>1, Zenon DEF AcquireImportLock, catalog
    <3>3. QED
      BY <2>1, <3>1, <3>2, Zenon DEF RestoreLock
  <2>2. CASE RestoreFence(p) \/ RestoreMark(p)
    <3>1. q \notin stale
      BY <2>2, Zenon DEF RestoreFence, RestoreMark, Touch
    <3>2. QED
      BY <2>2, <3>1, Zenon DEF RestoreFence, RestoreMark, catalog
  <2>3. CASE RestoreActivity(p)
    <3>1. UNCHANGED <<head, savepoint, importLock>>
      BY <2>3, Zenon DEF RestoreActivity, catalog
    <3>2. CASE before' = before
      BY <2>3, <3>1, <3>2, Zenon DEF RestoreActivity
    <3>3. CASE before' # before
      <4>1. Touch({BeforeKey})
        BY <2>3, <3>3, Zenon DEF RestoreActivity
      <4>2. q \notin stale /\ BeforeKey \notin watch[q]
        BY <4>1, TouchMarks, Zenon
      <4>3. QED
        BY <3>1, <4>2, Zenon
    <3>4. QED
      BY <3>2, <3>3, Zenon
  <2>4. CASE MoveWorkspaceHead(p)
    <3>1. CASE head = None
      BY <2>4, <3>1, Zenon DEF MoveWorkspaceHead, Return, Local, store, catalog
    <3>2. CASE head # None
      <4>1. q \notin stale /\ MetaKey \notin watch[q]
        BY <2>4, <3>2, TouchMarks, Zenon DEF MoveWorkspaceHead
      <4>2. QED
        BY <2>4, <3>2, <4>1, Zenon DEF MoveWorkspaceHead
    <3>3. QED
      BY <3>1, <3>2, Zenon
  <2>5. CASE CompleteRestore(p)
    <3>1. CASE Return(p)
      BY <3>1, Zenon DEF Return, Local, store, catalog
    <3>2. CASE ~Return(p)
      <4>1. Touch({GenerationKey, ChangesKey, BeforeKey}) /\ UNCHANGED <<head, catalog, importLock>>
        BY <2>5, <3>2, Zenon DEF CompleteRestore
      <4>2. q \notin stale /\ BeforeKey \notin watch[q]
        BY <4>1, TouchMarks, Zenon
      <4>3. QED
        BY <4>1, <4>2, Zenon DEF catalog
    <3>3. QED
      BY <3>1, <3>2, Zenon
  <2>6. CASE \/ RestoreReadGeneration(p) \/ LostCheck(p, "lostCheck", "activity")
             \/ (\E f \in File : ResetFile(p, f)) \/ ResetDone(p) \/ (\E f \in File : WriteNode(p, f))
             \/ MarkWorkspaceRootClean(p) \/ LostCheck(p, "lostCheck2", "complete")
    BY Zenon, <2>6 DEF RestoreReadGeneration, LostCheck, ResetFile, ResetDone, WriteNode,
       MarkWorkspaceRootClean, Local, store, catalog
  <2>7. QED
    BY <1>3, <2>1, <2>2, <2>3, <2>4, <2>5, <2>6, Zenon DEF RestoreOn
<1>4. CASE DeleteOn(p)
  <2>1. CASE DeleteCheckpointRead(p)
    BY <2>1, Zenon DEF DeleteCheckpointRead, Return, Local, store, catalog
  <2>2. CASE DeleteCheckpointExec(p)
    <3>1. CASE p \in stale
      BY <2>2, <3>1, Zenon DEF DeleteCheckpointExec, Return, Local, store, catalog
    <3>2. CASE p \notin stale
      <4>1. q \notin stale
        BY <2>2, <3>2, Zenon DEF DeleteCheckpointExec, Touch
      <4>2. savepoint' = [savepoint EXCEPT ![op[p].cp] = None]
        BY <2>2, <3>2, Zenon DEF DeleteCheckpointExec
      <4>3. \A c \in Cp : savepoint[c] = None => savepoint'[c] = None
        BY <1>0, <4>2, Zenon
      <4>4. UNCHANGED <<head, before, importLock>>
        BY <2>2, <3>2, Zenon DEF DeleteCheckpointExec
      <4>5. QED
        BY <4>1, <4>3, <4>4, Zenon
    <3>3. QED
      BY <3>1, <3>2, Zenon
  <2>3. CASE DeleteWorkspaceLock(p)
    <3>1. CASE Return(p)
      BY <3>1, Zenon DEF Return, Local, store, catalog
    <3>2. CASE AcquireImportLock(p, "dwFence")
      <4>1. q \notin stale /\ LockKey \notin watch[q]
        BY <3>2, TouchMarks, Zenon DEF AcquireImportLock
      <4>2. QED
        BY <3>2, <4>1, Zenon DEF AcquireImportLock, catalog
    <3>3. QED
      BY <2>3, <3>1, <3>2, Zenon DEF DeleteWorkspaceLock
  <2>4. CASE DeleteWorkspaceFence(p)
    BY <2>4, Zenon DEF DeleteWorkspaceFence, Touch, Return, Local, store, catalog
  <2>5. ASSUME NEW k \in Batch, DeleteWorkspaceBatch(p, k) PROVE Kept
    <3>1. UNCHANGED <<head, importLock>> /\ \A c \in Cp : savepoint[c] = None => savepoint'[c] = None
      BY <2>5, Zenon DEF DeleteWorkspaceBatch
    <3>2. CASE k = <<"journal">>
      <4>1. q \notin stale /\ BeforeKey \notin watch[q]
        BY <2>5, <3>2, TouchMarks, ZenonT(60) DEF DeleteWorkspaceBatch
      <4>2. QED
        BY <3>1, <4>1, Zenon
    <3>3. CASE k # <<"journal">>
      BY <2>5, <3>1, <3>3, Zenon DEF DeleteWorkspaceBatch, Touch
    <3>4. QED
      BY <3>2, <3>3, Zenon
  <2>6. CASE DeleteWorkspaceRetire(p)
    <3>1. q \notin stale /\ MetaKey \notin watch[q]
      BY <2>6, TouchMarks, Zenon DEF DeleteWorkspaceRetire
    <3>2. QED
      BY <2>6, <3>1, Zenon DEF DeleteWorkspaceRetire
  <2>7. QED
    BY <1>4, <2>1, <2>2, <2>3, <2>4, <2>5, <2>6, Zenon DEF DeleteOn
<1>5. CASE Stop(p)
  <2>1. q \notin stale /\ UNCHANGED <<head, before, savepoint>>
    BY <1>5, Zenon DEF Stop, Release, Heartbeat, Fail, Crash, store, catalog
  <2>2. LockKey \in watch[q] => importLock' = importLock \/ (importLock = p /\ importLock' = Orphan)
    BY <1>5, Zenon DEF Stop, Release, Heartbeat, Fail, Crash, store
  <2>3. QED
    BY <2>1, <2>2, Zenon
<1>6. QED
  BY <1>1, <1>2, <1>3, <1>4, <1>5, Zenon DEF Act

LEMMA WatchOthers ==
    ASSUME TypeOK, LockHeld, WatchGuards, NEW p \in Proc, NEW q \in Proc, q # p, Act(p), q \notin stale'
    PROVE  ReadsHold(q)'
<1>1. pc'[q] = pc[q] /\ op'[q] = op[q] /\ watch'[q] = watch[q]
  BY OthersKept, Zenon
<1>2. /\ q \notin stale
      /\ MetaKey \in watch[q] => head' = head
      /\ BeforeKey \in watch[q] => before' = before
      /\ LockKey \in watch[q] => importLock' = importLock \/ (importLock = p /\ importLock' = Orphan)
      /\ MetaKey \in watch[q] => \A c \in Cp : savepoint[c] = None => savepoint'[c] = None
  BY WatchedKept, Zenon
<1>3. ReadsHold(q) /\ op[q].name \in Cp
  BY <1>2, Zenon DEF WatchGuards, TypeOK, Op
<1>4. CASE pc[q] = "dcExec"
  BY <1>1, <1>2, <1>3, <1>4, Zenon DEF ReadsHold
<1>5. CASE pc[q] = "saveExec"
  <2>1. LockAllowsSave(q) => LockAllowsSave(q)'
    BY <1>1, <1>2, <1>3, <1>5, Distinct, Zenon DEF ReadsHold, LockAllowsSave
  <2>2. QED
    BY <1>1, <1>2, <1>3, <1>5, <2>1, Zenon DEF ReadsHold
<1>6. CASE pc[q] \notin {"dcExec", "saveExec"}
  BY <1>1, <1>6, Zenon DEF ReadsHold
<1>7. QED
  BY <1>4, <1>5, <1>6, Zenon

LEMMA WatchOwn ==
    ASSUME TypeOK, LockHeld, WatchGuards, NEW p \in Proc, Act(p), p \notin stale'
    PROVE  ReadsHold(p)'
<1>0. /\ pc \in [Proc -> Label] /\ op \in [Proc -> Op] /\ watch \in [Proc -> SUBSET Key]
      /\ op[p] \in Op
  BY Zenon DEF TypeOK
<1>1. CASE SaveRead(p)
  <2>1. CASE Return(p)
    BY <1>0, <2>1, Zenon DEF Return, Local, Goto, ReadsHold
  <2>2. CASE ~Return(p)
    <3>1. /\ head = op[p].head /\ LockAllowsSave(p) /\ savepoint[op[p].name] = None
          /\ watch'[p] = SaveWatch /\ pc'[p] = "saveExec" /\ UNCHANGED store
      BY <1>0, <1>1, <2>2, Zenon DEF SaveRead, Goto
    <3>2. op'[p].kind = op[p].kind /\ op'[p].name = op[p].name /\ op'[p].head = op[p].head
      BY <1>0, <1>1, <2>2, SMTT(60) DEF SaveRead, Op
    <3>3. LockAllowsSave(p)'
      BY <3>1, <3>2, Zenon DEF LockAllowsSave, store
    <3>4. QED
      BY <3>1, <3>2, <3>3, Zenon DEF ReadsHold, SaveWatch, store, catalog
  <2>3. QED
    BY <2>1, <2>2, Zenon
<1>2. CASE DeleteCheckpointRead(p)
  <2>1. CASE Return(p)
    BY <1>0, <2>1, Zenon DEF Return, Local, Goto, ReadsHold
  <2>2. CASE ~Return(p)
    <3>1. /\ op[p].cp \notin {head, before} /\ watch'[p] = DeleteWatch(p) /\ pc'[p] = "dcExec"
          /\ UNCHANGED store
      BY <1>0, <1>2, <2>2, Zenon DEF DeleteCheckpointRead, Goto
    <3>2. op'[p].cp = op[p].cp
      BY <1>0, <1>2, <2>2, SMTT(60) DEF DeleteCheckpointRead, Op
    <3>3. QED
      BY <3>1, <3>2, Zenon DEF ReadsHold, DeleteWatch, store
  <2>3. QED
    BY <2>1, <2>2, Zenon
<1>3. CASE Heartbeat(p)
  <2>1. UNCHANGED <<store, pc, op, watch, stale>>
    BY <1>3, Zenon DEF Heartbeat
  <2>2. ReadsHold(p)
    BY <2>1, Zenon DEF WatchGuards
  <2>3. QED
    BY <2>1, <2>2, Zenon DEF ReadsHold, LockAllowsSave, store, catalog
<1>4. CASE ~SaveRead(p) /\ ~DeleteCheckpointRead(p) /\ ~Heartbeat(p)
  <2>1. pc'[p] \notin {"dcExec", "saveExec"}
    <3>1. CASE Begin(p)
      BY <1>0, <3>1, BeginForm, Zenon DEF Begun
    <3>2. CASE SaveOn(p)
      BY Zenon, <1>0, <1>4, <3>2 DEF SaveOn, CaptureMeta, CaptureRoot, CaptureFile, CaptureEnd, SaveHead,
         SaveExec, Local, Return, Goto
    <3>3. CASE RestoreOn(p)
      BY Zenon, <1>0, <3>3 DEF RestoreOn, RestoreLock, RestoreReadGeneration, RestoreFence, LostCheck,
         RestoreActivity, RestoreMark, MoveWorkspaceHead, ResetFile, ResetDone, WriteNode,
         MarkWorkspaceRootClean, CompleteRestore, AcquireImportLock, Local, Return, Goto
    <3>4. CASE DeleteOn(p)
      BY Zenon, <1>0, <1>4, <3>4 DEF DeleteOn, DeleteCheckpointExec, DeleteWorkspaceLock,
         DeleteWorkspaceFence, DeleteWorkspaceBatch, DeleteWorkspaceRetire, AcquireImportLock,
         Local, Return, Goto
    <3>5. CASE Stop(p)
      BY <1>0, <1>4, <3>5, Zenon DEF Stop, Release, Fail, Crash, Goto
    <3>6. QED
      BY <3>1, <3>2, <3>3, <3>4, <3>5, Zenon DEF Act
  <2>2. QED
    BY <2>1, Zenon DEF ReadsHold
<1>5. QED
  BY <1>1, <1>2, <1>3, <1>4, Zenon

LEMMA WatchStep ==
    ASSUME TypeOK, LockHeld, WatchGuards, [Next]_vars
    PROVE  WatchGuards'
<1>1. ASSUME NEW p \in Proc, Act(p) PROVE WatchGuards'
  <2>1. ASSUME NEW q \in Proc, q \notin stale' PROVE ReadsHold(q)'
    BY <1>1, <2>1, WatchOwn, WatchOthers, Zenon
  <2>2. QED
    BY <2>1, Zenon DEF WatchGuards
<1>2. CASE Outside
  <2>1. UNCHANGED <<pc, op, watch, head, before, savepoint>>
    BY <1>2, Zenon DEF Outside, Open, Publish, UpdateWorkspaceSettings, LockExpires, store, catalog
  <2>2. ASSUME NEW q \in Proc, q \notin stale'
        PROVE  q \notin stale /\ (LockKey \in watch[q] => importLock' = importLock)
    BY <1>2, <2>2, Zenon DEF Outside, Open, Publish, UpdateWorkspaceSettings, LockExpires, Touch, store
  <2>3. ASSUME NEW q \in Proc, q \notin stale' PROVE ReadsHold(q)'
    <3>1. ReadsHold(q)
      BY <2>2, <2>3, Zenon DEF WatchGuards
    <3>2. QED
      BY <2>1, <2>2, <2>3, <3>1, Zenon DEF ReadsHold, LockAllowsSave
  <2>4. QED
    BY <2>3, Zenon DEF WatchGuards
<1>3. CASE UNCHANGED vars
  BY <1>3, Zenon DEF vars, store, catalog, WatchGuards, ReadsHold, LockAllowsSave
<1>4. QED
  BY <1>1, <1>2, <1>3, NextForm, Zenon

-----------------------------------------------------------------------------
(* The tree behind the fence.                                              *)

RootReady(p) ==
    /\ pc[p] = "write" => op[p].todo = File \/ root.exists
    /\ pc[p] \in {"lostCheck2", "complete"} => root.exists

LEMMA RootOwn ==
    ASSUME TypeOK, LockHeld, NEW p \in Proc, RootReady(p), Act(p)
    PROVE  RootReady(p)'
<1>0. /\ pc \in [Proc -> Label] /\ op \in [Proc -> Op] /\ op[p] \in Op
      /\ root \in [exists : BOOLEAN, files : Part]
  BY Zenon DEF TypeOK
<1>1. CASE ResetDone(p)
  BY <1>0, <1>1, Zenon DEF ResetDone, Goto, RootReady, Op
<1>2. ASSUME NEW f \in File, WriteNode(p, f) PROVE RootReady(p)'
  <2>1. root'.exists = TRUE
    BY <1>2, Zenon DEF WriteNode
  <2>2. QED
    BY <2>1, Zenon DEF RootReady
<1>3. CASE MarkWorkspaceRootClean(p)
  <2>1. pc[p] = "write" /\ op[p].todo = {} /\ root' = root /\ pc'[p] = "lostCheck2"
    BY <1>0, <1>3, Zenon DEF MarkWorkspaceRootClean, Goto
  <2>2. root.exists
    BY <2>1, CheckpointsAssumption, Zenon DEF RootReady
  <2>3. QED
    BY <2>1, <2>2, Zenon DEF RootReady
<1>4. CASE LostCheck(p, "lostCheck2", "complete") \/ Heartbeat(p)
  BY <1>0, <1>4, Zenon DEF LostCheck, Heartbeat, Local, Goto, RootReady, store, live
<1>5. CASE ~(\/ ResetDone(p) \/ (\E f \in File : WriteNode(p, f)) \/ MarkWorkspaceRootClean(p)
             \/ LostCheck(p, "lostCheck2", "complete") \/ Heartbeat(p))
  <2>1. pc'[p] \notin {"write", "lostCheck2", "complete"}
    <3>1. CASE Begin(p)
      BY <1>0, <3>1, BeginForm, Zenon DEF Begun
    <3>2. CASE SaveOn(p)
      BY <3>2, SaveLabels, Zenon DEF CaptureLabel
    <3>3. CASE RestoreOn(p)
      BY Zenon, <1>0, <1>5, <3>3 DEF RestoreOn, RestoreLock, RestoreReadGeneration, RestoreFence, LostCheck,
         RestoreActivity, RestoreMark, MoveWorkspaceHead, ResetFile,
         CompleteRestore, AcquireImportLock, Local, Return, Goto
    <3>4. CASE DeleteOn(p)
      BY Zenon, <1>0, <3>4 DEF DeleteOn, DeleteCheckpointRead, DeleteCheckpointExec, DeleteWorkspaceLock,
         DeleteWorkspaceFence, DeleteWorkspaceBatch, DeleteWorkspaceRetire, AcquireImportLock,
         Local, Return, Goto
    <3>5. CASE Stop(p)
      BY <1>0, <1>5, <3>5, Zenon DEF Stop, Release, Fail, Crash, Goto
    <3>6. QED
      BY <3>1, <3>2, <3>3, <3>4, <3>5, Zenon DEF Act
  <2>2. QED
    BY <2>1, Zenon DEF RootReady
<1>6. QED
  BY <1>1, <1>2, <1>3, <1>4, <1>5, Zenon

ShownBehindFence ==
    /\ generation.phase = "deleted" => deleting
    /\ generation.phase \in {"live", "fencing"} /\ ~deleting =>
         root.exists /\ root.files = liveTree

LEMMA ShownStep ==
    ASSUME TypeOK, LockHeld, FenceHeld, ShownBehindFence, NEW p \in Proc, RootReady(p), Act(p)
    PROVE  ShownBehindFence'
<1>0. FenceOf(p) /\ op[p] \in Op /\ generation \in Generation /\ deleting \in BOOLEAN
  BY Zenon DEF FenceHeld, TypeOK
<1> DEFINE Kept == UNCHANGED <<generation, root, deleting, liveTree>>
<1>1. Kept => ShownBehindFence'
  BY SMTT(60) DEF ShownBehindFence
<1>2. CASE Begin(p)
  BY <1>1, <1>2, BeginForm, Zenon DEF Begun, store, live, ghosts
<1>3. CASE SaveOn(p)
  <2>1. Kept
    BY Zenon, <1>3 DEF SaveOn, CaptureMeta, CaptureRoot, CaptureFile, CaptureEnd, SaveHead, SaveRead,
       SaveExec, Local, Return, store, live, ghosts
  <2>2. QED
    BY <1>1, <2>1, Zenon
<1>4. CASE RestoreOn(p)
  <2>1. CASE RestoreFence(p)
    <3>1. /\ generation' = op[p].gen /\ UNCHANGED <<root, deleting, liveTree>>
          /\ pc[p] = "fence"
      BY <2>1, Zenon DEF RestoreFence, live, ghosts
    <3>2. /\ op[p].gen.phase \in {"restoring", "fencing"}
          /\ op[p].gen.phase = "fencing" => generation.phase \in {"live", "fencing", "deleted"}
      BY <1>0, <3>1, Zenon DEF FenceOf, Generation, Phase
    <3>3. QED
      BY <3>1, <3>2, Zenon DEF ShownBehindFence
  <2>2. CASE RestoreMark(p)
    <3>1. generation'.phase = "restoring"
      BY <2>2, Zenon DEF RestoreMark
    <3>2. QED
      BY <3>1, Zenon DEF ShownBehindFence
  <2>3. CASE (\E f \in File : ResetFile(p, f)) \/ ResetDone(p) \/ (\E f \in File : WriteNode(p, f))
    <3>1. pc[p] \in ReplaceLabel /\ generation' = generation
      BY <2>3, Zenon DEF ResetFile, ResetDone, WriteNode, ReplaceLabel
    <3>2. generation.phase = "restoring"
      BY <1>0, <3>1, SMTT(60) DEF FenceOf
    <3>3. QED
      BY <3>1, <3>2, Zenon DEF ShownBehindFence
  <2>4. CASE CompleteRestore(p)
    <3>1. CASE ~(generation = op[p].gen /\ importLock = p)
      BY <1>1, <2>4, <3>1, Zenon DEF CompleteRestore, Return, Local, store, live, ghosts
    <3>2. CASE generation = op[p].gen /\ importLock = p
      <4>1. /\ pc[p] = "complete" /\ generation' = [phase |-> "live", token |-> op[p].gen.token]
            /\ liveTree' = root.files /\ root' = root
        BY <2>4, <3>2, Zenon DEF CompleteRestore
      <4>2. QED
        BY <4>1, Zenon DEF ShownBehindFence, RootReady
    <3>3. QED
      BY <3>1, <3>2, Zenon
  <2>5. CASE \/ RestoreLock(p) \/ RestoreReadGeneration(p) \/ RestoreActivity(p)
             \/ MoveWorkspaceHead(p) \/ MarkWorkspaceRootClean(p)
             \/ LostCheck(p, "lostCheck", "activity") \/ LostCheck(p, "lostCheck2", "complete")
    <3>1. Kept
      BY Zenon, <2>5 DEF RestoreLock, RestoreReadGeneration, RestoreActivity, MoveWorkspaceHead,
         MarkWorkspaceRootClean, LostCheck, AcquireImportLock, Local, Return, store, live, ghosts
    <3>2. QED
      BY <1>1, <3>1, Zenon
  <2>6. QED
    BY <1>4, <2>1, <2>2, <2>3, <2>4, <2>5, Zenon DEF RestoreOn
<1>5. CASE DeleteOn(p)
  <2>1. CASE DeleteWorkspaceFence(p)
    <3>1. CASE head = None
      BY <1>1, <2>1, <3>1, Zenon DEF DeleteWorkspaceFence, Return, Local, store, live, ghosts
    <3>2. CASE head # None
      <4>1. deleting' = TRUE /\ generation'.phase = "deleted"
        BY <2>1, <3>2, SMTT(60) DEF DeleteWorkspaceFence
      <4>2. QED
        BY <4>1, Zenon DEF ShownBehindFence
    <3>3. QED
      BY <3>1, <3>2, Zenon
  <2>2. ASSUME NEW k \in Batch, DeleteWorkspaceBatch(p, k) PROVE ShownBehindFence'
    <3>1. pc[p] = "dwDelete" /\ generation' = generation /\ deleting' = deleting
      BY <2>2, Zenon DEF DeleteWorkspaceBatch, ghosts
    <3>2. generation.phase = "deleted"
      BY <1>0, <3>1, Zenon DEF FenceOf
    <3>3. QED
      BY <3>1, <3>2, Zenon DEF ShownBehindFence
  <2>3. CASE \/ DeleteCheckpointRead(p) \/ DeleteCheckpointExec(p) \/ DeleteWorkspaceLock(p)
             \/ DeleteWorkspaceRetire(p)
    <3>1. Kept
      BY Zenon, <2>3 DEF DeleteCheckpointRead, DeleteCheckpointExec, DeleteWorkspaceLock,
         DeleteWorkspaceRetire, AcquireImportLock, Local, Return, store, live, ghosts
    <3>2. QED
      BY <1>1, <3>1, Zenon
  <2>4. QED
    BY <1>5, <2>1, <2>2, <2>3, Zenon DEF DeleteOn
<1>6. CASE Stop(p)
  <2>1. Kept
    BY <1>6, Zenon DEF Stop, Release, Heartbeat, Fail, Crash, store, live, ghosts
  <2>2. QED
    BY <1>1, <2>1, Zenon
<1>7. QED
  BY <1>2, <1>3, <1>4, <1>5, <1>6, Zenon DEF Act

LEMMA TreeStep ==
    ASSUME TypeOK, LockHeld, FenceHeld, TreeShown, [Next]_vars
    PROVE  TreeShown'
<1>0. ShownBehindFence /\ \A q \in Proc : RootReady(q)
  BY Zenon DEF TreeShown, ShownBehindFence, RootReady
<1>1. ASSUME NEW p \in Proc, Act(p) PROVE TreeShown'
  <2>1. ASSUME NEW q \in Proc, q # p PROVE RootReady(q)'
    <3>1. pc'[q] = pc[q] /\ op'[q] = op[q]
      BY <1>1, <2>1, OthersKept, Zenon
    <3>2. CASE UnderLock(q)
      <4>1. root' = root
        BY <1>1, <2>1, <3>2, Exclusive, UnlockedStep, Zenon
      <4>2. QED
        BY <1>0, <3>1, <4>1, Zenon DEF RootReady
    <3>3. CASE ~UnderLock(q)
      BY <3>1, <3>3, Zenon DEF RootReady, UnderLock, LockHeld, KindOf, ReplaceLabel
    <3>4. QED
      BY <3>2, <3>3, Zenon
  <2>2. RootReady(p)' /\ ShownBehindFence'
    BY <1>0, <1>1, RootOwn, ShownStep, Zenon
  <2>3. QED
    BY <2>1, <2>2, Zenon DEF TreeShown, ShownBehindFence, RootReady
<1>2. CASE Outside
  <2>1. ASSUME NEW c \in Client, NEW f \in File, NEW b \in Blob, Publish(c, f, b) PROVE TreeShown'
    <3>1. /\ root'.exists = root.exists /\ liveTree' = root'.files
          /\ UNCHANGED <<generation, deleting, pc, op>>
      BY <2>1, Zenon DEF Publish, TypeOK
    <3>2. generation.phase = "live"
      BY <2>1, Zenon DEF Publish
    <3>3. QED
      BY <3>1, <3>2, Zenon DEF TreeShown
  <2>2. CASE (\E c \in Client : Open(c)) \/ UpdateWorkspaceSettings \/ LockExpires
    <3>1. UNCHANGED <<generation, deleting, pc, op, root, liveTree>>
      BY <2>2, Zenon DEF Open, UpdateWorkspaceSettings, LockExpires, store, live, ghosts
    <3>2. QED
      BY <3>1, Zenon DEF TreeShown
  <2>3. QED
    BY <1>2, <2>1, <2>2, Zenon DEF Outside
<1>3. CASE UNCHANGED vars
  BY <1>3, Zenon DEF vars, store, live, ghosts, TreeShown
<1>4. QED
  BY <1>1, <1>2, <1>3, NextForm, Zenon

-----------------------------------------------------------------------------

(* The baseline: the checkpoint of the tree that is being replaced.        *)

LEMMA DeletingGrows ==
    ASSUME TypeOK, NEW p \in Proc, Act(p), ~deleting'
    PROVE  ~deleting
<1>1. CASE Begin(p)
  BY <1>1, BeginForm, Zenon DEF Begun, ghosts
<1>2. CASE SaveOn(p)
  BY Zenon, <1>2 DEF SaveOn, CaptureMeta, CaptureRoot, CaptureFile, CaptureEnd, SaveHead, SaveRead,
     SaveExec, Local, Return, ghosts
<1>3. CASE RestoreOn(p)
  BY Zenon, <1>3 DEF RestoreOn, RestoreLock, RestoreReadGeneration, RestoreFence, LostCheck,
     RestoreActivity, RestoreMark, MoveWorkspaceHead, ResetFile, ResetDone, WriteNode,
     MarkWorkspaceRootClean, CompleteRestore, AcquireImportLock, Local, Return, ghosts
<1>4. CASE DeleteOn(p)
  BY Zenon, <1>4 DEF DeleteOn, DeleteCheckpointRead, DeleteCheckpointExec, DeleteWorkspaceLock,
     DeleteWorkspaceFence, DeleteWorkspaceBatch, DeleteWorkspaceRetire, AcquireImportLock,
     Local, Return, ghosts
<1>5. CASE Stop(p)
  BY <1>5, Zenon DEF Stop, Release, Heartbeat, Fail, Crash, ghosts
<1>6. QED
  BY <1>1, <1>2, <1>3, <1>4, <1>5, Zenon DEF Act

(* No step changes the tree stored under the head or the baseline: a save  *)
(* uses a free name, and a deletion refuses both.                          *)
LEMMA SavepointKept ==
    ASSUME TypeOK, FenceHeld, WatchGuards, TreeShown, NEW p \in Proc, Act(p), ~deleting,
           NEW c \in Cp, c \in {head, before}, savepoint[c] # None
    PROVE  savepoint'[c] = savepoint[c]
<1>0. savepoint \in [Cp -> Part \cup {None}] /\ op[p] \in Op
  BY Zenon DEF TypeOK
<1>1. CASE Begin(p)
  BY <1>1, BeginForm, Zenon DEF Begun, store, catalog
<1>2. CASE SaveOn(p)
  <2>1. CASE SaveExec(p) /\ p \notin stale
    <3>1. savepoint[op[p].name] = None
      BY <2>1, Zenon DEF SaveExec, WatchGuards, ReadsHold
    <3>2. savepoint' = [savepoint EXCEPT ![op[p].name] = op[p].tree]
      BY <2>1, Zenon DEF SaveExec
    <3>3. QED
      BY <1>0, <3>1, <3>2, Zenon
  <2>2. CASE ~(SaveExec(p) /\ p \notin stale)
    BY Zenon, <1>2, <2>2 DEF SaveOn, CaptureMeta, CaptureRoot, CaptureFile, CaptureEnd, SaveHead, SaveRead,
       SaveExec, Local, Return, store, catalog
  <2>3. QED
    BY <2>1, <2>2, Zenon
<1>3. CASE RestoreOn(p)
  BY Zenon, <1>3 DEF RestoreOn, RestoreLock, RestoreReadGeneration, RestoreFence, LostCheck,
     RestoreActivity, RestoreMark, MoveWorkspaceHead, ResetFile, ResetDone, WriteNode,
     MarkWorkspaceRootClean, CompleteRestore, AcquireImportLock, Local, Return, store, catalog
<1>4. CASE DeleteOn(p)
  <2>1. CASE DeleteCheckpointExec(p) /\ p \notin stale
    <3>1. op[p].cp \notin {head, before}
      BY <2>1, Zenon DEF DeleteCheckpointExec, WatchGuards, ReadsHold
    <3>2. savepoint' = [savepoint EXCEPT ![op[p].cp] = None]
      BY <2>1, Zenon DEF DeleteCheckpointExec
    <3>3. QED
      BY <1>0, <3>1, <3>2, Zenon
  <2>2. ASSUME NEW k \in Batch, DeleteWorkspaceBatch(p, k) PROVE FALSE
    <3>1. pc[p] = "dwDelete"
      BY <2>2, Zenon DEF DeleteWorkspaceBatch
    <3>2. generation.phase = "deleted"
      BY <3>1, Zenon DEF FenceHeld, FenceOf
    <3>3. QED
      BY <3>2, Zenon DEF TreeShown
  <2>3. CASE \/ DeleteCheckpointRead(p) \/ (DeleteCheckpointExec(p) /\ p \in stale)
             \/ DeleteWorkspaceLock(p) \/ DeleteWorkspaceFence(p) \/ DeleteWorkspaceRetire(p)
    BY Zenon, <2>3 DEF DeleteCheckpointRead, DeleteCheckpointExec, DeleteWorkspaceLock, DeleteWorkspaceFence,
       DeleteWorkspaceRetire, AcquireImportLock, Local, Return, store, catalog
  <2>4. QED
    BY <1>4, <2>1, <2>2, <2>3, Zenon DEF DeleteOn
<1>5. CASE Stop(p)
  BY <1>5, Zenon DEF Stop, Release, Heartbeat, Fail, Crash, store, catalog
<1>6. QED
  BY <1>1, <1>2, <1>3, <1>4, <1>5, Zenon DEF Act

(* While q works under the lock nobody else moves the head: a save commits *)
(* only if the lock key is missing.                                        *)
LEMMA HeadKept ==
    ASSUME TypeOK, LockHeld, WatchGuards, NEW p \in Proc, NEW q \in Proc, q # p, UnderLock(q), Act(p)
    PROVE  head' = head
<1>0. ~UnderLock(p) /\ importLock = q /\ KindOf(p)
  BY Exclusive, Zenon DEF LockHeld
<1>1. CASE Begin(p)
  BY <1>1, BeginForm, Zenon DEF Begun, store
<1>2. CASE SaveOn(p)
  <2>1. CASE SaveExec(p) /\ p \notin stale
    <3>1. LockAllowsSave(p) /\ op[p].kind # "restore"
      BY <1>0, <2>1, Zenon DEF SaveExec, WatchGuards, ReadsHold, UnderLock
    <3>2. QED
      BY <1>0, <3>1, Distinct, Zenon DEF LockAllowsSave
  <2>2. CASE ~(SaveExec(p) /\ p \notin stale)
    BY Zenon, <1>2, <2>2 DEF SaveOn, CaptureMeta, CaptureRoot, CaptureFile, CaptureEnd, SaveHead, SaveRead,
       SaveExec, Local, Return, store
  <2>3. QED
    BY <2>1, <2>2, Zenon
<1>3. CASE RestoreOn(p)
  <2>1. ~MoveWorkspaceHead(p)
    BY <1>0, Zenon DEF MoveWorkspaceHead, KindOf, UnderLock, ReplaceLabel
  <2>2. QED
    BY Zenon, <1>3, <2>1 DEF RestoreOn, RestoreLock, RestoreReadGeneration, RestoreFence, LostCheck,
     RestoreActivity, RestoreMark, ResetFile, ResetDone, WriteNode,
     MarkWorkspaceRootClean, CompleteRestore, AcquireImportLock, Local, Return, store
<1>4. CASE DeleteOn(p)
  <2>1. ~DeleteWorkspaceRetire(p)
    BY <1>0, Zenon DEF DeleteWorkspaceRetire, KindOf, UnderLock
  <2>2. QED
    BY Zenon, <1>4, <2>1 DEF DeleteOn, DeleteCheckpointRead, DeleteCheckpointExec, DeleteWorkspaceLock,
     DeleteWorkspaceFence, DeleteWorkspaceBatch, AcquireImportLock, Local, Return, store
<1>5. CASE Stop(p)
  BY <1>5, Zenon DEF Stop, Release, Heartbeat, Fail, Crash, store
<1>6. QED
  BY <1>1, <1>2, <1>3, <1>4, <1>5, Zenon DEF Act

LEMMA BaselineOthers ==
    ASSUME TypeOK, LockHeld, FenceHeld, WatchGuards, TreeShown, ~deleting,
           NEW p \in Proc, NEW q \in Proc, q # p, Act(p), op[q].kind = "restore", BaselineOf(q)
    PROVE  BaselineOf(q)'
<1>1. pc'[q] = pc[q] /\ op'[q] = op[q]
  BY OthersKept, Zenon
<1>2. CASE ~UnderLock(q)
  BY <1>1, <1>2, Zenon DEF UnderLock, BaselineOf, CaptureLabel
<1>3. CASE UnderLock(q)
  <2>1. root' = root /\ before' = before /\ liveTree' = liveTree /\ head' = head
    BY <1>3, Exclusive, UnlockedStep, HeadKept, Zenon
  <2>2. liveTree # None /\ head \in Cp \cup {None} /\ before \in Cp \cup {None}
    BY TreeIsNotNone, Zenon DEF TypeOK
  <2>3. head # None /\ savepoint[head] = liveTree => savepoint'[head] = savepoint[head]
    BY <2>2, SavepointKept, Zenon
  <2>4. before # None /\ savepoint[before] = liveTree => savepoint'[before] = savepoint[before]
    BY <2>2, SavepointKept, Zenon
  <2>5. QED
    BY <1>1, <2>1, <2>3, <2>4, Zenon DEF BaselineOf
<1>4. QED
  BY <1>2, <1>3, Zenon

(* The capture of a restore, from its first read to the stored checkpoint. *)
LEMMA BaselineCapture ==
    ASSUME TypeOK, LockHeld, FenceHeld, WatchGuards, TreeShown, ~deleting, NEW p \in Proc,
           op[p].kind = "restore", BaselineOf(p), SaveOn(p)
    PROVE  BaselineOf(p)'
<1>0. /\ pc \in [Proc -> Label] /\ op \in [Proc -> Op] /\ op[p] \in Op
      /\ savepoint \in [Cp -> Part \cup {None}] /\ root.files \in Part /\ op[p].tree \in Part
  BY Zenon DEF TypeOK, Op
<1>1. root.files = liveTree
  <2>1. pc[p] \in CaptureLabel
    BY SaveLabels, Zenon
  <2>2. generation.phase = "fencing"
    BY <2>1, Zenon DEF FenceHeld, FenceOf
  <2>3. QED
    BY <2>2, Zenon DEF TreeShown
<1>2. CASE Return(p)
  BY <1>0, <1>2, Zenon DEF Return, Local, Goto, BaselineOf, CaptureLabel
<1>3. CASE CaptureMeta(p) /\ ~Return(p)
  <2>1. pc'[p] = "capRoot" /\ op'[p].head = head /\ head' = head
    BY <1>0, <1>3, SMTT(60) DEF CaptureMeta, Local, Goto, store, Op
  <2>2. QED
    BY <2>1, Zenon DEF BaselineOf, CaptureLabel
<1>4. CASE CaptureRoot(p) /\ ~Return(p)
  <2>1. op'[p] = [op[p] EXCEPT !.changes = changes, !.todo = File]
    BY <1>0, <1>4, Zenon DEF CaptureRoot, Local
  <2>2. op'[p].head = op[p].head /\ op'[p].todo = File
    BY <1>0, <2>1, Zenon DEF Op
  <2>3. pc[p] = "capRoot" /\ pc'[p] = "capFiles" /\ head' = head
    BY <1>0, <1>4, Zenon DEF CaptureRoot, Local, Goto, store
  <2>4. QED
    BY <2>2, <2>3, Zenon DEF BaselineOf, CaptureLabel
<1>5. ASSUME NEW f \in File, CaptureFile(p, f) PROVE BaselineOf(p)'
  <2>1. op'[p] = Captured(op[p], f, root.files[f])
    BY <1>0, <1>5, Zenon DEF CaptureFile, Local, Captured
  <2>2. /\ op'[p].head = op[p].head /\ op'[p].todo = op[p].todo \ {f}
        /\ op'[p].tree = [op[p].tree EXCEPT ![f] = root.files[f]]
    BY <1>0, <2>1, Zenon DEF Captured, Op
  <2>3. pc[p] = "capFiles" /\ pc'[p] = "capFiles" /\ head' = head /\ root' = root
    BY <1>0, <1>5, Zenon DEF CaptureFile, Local, Goto, store, live
  <2>4. \A g \in File \ op'[p].todo : op'[p].tree[g] = root'.files[g]
    BY <1>0, <2>2, <2>3, ZenonT(60) DEF BaselineOf, Part
  <2>5. QED
    BY <2>2, <2>3, <2>4, Zenon DEF BaselineOf, CaptureLabel
<1>6. CASE CaptureEnd(p)
  <2>1. /\ pc[p] = "capFiles" /\ op[p].todo = {} /\ pc'[p] \in {"saveHead", "release"}
        /\ op'[p] = op[p] /\ UNCHANGED <<head, root>>
    BY <1>0, <1>6, Zenon DEF CaptureEnd, Local, Goto, store, live
  <2>2. \A g \in File : op[p].tree[g] = root.files[g]
    BY <2>1, Zenon DEF BaselineOf
  <2>3. op[p].tree = root.files
    BY <1>0, <2>2, SMTT(60) DEF Part
  <2>4. QED
    BY <2>1, <2>3, Zenon DEF BaselineOf, CaptureLabel
<1>7. CASE SaveHead(p) /\ ~Return(p)
  <2>1. /\ pc[p] = "saveHead" /\ head # None /\ op'[p] = op[p]
        /\ UNCHANGED <<head, root, savepoint, liveTree>>
        /\ \/ pc'[p] = "lostCheck" /\ savepoint[op[p].head] = op[p].tree
           \/ pc'[p] = "saveRead"
    BY <1>0, <1>7, Zenon DEF SaveHead, Local, Goto, store, live, catalog, ghosts
  <2>2. op[p].head = head /\ op[p].tree = root.files
    BY <2>1, Zenon DEF BaselineOf, CaptureLabel
  <2>3. QED
    BY <1>1, <2>1, <2>2, Zenon DEF BaselineOf, CaptureLabel
<1>8. CASE SaveRead(p) /\ ~Return(p)
  <2>1. op'[p].head = op[p].head /\ op'[p].tree = op[p].tree
    BY <1>0, <1>8, SMTT(60) DEF SaveRead, Op
  <2>2. pc[p] = "saveRead" /\ pc'[p] = "saveExec" /\ UNCHANGED <<head, root>>
    BY <1>0, <1>8, Zenon DEF SaveRead, Goto, store, live
  <2>3. QED
    BY <2>1, <2>2, Zenon DEF BaselineOf, CaptureLabel
<1>9. CASE SaveExec(p) /\ ~Return(p)
  <2>1. /\ pc[p] = "saveExec" /\ pc'[p] = "lostCheck" /\ op' = op /\ head' = op[p].name
        /\ savepoint' = [savepoint EXCEPT ![op[p].name] = op[p].tree] /\ liveTree' = liveTree
    BY <1>0, <1>9, Zenon DEF SaveExec, Goto
  <2>2. op[p].name \in Cp /\ op[p].tree = root.files
    BY <1>0, <2>1, Zenon DEF BaselineOf, Op
  <2>3. head' # None /\ savepoint'[head'] = liveTree'
    BY <1>0, <1>1, <2>1, <2>2, Distinct, Zenon
  <2>4. QED
    BY <2>1, <2>3, Zenon DEF BaselineOf, CaptureLabel
<1>10. QED
  BY <1>2, <1>3, <1>4, <1>5, <1>6, <1>7, <1>8, <1>9, Zenon DEF SaveOn

(* The other steps of a restore until the replacement begins.              *)
LEMMA BaselineRestore ==
    ASSUME TypeOK, FenceHeld, TreeShown, TreeShown', ReplacedTreeKept, ~deleting, ~deleting',
           NEW p \in Proc, LockHeld, BaselineOf(p), RestoreOn(p)
    PROVE  BaselineOf(p)'
<1>0. pc \in [Proc -> Label] /\ op \in [Proc -> Op] /\ op[p] \in Op /\ FenceOf(p)
  BY Zenon DEF TypeOK, FenceHeld
<1>1. CASE RestoreFence(p)
  <2>1. /\ op' = op /\ generation' = op[p].gen /\ pc[p] = "fence" /\ root' = root
        /\ \/ pc'[p] = "capMeta"
           \/ pc'[p] = "lostCheck" /\ (op[p].recovering \/ ~root.exists)
    BY <1>0, <1>1, Zenon DEF RestoreFence, Goto, live
  <2>2. ~op[p].recovering => root.exists
    BY <1>0, <2>1, Zenon DEF FenceOf, TreeShown
  <2>3. QED
    BY <2>1, <2>2, Zenon DEF BaselineOf, CaptureLabel
<1>2. CASE LostCheck(p, "lostCheck", "activity")
  <2>1. /\ pc[p] = "lostCheck" /\ pc'[p] \in {"activity", "release"} /\ op'[p] = op[p]
        /\ UNCHANGED <<head, savepoint, liveTree>>
    BY <1>0, <1>2, Zenon DEF LostCheck, Local, Goto, store, catalog, ghosts
  <2>2. QED
    BY <2>1, Zenon DEF BaselineOf, CaptureLabel
<1>3. CASE RestoreActivity(p)
  <2>1. /\ pc[p] = "activity" /\ pc'[p] \in {"restoring", "release"}
        /\ UNCHANGED <<head, savepoint, liveTree>>
        /\ before' = IF op[p].recovering \/ head = None THEN before ELSE head
    BY <1>0, <1>3, Zenon DEF RestoreActivity, Goto, catalog, ghosts
  <2>2. CASE op[p].recovering
    <3>1. generation.phase = "restoring"
      BY <1>0, <2>1, <2>2, Zenon DEF FenceOf
    <3>2. before # None /\ savepoint[before] = liveTree
      BY <3>1, Zenon DEF ReplacedTreeKept
    <3>3. QED
      BY <2>1, <2>2, <3>2, Zenon DEF BaselineOf, CaptureLabel
  <2>3. CASE ~op[p].recovering
    <3>1. head # None /\ savepoint[head] = liveTree
      BY <2>1, <2>3, Zenon DEF BaselineOf
    <3>2. QED
      BY <2>1, <2>3, <3>1, Zenon DEF BaselineOf, CaptureLabel
  <2>4. QED
    BY <2>2, <2>3, Zenon
<1>4. CASE \/ RestoreLock(p) \/ RestoreReadGeneration(p) \/ RestoreMark(p) \/ MoveWorkspaceHead(p)
           \/ (\E f \in File : ResetFile(p, f)) \/ ResetDone(p) \/ (\E f \in File : WriteNode(p, f))
           \/ MarkWorkspaceRootClean(p) \/ LostCheck(p, "lostCheck2", "complete") \/ CompleteRestore(p)
  <2>1. pc'[p] \in {"readGen", "release", "fence"} \cup ReplaceLabel
    BY Zenon, <1>0, <1>4 DEF RestoreLock, RestoreReadGeneration, RestoreMark, MoveWorkspaceHead, ResetFile,
       ResetDone, WriteNode, MarkWorkspaceRootClean, LostCheck, CompleteRestore, AcquireImportLock,
       Local, Return, Goto, ReplaceLabel
  <2>2. QED
    BY <2>1, Zenon DEF BaselineOf, CaptureLabel, ReplaceLabel
<1>5. QED
  BY <1>1, <1>2, <1>3, <1>4, Zenon DEF RestoreOn

LEMMA BaselineOwn ==
    ASSUME TypeOK, LockHeld, FenceHeld, WatchGuards, TreeShown, TreeShown', BaselineKept,
           ~deleting, ~deleting', NEW p \in Proc, Act(p), op'[p].kind = "restore"
    PROVE  BaselineOf(p)'
<1>0. pc \in [Proc -> Label] /\ op \in [Proc -> Op] /\ op[p] \in Op /\ KindOf(p)
  BY Zenon DEF TypeOK, LockHeld
<1>1. CASE Begin(p)
  <2>1. pc'[p] = "lock"
    BY <1>0, <1>1, BeginForm, Zenon DEF Begun
  <2>2. QED
    BY <2>1, Zenon DEF BaselineOf, CaptureLabel
<1>2. CASE SaveOn(p)
  <2>1. op[p].kind = "restore"
    BY <1>2, SaveFields, Zenon
  <2>2. QED
    BY <1>2, <2>1, BaselineCapture, Zenon DEF BaselineKept
<1>3. CASE RestoreOn(p)
  <2>1. op[p].kind = "restore"
    BY <1>3, RestoreFields, Zenon
  <2>2. QED
    BY <1>3, <2>1, BaselineRestore, Zenon DEF BaselineKept
<1>4. CASE DeleteOn(p)
  <2>1. op[p].kind = "restore"
    BY <1>4, DeleteFields, Zenon
  <2>2. ASSUME NEW k \in Batch, DeleteWorkspaceBatch(p, k) PROVE FALSE
    BY <1>0, <2>1, <2>2, Zenon DEF DeleteWorkspaceBatch, KindOf
  <2>3. DeleteWorkspaceLock(p)
    BY Zenon, <1>0, <1>4, <2>1, <2>2 DEF DeleteOn, DeleteCheckpointRead, DeleteCheckpointExec,
       DeleteWorkspaceFence, DeleteWorkspaceRetire, KindOf
  <2>4. pc'[p] \in {"dwFence", "release"}
    BY <1>0, <2>3, Zenon DEF DeleteWorkspaceLock, AcquireImportLock, Return, Local, Goto
  <2>5. QED
    BY <2>4, Zenon DEF BaselineOf, CaptureLabel
<1>5. CASE Stop(p)
  <2>1. \/ pc'[p] \in {"idle", "release"}
        \/ /\ pc'[p] = pc[p] /\ op'[p] = op[p]
           /\ UNCHANGED <<head, root, savepoint, before, liveTree>>
    BY <1>0, <1>5, Zenon DEF Stop, Release, Heartbeat, Fail, Crash, Goto, store, catalog, live, ghosts
  <2>2. QED
    BY <2>1, Zenon DEF BaselineOf, BaselineKept, CaptureLabel
<1>6. QED
  BY <1>1, <1>2, <1>3, <1>4, <1>5, Zenon DEF Act

LEMMA ReplacedStep ==
    ASSUME TypeOK, LockHeld, FenceHeld, WatchGuards, TreeShown, BaselineKept,
           ~deleting, NEW p \in Proc, Act(p)
    PROVE  ReplacedTreeKept'
<1>0. /\ pc \in [Proc -> Label] /\ op \in [Proc -> Op] /\ op[p] \in Op /\ KindOf(p) /\ FenceOf(p)
      /\ before \in Cp \cup {None} /\ liveTree # None /\ ReplacedTreeKept
  BY TreeIsNotNone, Zenon DEF TypeOK, LockHeld, FenceHeld, BaselineKept
<1>1. ASSUME generation'.phase = "restoring" => generation.phase = "restoring" /\ before' = before,
             liveTree' = liveTree
      PROVE  ReplacedTreeKept'
  BY <1>0, <1>1, SavepointKept, Zenon DEF ReplacedTreeKept
<1>2. UNCHANGED <<generation, before, liveTree>> => ReplacedTreeKept'
  BY <1>1, Zenon
<1>3. CASE Begin(p) \/ SaveOn(p) \/ Stop(p)
  <2>1. CASE Begin(p)
    BY <1>2, <2>1, BeginForm, Zenon DEF Begun, store, ghosts
  <2>2. CASE SaveOn(p)
    <3>1. SaveExec(p) => UNCHANGED <<generation, before, liveTree>>
      BY Zenon DEF SaveExec, Local, Return, store, ghosts
    <3>2. ASSUME NEW f \in File, CaptureFile(p, f) PROVE UNCHANGED <<generation, before, liveTree>>
      BY <3>2, Zenon DEF CaptureFile, Local, store, ghosts
    <3>3. UNCHANGED <<generation, before, liveTree>>
      BY Zenon, <2>2, <3>1, <3>2 DEF SaveOn, CaptureMeta, CaptureRoot, CaptureEnd, SaveHead, SaveRead,
         Local, Return, store, ghosts
    <3>4. QED
      BY <1>2, <3>3, Zenon
  <2>3. CASE Stop(p)
    BY <1>2, <2>3, Zenon DEF Stop, Release, Heartbeat, Fail, Crash, store, ghosts
  <2>4. QED
    BY <1>3, <2>1, <2>2, <2>3, Zenon
<1>4. CASE RestoreOn(p)
  <2>1. CASE RestoreFence(p)
    <3>1. /\ pc[p] = "fence" /\ generation' = op[p].gen
          /\ UNCHANGED <<before, liveTree>>
      BY <2>1, Zenon DEF RestoreFence, ghosts
    <3>2. generation'.phase = "restoring" => generation.phase = "restoring"
      <4>1. /\ op[p].recovering = (generation.phase = "restoring")
            /\ op[p].gen.phase = IF op[p].recovering THEN "restoring" ELSE "fencing"
        BY <1>0, <3>1, Zenon DEF FenceOf
      <4>2. CASE op[p].recovering
        BY <4>1, <4>2, Zenon
      <4>3. CASE ~op[p].recovering
        BY <3>1, <4>1, <4>3, Zenon
      <4>4. QED
        BY <4>2, <4>3, Zenon
    <3>3. QED
      BY <1>1, <3>1, <3>2, Zenon
  <2>2. CASE RestoreActivity(p)
    BY <1>0, <1>1, <2>2, Zenon DEF RestoreActivity, FenceOf, ghosts
  <2>3. CASE RestoreMark(p)
    <3>1. before # None /\ savepoint[before] = liveTree
      BY <1>0, <2>3, Zenon DEF RestoreMark, KindOf, BaselineKept, BaselineOf
    <3>2. UNCHANGED <<before, savepoint, liveTree>>
      BY <2>3, Zenon DEF RestoreMark, catalog, ghosts
    <3>3. QED
      BY <3>1, <3>2, Zenon DEF ReplacedTreeKept
  <2>4. CASE CompleteRestore(p)
    <3>1. CASE Return(p)
      BY <1>2, <3>1, Zenon DEF Return, Local, store, ghosts
    <3>2. CASE ~Return(p)
      <4>1. generation' = [phase |-> "live", token |-> op[p].gen.token]
        BY <2>4, <3>2, Zenon DEF CompleteRestore
      <4>2. QED
        BY <4>1, Zenon DEF ReplacedTreeKept
    <3>3. QED
      BY <3>1, <3>2, Zenon
  <2>5. CASE \/ RestoreLock(p) \/ RestoreReadGeneration(p) \/ LostCheck(p, "lostCheck", "activity")
             \/ MoveWorkspaceHead(p) \/ (\E f \in File : ResetFile(p, f)) \/ ResetDone(p)
             \/ (\E f \in File : WriteNode(p, f)) \/ MarkWorkspaceRootClean(p)
             \/ LostCheck(p, "lostCheck2", "complete")
    <3>0. RestoreReadGeneration(p) => UNCHANGED <<generation, before, liveTree>>
      BY Zenon DEF RestoreReadGeneration, store, ghosts
    <3>1. UNCHANGED <<generation, before, liveTree>>
      BY Zenon, <2>5, <3>0 DEF RestoreLock, LostCheck, MoveWorkspaceHead, ResetFile,
         ResetDone, WriteNode, MarkWorkspaceRootClean, AcquireImportLock, Return, Local, store, ghosts
    <3>2. QED
      BY <1>2, <3>1, Zenon
  <2>6. QED
    BY <1>4, <2>1, <2>2, <2>3, <2>4, <2>5, Zenon DEF RestoreOn
<1>5. CASE DeleteOn(p)
  <2>1. CASE DeleteWorkspaceFence(p)
    <3>1. CASE Return(p)
      BY <1>2, <3>1, Zenon DEF Return, Local, store, ghosts
    <3>2. CASE ~Return(p)
      <4>1. deleting'
        BY <2>1, <3>2, Zenon DEF DeleteWorkspaceFence
      <4>2. QED
        BY <4>1, Zenon DEF ReplacedTreeKept
    <3>3. QED
      BY <3>1, <3>2, Zenon
  <2>2. CASE (\E k \in Batch : DeleteWorkspaceBatch(p, k)) \/ DeleteWorkspaceRetire(p)
    <3>1. ASSUME NEW k \in Batch, DeleteWorkspaceBatch(p, k)
          PROVE  generation' = generation /\ pc[p] = "dwDelete"
      BY <3>1, Zenon DEF DeleteWorkspaceBatch
    <3>2. generation' = generation /\ pc[p] = "dwDelete"
      BY <2>2, <3>1, Zenon DEF DeleteWorkspaceRetire
    <3>3. QED
      BY <1>0, <3>2, Zenon DEF FenceOf, ReplacedTreeKept
  <2>3. CASE DeleteCheckpointRead(p) \/ DeleteCheckpointExec(p) \/ DeleteWorkspaceLock(p)
    BY Zenon, <1>2, <2>3 DEF DeleteCheckpointRead, DeleteCheckpointExec, DeleteWorkspaceLock,
       AcquireImportLock, Return, Local, store, ghosts
  <2>4. QED
    BY <1>5, <2>1, <2>2, <2>3, Zenon DEF DeleteOn
<1>6. QED
  BY <1>3, <1>4, <1>5, Zenon DEF Act

LEMMA BaselineStep ==
    ASSUME RestoreInv, TreeShown', [Next]_vars
    PROVE  BaselineKept'
<1>0. TypeOK /\ LockHeld /\ FenceHeld /\ WatchGuards /\ TreeShown /\ BaselineKept
  BY Zenon DEF RestoreInv
<1>1. ASSUME NEW p \in Proc, Act(p), ~deleting' PROVE BaselineKept'
  <2>1. ~deleting
    BY <1>0, <1>1, DeletingGrows, Zenon
  <2>2. ReplacedTreeKept'
    BY <1>0, <1>1, <2>1, ReplacedStep, Zenon
  <2>3. ASSUME NEW q \in Proc, op'[q].kind = "restore" PROVE BaselineOf(q)'
    <3>1. CASE q = p
      BY <1>0, <1>1, <2>1, <2>3, <3>1, BaselineOwn, Zenon
    <3>2. CASE q # p
      <4>1. op[q].kind = "restore"
        BY <1>0, <1>1, <2>3, <3>2, OthersKept, Zenon
      <4>2. BaselineOf(q)
        BY <1>0, <2>1, <4>1, Zenon DEF BaselineKept
      <4>3. QED
        BY <1>0, <1>1, <2>1, <3>2, <4>1, <4>2, BaselineOthers, Zenon
    <3>3. QED
      BY <3>1, <3>2, Zenon
  <2>4. QED
    BY <2>2, <2>3, Zenon DEF BaselineKept
<1>2. ASSUME NEW c \in Client, NEW f \in File, NEW b \in Blob, Publish(c, f, b) PROVE BaselineKept'
  <2>1. generation.phase = "live" /\ UNCHANGED <<generation, head, deleting, pc, op>>
    BY <1>2, Zenon DEF Publish
  <2>2. ReplacedTreeKept'
    BY <2>1, Zenon DEF ReplacedTreeKept
  <2>3. ASSUME NEW q \in Proc, op[q].kind = "restore" PROVE BaselineOf(q)'
    <3>1. FenceOf(q)
      BY <1>0, Zenon DEF FenceHeld
    <3>2. pc[q] \notin CaptureLabel \cup {"lostCheck", "activity", "restoring"}
      BY <2>1, <2>3, <3>1, Zenon DEF FenceOf
    <3>3. QED
      BY <2>1, <3>2, Zenon DEF BaselineOf, CaptureLabel
  <2>4. QED
    BY <2>1, <2>2, <2>3, Zenon DEF BaselineKept
<1>3. CASE (\E c \in Client : Open(c)) \/ UpdateWorkspaceSettings \/ LockExpires
  <2>1. UNCHANGED <<generation, head, before, savepoint, root, liveTree, deleting, pc, op>>
    BY <1>3, Zenon DEF Open, UpdateWorkspaceSettings, LockExpires, store, catalog, live, ghosts
  <2>2. QED
    BY <1>0, <2>1, Zenon DEF BaselineKept, BaselineOf, ReplacedTreeKept
<1>4. CASE UNCHANGED vars
  BY <1>0, <1>4, Zenon DEF vars, store, catalog, live, ghosts, BaselineKept, BaselineOf, ReplacedTreeKept
<1>5. deleting' => BaselineKept'
  BY Zenon DEF BaselineKept
<1>6. QED
  BY <1>1, <1>2, <1>3, <1>4, <1>5, NextForm, Zenon DEF Outside

LEMMA BaselineInit ==
    ASSUME Init
    PROVE  WatchGuards /\ TreeShown /\ BaselineKept
<1>1. \A p \in Proc : pc[p] = "idle"
  BY Zenon DEF Init
<1>2. generation.phase = "live"
  BY Zenon DEF Init
<1>3. PICK t \in Tree : root = [exists |-> TRUE, files |-> t] /\ liveTree = t
  BY Zenon DEF Init
<1>4. QED
  BY Zenon, <1>1, <1>2, <1>3 DEF WatchGuards, ReadsHold, TreeShown, BaselineKept, BaselineOf, ReplacedTreeKept,
     CaptureLabel

(* The invariant is inductive: a restore works under its lock, the lock    *)
(* owner wrote the generation, what a transaction read holds when it       *)
(* commits, the tree behind the fence is the last one shown, and so the    *)
(* safety capture is a checkpoint of exactly that tree.                    *)
THEOREM RestoreInductive ==
    ASSUME ~MayStall
    PROVE  Spec => []RestoreInv
<1>1. Init => RestoreInv
  BY InitType, FenceInit, BaselineInit, Zenon DEF RestoreInv
<1>2. ASSUME RestoreInv, [Next]_vars PROVE RestoreInv'
  <2>0. TypeOK /\ LockHeld /\ FenceHeld /\ WatchGuards /\ TreeShown
    BY <1>2, Zenon DEF RestoreInv
  <2>1. TypeOK' /\ LockHeld' /\ FenceHeld' /\ WatchGuards' /\ TreeShown'
    BY <1>2, <2>0, TypeStep, LockStep, FenceStep, WatchStep, TreeStep, Zenon
  <2>2. BaselineKept'
    BY <1>2, <2>1, BaselineStep, Zenon
  <2>3. QED
    BY <2>1, <2>2, Zenon DEF RestoreInv
<1>3. QED
  BY <1>1, <1>2, PTL DEF Spec

(* From the moment a restore marks the generation "restoring" until it is  *)
(* complete, however often it fails and is retried, the checkpoint its     *)
(* activity record names holds the tree that clients last saw: what is     *)
(* being replaced is never lost.                                           *)
THEOREM ReplacedTreeRecoverable ==
    ASSUME ~MayStall
    PROVE  Spec => []ReplacedTreeKept
<1>1. RestoreInv => ReplacedTreeKept
  BY Zenon DEF RestoreInv, BaselineKept, ReplacedTreeKept
<1>2. QED
  BY <1>1, RestoreInductive, PTL

=============================================================================
