--------------------------- MODULE SnapshotProofs ---------------------------
(***************************************************************************)
(* A checkpoint is one moment of the tree, and a live generation shows a   *)
(* whole one, provided no operation outlives its import lock.              *)
(***************************************************************************)
EXTENDS CheckpointsProofs

(* What an operation starts from.                                          *)
LEMMA BeginOp ==
    ASSUME TypeOK, NEW p \in Proc, Begin(p)
    PROVE  /\ UNCHANGED <<store, nextToken, watch, stale, lost, ghosts>>
           /\ \/ /\ pc'[p] = "capMeta" /\ op'[p].kind = "save" /\ op'[p].gen = generation
                 /\ generation.phase = "live" /\ UserName(op'[p].name)
              \/ /\ \/ pc'[p] = "lock" /\ op'[p].kind = "restore"
                    \/ pc'[p] = "dcRead" /\ op'[p].kind = "deleteCp"
                 /\ op'[p].cp \in Cp /\ savepoint[op'[p].cp] # None
                 /\ op'[p].m = savepoint[op'[p].cp] /\ op'[p].gen.token = 0
              \/ pc'[p] = "lock" /\ op'[p].kind = "deleteWs" /\ op'[p].gen.token = 0
<1>0. pc \in [Proc -> Label] /\ op \in [Proc -> Op]
  BY Zenon DEF TypeOK
<1>1. ASSUME NEW c \in Cp, SaveStart(p, c)
      PROVE  /\ pc'[p] = "capMeta" /\ op'[p].kind = "save" /\ op'[p].gen = generation
             /\ generation.phase = "live" /\ UserName(op'[p].name)
             /\ UNCHANGED <<store, nextToken, watch, stale, lost, ghosts>>
  <2>1. op'[p] = [NoOp EXCEPT !.kind = "save", !.name = c, !.gen = generation]
    BY <1>0, <1>1, Zenon DEF SaveStart, Local
  <2>2. op'[p].kind = "save" /\ op'[p].name = c /\ op'[p].gen = generation
    BY <2>1, Zenon DEF NoOp
  <2>3. QED
    BY <1>0, <1>1, <2>2, Zenon DEF SaveStart, Local, Goto, WorkspaceLive, counts
<1>2. ASSUME NEW c \in Cp, RestoreStart(p, c)
      PROVE  /\ pc'[p] = "lock" /\ op'[p].kind = "restore"
             /\ op'[p].cp \in Cp /\ savepoint[op'[p].cp] # None
             /\ op'[p].m = savepoint[op'[p].cp] /\ op'[p].gen.token = 0
             /\ UNCHANGED <<store, nextToken, watch, stale, lost, ghosts>>
  <2>1. op'[p] = [NoOp EXCEPT !.kind = "restore", !.cp = c, !.m = savepoint[c]]
    BY <1>0, <1>2, Zenon DEF RestoreStart
  <2>2. /\ op'[p].kind = "restore" /\ op'[p].cp = c /\ op'[p].m = savepoint[c]
        /\ op'[p].gen.token = 0
    BY <2>1, SMTT(60) DEF NoOp
  <2>3. QED
    BY <1>0, <1>2, <2>2, Zenon DEF RestoreStart, Goto
<1>3. ASSUME NEW c \in Cp, DeleteCheckpointStart(p, c)
      PROVE  /\ pc'[p] = "dcRead" /\ op'[p].kind = "deleteCp"
             /\ op'[p].cp \in Cp /\ savepoint[op'[p].cp] # None
             /\ op'[p].m = savepoint[op'[p].cp] /\ op'[p].gen.token = 0
             /\ UNCHANGED <<store, nextToken, watch, stale, lost, ghosts>>
  <2>1. op'[p] = [NoOp EXCEPT !.kind = "deleteCp", !.cp = c, !.m = savepoint[c]]
    BY <1>0, <1>3, Zenon DEF DeleteCheckpointStart, Local
  <2>2. /\ op'[p].kind = "deleteCp" /\ op'[p].cp = c /\ op'[p].m = savepoint[c]
        /\ op'[p].gen.token = 0
    BY <2>1, SMTT(60) DEF NoOp
  <2>3. QED
    BY <1>0, <1>3, <2>2, Zenon DEF DeleteCheckpointStart, Local, Goto, counts
<1>4. CASE DeleteWorkspaceStart(p)
  <2>1. op'[p] = [NoOp EXCEPT !.kind = "deleteWs", !.todo = Batch]
    BY <1>0, <1>4, Zenon DEF DeleteWorkspaceStart, Local
  <2>2. op'[p].kind = "deleteWs" /\ op'[p].gen.token = 0
    BY <2>1, SMTT(60) DEF NoOp
  <2>3. QED
    BY <1>0, <1>4, <2>2, Zenon DEF DeleteWorkspaceStart, Local, Goto, counts
<1>5. QED
  BY <1>1, <1>2, <1>3, <1>4, Zenon DEF Begin

(* The checkpoint an operation is about does not change under it.          *)
LEMMA TargetKept ==
    ASSUME TypeOK, NEW p \in Proc, SaveOn(p) \/ RestoreOn(p) \/ DeleteOn(p)
    PROVE  op'[p].cp = op[p].cp /\ op'[p].m = op[p].m
<1> DEFINE Kept == op'[p].cp = op[p].cp /\ op'[p].m = op[p].m
<1>0. op \in [Proc -> Op] /\ op[p] \in Op
  BY Zenon DEF TypeOK
<1>1. op'[p] = op[p] => Kept
  OBVIOUS
<1>2. CASE SaveOn(p)
  <2>1. CASE CaptureMeta(p)
    BY <1>0, <2>1, SMTT(60) DEF CaptureMeta, Local, Return, Op
  <2>2. CASE CaptureRoot(p)
    <3>1. op'[p] = op[p] \/ op'[p] = [op[p] EXCEPT !.changes = changes, !.todo = File]
      BY <1>0, <2>2, Zenon DEF CaptureRoot, Local, Return
    <3>2. QED
      BY <1>0, <3>1, Zenon DEF Op
  <2>3. ASSUME NEW f \in File, CaptureFile(p, f) PROVE Kept
    <3>1. op'[p] = Captured(op[p], f, root.files[f])
      BY <1>0, <2>3, Zenon DEF CaptureFile, Local, Captured
    <3>2. QED
      BY <1>0, <3>1, Zenon DEF Captured, Op
  <2>4. CASE SaveRead(p)
    BY <1>0, <2>4, SMTT(60) DEF SaveRead, Return, Local, Op
  <2>5. CASE CaptureEnd(p) \/ SaveHead(p) \/ SaveExec(p)
    BY <1>0, <2>5, Zenon DEF CaptureEnd, SaveHead, SaveExec, Local, Return
  <2>6. QED
    BY <1>2, <2>1, <2>2, <2>3, <2>4, <2>5, Zenon DEF SaveOn
<1>3. CASE RestoreOn(p)
  <2>1. CASE RestoreReadGeneration(p)
    BY <1>0, <2>1, SMTT(60) DEF RestoreReadGeneration, Op
  <2>2. CASE RestoreMark(p)
    BY <1>0, <2>2, Zenon DEF RestoreMark, Op
  <2>3. CASE MoveWorkspaceHead(p) \/ ResetDone(p)
    BY <1>0, <2>3, SMTT(60) DEF MoveWorkspaceHead, ResetDone, Local, Return, Op
  <2>4. ASSUME NEW f \in File, ResetFile(p, f) \/ WriteNode(p, f) PROVE Kept
    BY <1>0, <2>4, SMTT(60) DEF ResetFile, WriteNode, Op
  <2>5. CASE \/ RestoreLock(p) \/ RestoreFence(p) \/ RestoreActivity(p)
             \/ MarkWorkspaceRootClean(p) \/ CompleteRestore(p)
             \/ LostCheck(p, "lostCheck", "activity") \/ LostCheck(p, "lostCheck2", "complete")
    BY Zenon, <1>0, <2>5 DEF RestoreLock, RestoreFence, LostCheck, RestoreActivity, MarkWorkspaceRootClean,
       CompleteRestore, AcquireImportLock, Local, Return
  <2>6. QED
    BY <1>3, <2>1, <2>2, <2>3, <2>4, <2>5, Zenon DEF RestoreOn
<1>4. CASE DeleteOn(p)
  <2>1. CASE DeleteCheckpointRead(p)
    BY <1>0, <2>1, SMTT(60) DEF DeleteCheckpointRead, Local, Return, Op
  <2>2. ASSUME NEW k \in Batch, DeleteWorkspaceBatch(p, k) PROVE Kept
    BY <1>0, <2>2, Zenon DEF DeleteWorkspaceBatch, Op
  <2>3. CASE DeleteCheckpointExec(p) \/ DeleteWorkspaceLock(p) \/ DeleteWorkspaceFence(p)
             \/ DeleteWorkspaceRetire(p)
    BY Zenon, <1>0, <2>3 DEF DeleteCheckpointExec, DeleteWorkspaceLock, DeleteWorkspaceFence,
       DeleteWorkspaceRetire, AcquireImportLock, Local, Return
  <2>4. QED
    BY <1>4, <2>1, <2>2, <2>3, Zenon DEF DeleteOn
<1>5. QED
  BY <1>2, <1>3, <1>4, Zenon

-----------------------------------------------------------------------------
(* Generations: who writes the key, and whose tokens are drawn when.       *)

LEMMA GenerationStep ==
    ASSUME TypeOK, NEW p \in Proc, Act(p)
    PROVE  \/ generation' = generation
           \/ RestoreFence(p) /\ generation' = op[p].gen
           \/ RestoreMark(p) /\ generation' = [phase |-> "restoring", token |-> op[p].gen.token]
           \/ /\ CompleteRestore(p) /\ generation = op[p].gen
              /\ generation' = [phase |-> "live", token |-> op[p].gen.token]
           \/ DeleteWorkspaceFence(p) /\ generation' = [phase |-> "deleted", token |-> 0]
<1>1. CASE Begin(p)
  BY <1>1, BeginForm, Zenon DEF Begun, store
<1>2. CASE SaveOn(p)
  BY Zenon, <1>2 DEF SaveOn, CaptureMeta, CaptureRoot, CaptureFile, CaptureEnd, SaveHead, SaveRead,
     SaveExec, Local, Return, store
<1>3. CASE RestoreOn(p)
  <2>1. CASE RestoreFence(p) \/ RestoreMark(p)
    BY <2>1, Zenon DEF RestoreFence, RestoreMark
  <2>2. CASE CompleteRestore(p)
    BY <2>2, Zenon DEF CompleteRestore, Local, Return, store
  <2>3. CASE ~RestoreFence(p) /\ ~RestoreMark(p) /\ ~CompleteRestore(p)
    BY Zenon, <1>3, <2>3 DEF RestoreOn, RestoreLock, RestoreReadGeneration, LostCheck,
       RestoreActivity, MoveWorkspaceHead, ResetFile, ResetDone, WriteNode,
       MarkWorkspaceRootClean, AcquireImportLock, Local, Return, store
  <2>4. QED
    BY <2>1, <2>2, <2>3, Zenon
<1>4. CASE DeleteOn(p)
  <2>1. CASE DeleteWorkspaceFence(p)
    BY <2>1, Zenon DEF DeleteWorkspaceFence, Local, Return, store
  <2>2. CASE ~DeleteWorkspaceFence(p)
    BY Zenon, <1>4, <2>2 DEF DeleteOn, DeleteCheckpointRead, DeleteCheckpointExec, DeleteWorkspaceLock,
       DeleteWorkspaceBatch, DeleteWorkspaceRetire, AcquireImportLock, Local, Return, store
  <2>3. QED
    BY <2>1, <2>2, Zenon
<1>5. CASE Stop(p)
  BY <1>5, Zenon DEF Stop, Release, Heartbeat, Fail, Crash, store
<1>6. QED
  BY <1>1, <1>2, <1>3, <1>4, <1>5, Zenon DEF Act

LEMMA TokenStep ==
    ASSUME TypeOK, NEW p \in Proc, Act(p), ~RestoreReadGeneration(p)
    PROVE  nextToken' = nextToken
<1>1. CASE Begin(p)
  BY <1>1, BeginOp, Zenon
<1>2. CASE SaveOn(p)
  BY Zenon, <1>2 DEF SaveOn, CaptureMeta, CaptureRoot, CaptureFile, CaptureEnd, SaveHead, SaveRead,
     SaveExec, Local, Return, counts
<1>3. CASE RestoreOn(p)
  BY Zenon, <1>3 DEF RestoreOn, RestoreLock, RestoreFence, LostCheck,
       RestoreActivity, RestoreMark, MoveWorkspaceHead, ResetFile, ResetDone, WriteNode,
       MarkWorkspaceRootClean, CompleteRestore, AcquireImportLock, Local, Return, counts
<1>4. CASE DeleteOn(p)
  BY Zenon, <1>4 DEF DeleteOn, DeleteCheckpointRead, DeleteCheckpointExec, DeleteWorkspaceLock,
       DeleteWorkspaceFence, DeleteWorkspaceBatch, DeleteWorkspaceRetire, AcquireImportLock, Local,
       Return, counts
<1>5. CASE Stop(p)
  BY <1>5, Zenon DEF Stop, Release, Heartbeat, Fail, Crash, counts
<1>6. QED
  BY <1>1, <1>2, <1>3, <1>4, <1>5, Zenon DEF Act

LEMMA DeleteGen ==
    ASSUME TypeOK, NEW p \in Proc, DeleteOn(p)
    PROVE  op'[p].gen = op[p].gen
<1>0. op \in [Proc -> Op] /\ op[p] \in Op
  BY Zenon DEF TypeOK
<1>1. CASE DeleteCheckpointRead(p)
  BY <1>0, <1>1, SMTT(60) DEF DeleteCheckpointRead, Local, Return, Op
<1>2. ASSUME NEW k \in Batch, DeleteWorkspaceBatch(p, k) PROVE op'[p].gen = op[p].gen
  BY <1>0, <1>2, Zenon DEF DeleteWorkspaceBatch, Op
<1>3. CASE DeleteCheckpointExec(p) \/ DeleteWorkspaceLock(p) \/ DeleteWorkspaceFence(p)
           \/ DeleteWorkspaceRetire(p)
  BY Zenon, <1>0, <1>3 DEF DeleteCheckpointExec, DeleteWorkspaceLock, DeleteWorkspaceFence,
     DeleteWorkspaceRetire, AcquireImportLock, Local, Return
<1>4. QED
  BY <1>1, <1>2, <1>3, Zenon DEF DeleteOn

(* The token an operation carries: an old one, that of the generation it   *)
(* finds, none, or the one it draws.                                       *)
LEMMA OwnToken ==
    ASSUME TypeOK, NEW p \in Proc, Act(p)
    PROVE  \/ RestoreReadGeneration(p) /\ op'[p].gen.token = nextToken /\ nextToken' = nextToken + 1
           \/ ~RestoreReadGeneration(p) /\ op'[p].gen.token \in {op[p].gen.token, generation.token, 0}
<1>0. op \in [Proc -> Op] /\ op[p] \in Op
  BY Zenon DEF TypeOK
<1>1. CASE RestoreReadGeneration(p)
  <2> DEFINE r == generation.phase = "restoring"
             g == [phase |-> IF r THEN "restoring" ELSE "fencing", token |-> nextToken]
  <2>1. PICK c : op' = [op EXCEPT ![p].recovering = r, ![p].name = c, ![p].gen = g]
    BY <1>1, Zenon DEF RestoreReadGeneration
  <2>2. op'[p].gen = g
    <3> HIDE DEF r, g
    <3> QED BY <1>0, <2>1 DEF Op
  <2>3. nextToken' = nextToken + 1
    BY <1>1, Zenon DEF RestoreReadGeneration
  <2>4. QED
    BY <1>1, <2>2, <2>3, SMTT(60)
<1>2. CASE ~RestoreReadGeneration(p)
  <2>1. CASE Begin(p)
    BY <1>2, <2>1, BeginOp, Zenon
  <2>2. CASE SaveOn(p)
    BY <1>2, <2>2, SaveFields, Zenon
  <2>3. CASE RestoreOn(p)
    <3>1. CASE RestoreMark(p)
      <4>1. op'[p].gen = [phase |-> "restoring", token |-> op[p].gen.token]
        BY <1>0, <3>1, Zenon DEF RestoreMark, Op
      <4>2. QED
        BY <1>2, <4>1, SMTT(60)
    <3>2. CASE ~RestoreMark(p)
      BY <1>2, <2>3, <3>2, RestoreFields, Zenon
    <3>3. QED
      BY <3>1, <3>2, Zenon
  <2>4. CASE DeleteOn(p)
    BY <1>2, <2>4, DeleteGen, Zenon
  <2>5. CASE Stop(p)
    <3>1. op'[p] = op[p] \/ op'[p] = NoOp
      BY <1>0, <2>5, Zenon DEF Stop, Release, Heartbeat, Fail, Crash
    <3>2. NoOp.gen.token = 0
      BY Zenon DEF NoOp
    <3>3. QED
      BY <1>2, <3>1, <3>2, Zenon
  <2>6. QED
    BY <2>1, <2>2, <2>3, <2>4, <2>5, Zenon DEF Act
<1>3. QED
  BY <1>1, <1>2, Zenon

(* A save keeps the generation it has seen, and begins in a live one.      *)
LEMMA SaveGen ==
    ASSUME TypeOK, LockHeld, NEW p \in Proc, Act(p), op'[p].kind = "save"
    PROVE  \/ op[p].kind = "save" /\ op'[p].gen = op[p].gen /\ op'[p].name = op[p].name
           \/ /\ op'[p].gen = generation /\ generation.phase = "live" /\ generation' = generation
              /\ UserName(op'[p].name) /\ used' = used /\ savepoint' = savepoint /\ pc'[p] = "capMeta"
<1>0. op \in [Proc -> Op] /\ op[p] \in Op /\ KindOf(p)
  BY Zenon DEF TypeOK, LockHeld
<1>1. CASE Begin(p)
  BY <1>1, BeginOp, Zenon DEF store, catalog, ghosts
<1>2. CASE SaveOn(p)
  BY <1>2, SaveFields, Zenon
<1>3. CASE RestoreOn(p)
  <2>1. op[p].kind = "save"
    BY <1>3, RestoreFields, Zenon
  <2>2. QED
    BY Zenon, <1>0, <1>3, <2>1 DEF RestoreOn, RestoreLock, RestoreReadGeneration, RestoreFence, LostCheck,
       RestoreActivity, RestoreMark, MoveWorkspaceHead, ResetFile, ResetDone, WriteNode,
       MarkWorkspaceRootClean, CompleteRestore, KindOf, ReplaceLabel
<1>4. CASE DeleteOn(p)
  <2>1. op[p].kind = "save"
    BY <1>4, DeleteFields, Zenon
  <2>2. QED
    BY Zenon, <1>0, <1>4, <2>1 DEF DeleteOn, DeleteCheckpointRead, DeleteCheckpointExec, DeleteWorkspaceLock,
       DeleteWorkspaceFence, DeleteWorkspaceBatch, DeleteWorkspaceRetire, KindOf
<1>5. CASE Stop(p)
  <2>1. op'[p] = op[p] \/ op'[p] = NoOp
    BY <1>0, <1>5, Zenon DEF Stop, Release, Heartbeat, Fail, Crash
  <2>2. NoOp.kind = "none"
    BY Zenon DEF NoOp
  <2>3. QED
    BY <2>1, <2>2, Zenon
<1>6. QED
  BY <1>1, <1>2, <1>3, <1>4, <1>5, Zenon DEF Act

(* A restore that has drawn its token works behind its own fence, or the   *)
(* generation it is about to fence is older.                               *)
LEMMA DrawnForm ==
    ASSUME TypeOK, LockHeld, FenceHeld, TokensFresh, NEW p \in Proc, Drawn(p), generation.phase = "live"
    PROVE  pc[p] = "fence" /\ generation.token < op[p].gen.token
<1>1. KindOf(p) /\ FenceOf(p)
  BY Zenon DEF LockHeld, FenceHeld
<1>2. pc[p] \notin {"lostCheck", "activity", "restoring"} \cup CaptureLabel \cup ReplaceLabel
  BY <1>1, Zenon DEF FenceOf, Drawn
<1>3. pc[p] \notin {"dwFence", "dwDelete", "dcRead", "dcExec", "idle", "lock", "release", "readGen"}
  BY <1>1, Zenon DEF KindOf, Drawn, UnderLock
<1>4. pc[p] \in Label
  BY Zenon DEF TypeOK
<1>5. QED
  BY <1>2, <1>3, <1>4, Zenon DEF TokensFresh, CaptureLabel, ReplaceLabel, Label

(* Which steps leave a restore with a drawn token.                         *)
LEMMA DrawnOwn ==
    ASSUME TypeOK, LockHeld, NEW p \in Proc, Act(p), Drawn(p)', ~RestoreReadGeneration(p)
    PROVE  Drawn(p) /\ op'[p].gen.token = op[p].gen.token /\ (pc'[p] = "fence" => pc[p] = "fence")
<1>0. pc \in [Proc -> Label] /\ op \in [Proc -> Op] /\ op[p] \in Op /\ KindOf(p)
  BY Zenon DEF TypeOK, LockHeld
<1>1. CASE Begin(p)
  BY <1>1, BeginOp, Zenon DEF Drawn, UnderLock
<1>2. CASE SaveOn(p)
  <2>1. pc[p] \in CaptureLabel /\ pc'[p] \in CaptureLabel \cup {"release", "lostCheck"}
    BY <1>2, SaveLabels, Zenon
  <2>2. QED
    BY <1>2, <2>1, SaveFields, Zenon DEF Drawn, UnderLock, CaptureLabel
<1>3. CASE RestoreOn(p)
  <2>1. op'[p].gen.token = op[p].gen.token /\ op'[p].kind = op[p].kind
    <3>1. CASE RestoreMark(p)
      BY <1>0, <3>1, Zenon DEF RestoreMark, Op
    <3>2. CASE ~RestoreMark(p)
      BY <1>3, <3>2, RestoreFields, Zenon
    <3>3. QED
      BY <3>1, <3>2, Zenon
  <2>2. CASE RestoreLock(p)
    BY <1>0, <2>2, Zenon DEF RestoreLock, AcquireImportLock, Return, Local, Goto, Drawn, UnderLock
  <2>3. CASE ~RestoreLock(p)
    <3>1. pc[p] \notin {"idle", "lock", "release", "readGen"} /\ pc'[p] # "fence"
      BY Zenon, <1>0, <1>3, <2>3 DEF RestoreOn, RestoreFence, LostCheck,
         RestoreActivity, RestoreMark, MoveWorkspaceHead, ResetFile, ResetDone, WriteNode,
         MarkWorkspaceRootClean, CompleteRestore, Local, Return, Goto
    <3>2. QED
      BY <2>1, <3>1, Zenon DEF Drawn, UnderLock
  <2>4. QED
    BY <2>2, <2>3, Zenon
<1>4. CASE DeleteOn(p)
  <2>1. op[p].kind = "restore"
    BY <1>4, DeleteFields, Zenon DEF Drawn
  <2>2. pc[p] = "lock" /\ DeleteWorkspaceLock(p)
    BY Zenon, <1>0, <1>4, <2>1 DEF DeleteOn, DeleteCheckpointRead, DeleteCheckpointExec, DeleteWorkspaceLock,
       DeleteWorkspaceFence, DeleteWorkspaceBatch, DeleteWorkspaceRetire, KindOf
  <2>3. QED
    BY <2>1, <2>2, Zenon DEF DeleteWorkspaceLock
<1>5. CASE Stop(p)
  <2>1. \/ pc'[p] \in {"idle", "release"}
        \/ pc'[p] = pc[p] /\ op'[p] = op[p]
    BY <1>0, <1>5, Zenon DEF Stop, Release, Heartbeat, Fail, Crash, Goto
  <2>2. QED
    BY <2>1, Zenon DEF Drawn, UnderLock
<1>6. QED
  BY <1>1, <1>2, <1>3, <1>4, <1>5, Zenon DEF Act

LEMMA TokensStep ==
    ASSUME TypeOK, LockHeld, FenceHeld, TokensFresh, NEW p \in Proc, Act(p)
    PROVE  TokensFresh'
<1>0. /\ pc \in [Proc -> Label] /\ op \in [Proc -> Op] /\ KindOf(p)
      /\ nextToken \in Nat /\ generation.token \in Nat /\ generation.token < nextToken
      /\ \A q \in Proc : op[q].gen.token \in Nat /\ op[q].gen.token < nextToken
  BY Zenon DEF TypeOK, LockHeld, TokensFresh, Op, Generation
<1>1. nextToken' \in {nextToken, nextToken + 1}
  BY TokenStep, Zenon DEF RestoreReadGeneration
<1>2. generation'.token < nextToken'
  <2>1. generation'.token \in {generation.token, op[p].gen.token, 0}
    BY GenerationStep, SMTT(60)
  <2>2. QED
    BY <1>0, <1>1, <2>1, SMTT(60)
<1>3. ASSUME NEW q \in Proc PROVE op'[q].gen.token < nextToken'
  <2>1. CASE q = p
    BY <1>0, <1>1, <2>1, OwnToken, SMTT(60)
  <2>2. CASE q # p
    BY <1>0, <1>1, <2>2, OthersKept, SMTT(60)
  <2>3. QED
    BY <2>1, <2>2, Zenon
<1>4. ASSUME NEW q \in Proc, op'[q].kind = "save" PROVE op'[q].gen.phase = "live"
  <2>1. CASE q = p
    BY <1>4, <2>1, SaveGen, Zenon DEF TokensFresh
  <2>2. CASE q # p
    BY <1>4, <2>2, OthersKept, Zenon DEF TokensFresh
  <2>3. QED
    BY <2>1, <2>2, Zenon
<1>5. ASSUME NEW q \in Proc, pc'[q] = "fence" PROVE generation'.token < op'[q].gen.token
  <2>1. CASE RestoreReadGeneration(p) /\ q = p
    <3>1. op'[q].gen.token = nextToken /\ generation' = generation
      BY <2>1, OwnToken, Zenon DEF RestoreReadGeneration, store
    <3>2. QED
      BY <1>0, <3>1, Zenon
  <2>2. CASE ~RestoreReadGeneration(p) /\ q = p
    <3>1. Drawn(p)'
      BY <1>5, <2>2, LockOwn, Zenon DEF Drawn, UnderLock, KindOf
    <3>2. pc[p] = "fence" /\ op'[p].gen.token = op[p].gen.token
      BY <1>5, <2>2, <3>1, DrawnOwn, Zenon
    <3>3. generation' = generation
      <4>1. ~RestoreFence(p)
        BY <1>0, <1>5, <2>2, Zenon DEF RestoreFence, Goto
      <4>2. QED
        BY <3>2, <4>1, GenerationStep, Zenon DEF RestoreMark, CompleteRestore, DeleteWorkspaceFence
    <3>4. QED
      BY <2>2, <3>2, <3>3, Zenon DEF TokensFresh
  <2>3. CASE q # p
    <3>1. pc[q] = "fence" /\ op'[q] = op[q]
      BY <1>5, <2>3, OthersKept, Zenon
    <3>2. UnderLock(q)
      BY <3>1, Zenon DEF LockHeld, KindOf, UnderLock
    <3>3. generation' = generation
      BY <2>3, <3>2, Exclusive, UnlockedStep, Zenon
    <3>4. QED
      BY <3>1, <3>3, Zenon DEF TokensFresh
  <2>4. QED
    BY <2>1, <2>2, <2>3, Zenon
<1>6. ASSUME NEW q \in Proc, Drawn(q)', NEW r \in Proc, op'[r].kind = "save"
      PROVE  op'[r].gen.token < op'[q].gen.token
  <2>0. q # r
    BY <1>6, Zenon DEF Drawn
  <2>1. CASE q = p
    <3>1. op'[r] = op[r]
      BY <2>0, <2>1, OthersKept, Zenon
    <3>2. CASE RestoreReadGeneration(p)
      BY <1>0, <2>1, <3>1, <3>2, OwnToken, Zenon
    <3>3. CASE ~RestoreReadGeneration(p)
      BY <1>6, <2>1, <3>1, <3>3, DrawnOwn, Zenon DEF TokensFresh
    <3>4. QED
      BY <3>2, <3>3, Zenon
  <2>2. CASE q # p
    <3>1. pc'[q] = pc[q] /\ op'[q] = op[q]
      BY <2>2, OthersKept, Zenon
    <3>2. Drawn(q)
      BY <1>6, <3>1, Zenon DEF Drawn, UnderLock
    <3>3. CASE op[r].kind = "save" /\ op'[r].gen = op[r].gen
      BY <3>1, <3>2, <3>3, Zenon DEF TokensFresh
    <3>4. CASE r = p /\ op'[p].gen = generation /\ generation.phase = "live"
      BY <3>1, <3>2, <3>4, DrawnForm, Zenon
    <3>5. QED
      BY <1>6, <2>2, <3>3, <3>4, OthersKept, SaveGen, Zenon
  <2>3. QED
    BY <2>1, <2>2, Zenon
<1>7. QED
  BY <1>2, <1>3, <1>4, <1>5, <1>6, Zenon DEF TokensFresh

-----------------------------------------------------------------------------
(* What a save reads of the root, and the cursor it compares.              *)

(* Only the one behind the fence of a replacement or a deletion writes the *)
(* root or the journal.                                                    *)
LEMMA RootKept ==
    ASSUME TypeOK, FenceHeld, NEW p \in Proc, Act(p), generation.phase \in {"live", "fencing"}
    PROVE  root' = root /\ changes' = changes /\ liveTree' = liveTree
<1>0. FenceOf(p)
  BY Zenon DEF FenceHeld
<1>1. pc[p] \notin ReplaceLabel \cup {"dwDelete"}
  BY <1>0, Zenon DEF FenceOf
<1>2. CASE Begin(p)
  BY <1>2, BeginForm, Zenon DEF Begun, store, live, ghosts
<1>3. CASE SaveOn(p)
  BY Zenon, <1>3 DEF SaveOn, CaptureMeta, CaptureRoot, CaptureFile, CaptureEnd, SaveHead, SaveRead,
     SaveExec, Local, Return, store, live, ghosts
<1>4. CASE RestoreOn(p)
  BY Zenon, <1>1, <1>4 DEF RestoreOn, RestoreLock, RestoreReadGeneration, RestoreFence, LostCheck,
     RestoreActivity, RestoreMark, MoveWorkspaceHead, ResetFile, ResetDone, WriteNode,
     MarkWorkspaceRootClean, CompleteRestore, AcquireImportLock, Local, Return, store, live, ghosts,
     ReplaceLabel
<1>5. CASE DeleteOn(p)
  BY Zenon, <1>1, <1>5 DEF DeleteOn, DeleteCheckpointRead, DeleteCheckpointExec, DeleteWorkspaceLock,
     DeleteWorkspaceFence, DeleteWorkspaceBatch, DeleteWorkspaceRetire, AcquireImportLock,
     Local, Return, store, live, ghosts
<1>6. CASE Stop(p)
  BY <1>6, Zenon DEF Stop, Release, Heartbeat, Fail, Crash, store, live, ghosts
<1>7. QED
  BY <1>2, <1>3, <1>4, <1>5, <1>6, Zenon DEF Act

LEMMA SeesOthers ==
    ASSUME TypeOK, LockHeld, FenceHeld, TokensFresh, NEW p \in Proc, NEW q \in Proc, q # p, Act(p),
           SaveSees(q)
    PROVE  SaveSees(q)'
<1>1. pc'[q] = pc[q] /\ op'[q] = op[q]
  BY OthersKept, Zenon
<1>2. SUFFICES ASSUME op[q].kind = "save", generation' = op[q].gen
               PROVE  SaveSees(q)'
  BY <1>1, Zenon DEF SaveSees
<1>3. op[q].gen.phase = "live" /\ FenceOf(p) /\ KindOf(p)
  BY <1>2, Zenon DEF TokensFresh, FenceHeld, LockHeld
<1>4. generation' = generation
  <2>1. ~(RestoreFence(p) /\ generation' = op[p].gen)
    BY <1>2, <1>3, Zenon DEF RestoreFence, FenceOf
  <2>2. CASE CompleteRestore(p) /\ generation' = [phase |-> "live", token |-> op[p].gen.token]
    <3>1. Drawn(p)
      BY <1>3, <2>2, Zenon DEF CompleteRestore, Drawn, UnderLock, KindOf, ReplaceLabel
    <3>2. op[q].gen.token < op[p].gen.token /\ op[p].gen.token \in Nat
      BY <1>2, <3>1, Zenon DEF TokensFresh, TypeOK, Op, Generation
    <3>3. QED
      BY <1>2, <2>2, <3>2, SMTT(60)
  <2>3. /\ generation' # [phase |-> "restoring", token |-> op[p].gen.token]
        /\ generation' # [phase |-> "deleted", token |-> 0]
    BY <1>2, <1>3, SMTT(60)
  <2>4. QED
    BY <2>1, <2>2, <2>3, GenerationStep, Zenon
<1>5. root' = root /\ changes' = changes
  BY <1>2, <1>3, <1>4, RootKept, Zenon
<1>6. QED
  BY <1>1, <1>2, <1>4, <1>5, Zenon DEF SaveSees

LEMMA SeesOwn ==
    ASSUME TypeOK, LockHeld, FenceHeld, TokensFresh, NEW p \in Proc, Act(p), SaveSees(p)
    PROVE  SaveSees(p)'
<1>0. /\ pc \in [Proc -> Label] /\ op \in [Proc -> Op] /\ op[p] \in Op
      /\ root.files \in Part /\ op[p].tree \in Part /\ changes \in Nat
  BY Zenon DEF TypeOK, Op
<1>1. SUFFICES ASSUME op'[p].kind = "save", generation' = op'[p].gen,
                      pc'[p] \in {"capFiles", "saveHead", "saveRead", "saveExec"}
               PROVE  SaveSees(p)'
  BY Zenon DEF SaveSees
<1>2. op[p].kind = "save" /\ op'[p].gen = op[p].gen
  BY <1>1, SaveGen, Zenon
<1>3. CASE SaveOn(p)
  <2>1. generation' = generation /\ UNCHANGED <<root, changes>>
    BY Zenon, <1>3 DEF SaveOn, CaptureMeta, CaptureRoot, CaptureFile, CaptureEnd, SaveHead, SaveRead,
       SaveExec, Local, Return, store, live
  <2>2. generation = op[p].gen
    BY <1>1, <1>2, <2>1, Zenon
  <2>3. CASE CaptureRoot(p)
    <3>1. op'[p] = [op[p] EXCEPT !.changes = changes, !.todo = File] /\ pc'[p] = "capFiles"
      BY <1>0, <1>1, <2>3, Zenon DEF CaptureRoot, Local, Return, Goto
    <3>2. op'[p].changes = changes /\ op'[p].todo = File
      BY <1>0, <3>1, Zenon DEF Op
    <3>3. QED
      BY <1>0, <2>1, <3>1, <3>2, SMTT(60) DEF SaveSees
  <2>4. ASSUME NEW f \in File, CaptureFile(p, f) PROVE SaveSees(p)'
    <3>1. op'[p] = Captured(op[p], f, root.files[f]) /\ pc[p] = "capFiles" /\ pc'[p] = "capFiles"
      BY <1>0, <2>4, Zenon DEF CaptureFile, Local, Captured, Goto
    <3>2. /\ op'[p].changes = op[p].changes /\ op'[p].todo = op[p].todo \ {f}
          /\ op'[p].tree = [op[p].tree EXCEPT ![f] = root.files[f]]
      BY <1>0, <3>1, Zenon DEF Captured, Op
    <3>3. op[p].changes = changes => \A g \in File \ op'[p].todo : op'[p].tree[g] = root.files[g]
      BY <1>0, <1>2, <2>2, <3>1, <3>2, ZenonT(60) DEF SaveSees, Part
    <3>4. op[p].changes <= changes
      BY <1>2, <2>2, <3>1, Zenon DEF SaveSees
    <3>5. QED
      BY <2>1, <3>1, <3>2, <3>3, <3>4, Zenon DEF SaveSees
  <2>5. CASE CaptureEnd(p)
    <3>1. pc[p] = "capFiles" /\ pc'[p] = "saveHead" /\ op'[p] = op[p] /\ op[p].todo = {}
      BY <1>0, <1>1, <2>5, Zenon DEF CaptureEnd, Local, Goto
    <3>2. op[p].changes = changes => \A g \in File : op[p].tree[g] = root.files[g]
      BY <1>2, <2>2, <3>1, Zenon DEF SaveSees
    <3>3. op[p].changes = changes => op[p].tree = root.files
      BY <1>0, <3>2, SMTT(60) DEF Part
    <3>4. QED
      BY <1>2, <2>1, <2>2, <3>1, <3>3, Zenon DEF SaveSees
  <2>6. CASE SaveHead(p) \/ SaveRead(p)
    <3>1. /\ pc[p] \in {"saveHead", "saveRead"} /\ pc'[p] \in {"saveRead", "saveExec"}
          /\ op'[p] = op[p] \/ op'[p] = [op[p] EXCEPT !.refs = refCount]
      BY <1>0, <1>1, <2>6, Zenon DEF SaveHead, SaveRead, Local, Return, Goto
    <3>2. op'[p].changes = op[p].changes /\ op'[p].tree = op[p].tree
      BY <1>0, <3>1, Zenon DEF Op
    <3>3. QED
      BY <1>2, <2>1, <2>2, <3>1, <3>2, Zenon DEF SaveSees
  <2>7. CASE CaptureMeta(p) \/ SaveExec(p)
    BY <1>0, <1>1, <2>7, Zenon DEF CaptureMeta, SaveExec, Local, Return, Goto
  <2>8. QED
    BY <1>3, <2>3, <2>4, <2>5, <2>6, <2>7, Zenon DEF SaveOn
<1>4. CASE ~SaveOn(p)
  <2>1. Heartbeat(p)
    <3>1. ~Begin(p)
      BY <1>1, BeginOp, Zenon
    <3>2. ~RestoreOn(p)
      BY Zenon, <1>0, <1>1, <1>2 DEF LockHeld, RestoreOn, RestoreLock, RestoreReadGeneration, RestoreFence, LostCheck,
         RestoreActivity, RestoreMark, MoveWorkspaceHead, ResetFile, ResetDone, WriteNode,
         MarkWorkspaceRootClean, CompleteRestore, KindOf, ReplaceLabel
    <3>3. ~DeleteOn(p)
      BY Zenon, <1>0, <1>1, <1>2 DEF LockHeld, DeleteOn, DeleteCheckpointRead, DeleteCheckpointExec, DeleteWorkspaceLock,
         DeleteWorkspaceFence, DeleteWorkspaceBatch, DeleteWorkspaceRetire, KindOf
    <3>4. QED
      BY <1>0, <1>1, <1>4, <3>1, <3>2, <3>3, Zenon DEF Act, Stop, Release, Fail, Crash, Goto
  <2>2. QED
    BY <2>1, Zenon DEF Heartbeat, SaveSees, store, live
<1>5. QED
  BY <1>3, <1>4, Zenon

(* What a step of p that leaves q's transaction alive has not written.     *)
LEMMA CursorKept ==
    ASSUME TypeOK, NEW p \in Proc, NEW q \in Proc, q # p, Act(p), q \notin stale'
    PROVE  /\ q \notin stale
           /\ GenerationKey \in watch[q] => generation' = generation
           /\ ChangesKey \in watch[q] => changes' = changes
<1> DEFINE Kept == /\ q \notin stale
                   /\ GenerationKey \in watch[q] => generation' = generation
                   /\ ChangesKey \in watch[q] => changes' = changes
<1>1. CASE Begin(p)
  BY <1>1, BeginForm, Zenon DEF Begun, store, live
<1>2. CASE SaveOn(p)
  <2>1. CASE SaveExec(p) /\ p \notin stale
    BY <2>1, Zenon DEF SaveExec, Touch
  <2>2. CASE ~(SaveExec(p) /\ p \notin stale)
    <3>1. UNCHANGED store /\ (stale' = stale \/ stale' = stale \ {p})
      BY Zenon, <1>2, <2>2 DEF SaveOn, CaptureMeta, CaptureRoot, CaptureFile, CaptureEnd, SaveHead, SaveRead,
         SaveExec, Local, Return
    <3>2. QED
      BY <3>1, Zenon DEF store, live
  <2>3. QED
    BY <2>1, <2>2, Zenon
<1>3. CASE RestoreOn(p)
  <2>1. CASE RestoreFence(p) \/ RestoreMark(p)
    <3>1. q \notin stale /\ GenerationKey \notin watch[q]
      BY <2>1, TouchMarks, Zenon DEF RestoreFence, RestoreMark
    <3>2. QED
      BY <2>1, <3>1, Zenon DEF RestoreFence, RestoreMark, live
  <2>2. CASE CompleteRestore(p)
    <3>1. CASE Return(p)
      BY <3>1, Zenon DEF Return, Local, store, live
    <3>2. CASE ~Return(p)
      <4>1. Touch({GenerationKey, ChangesKey, BeforeKey})
        BY <2>2, <3>2, Zenon DEF CompleteRestore
      <4>2. QED
        BY <4>1, TouchMarks, Zenon
    <3>3. QED
      BY <3>1, <3>2, Zenon
  <2>3. CASE RestoreLock(p) \/ MoveWorkspaceHead(p) \/ RestoreActivity(p)
    BY Zenon, <2>3 DEF RestoreLock, MoveWorkspaceHead, RestoreActivity, AcquireImportLock, Touch, Return, Local,
       store, live
  <2>4. CASE \/ RestoreReadGeneration(p) \/ LostCheck(p, "lostCheck", "activity")
             \/ (\E f \in File : ResetFile(p, f)) \/ ResetDone(p) \/ (\E f \in File : WriteNode(p, f))
             \/ MarkWorkspaceRootClean(p) \/ LostCheck(p, "lostCheck2", "complete")
    BY Zenon, <2>4 DEF RestoreReadGeneration, LostCheck, ResetFile, ResetDone, WriteNode,
       MarkWorkspaceRootClean, Local, store, live
  <2>5. QED
    BY <1>3, <2>1, <2>2, <2>3, <2>4, Zenon DEF RestoreOn
<1>4. CASE DeleteOn(p)
  <2>1. CASE DeleteCheckpointRead(p)
    BY <2>1, Zenon DEF DeleteCheckpointRead, Return, Local, store, live
  <2>2. CASE DeleteCheckpointExec(p) \/ DeleteWorkspaceLock(p) \/ DeleteWorkspaceRetire(p)
    BY Zenon, <2>2 DEF DeleteCheckpointExec, DeleteWorkspaceLock, DeleteWorkspaceRetire, AcquireImportLock,
       Touch, Return, Local, store, live
  <2>3. CASE DeleteWorkspaceFence(p)
    <3>1. CASE Return(p)
      BY <3>1, Zenon DEF Return, Local, store, live
    <3>2. CASE ~Return(p)
      <4>1. q \notin stale /\ GenerationKey \notin watch[q]
        BY <2>3, <3>2, TouchMarks, Zenon DEF DeleteWorkspaceFence
      <4>2. QED
        BY <2>3, <3>2, <4>1, Zenon DEF DeleteWorkspaceFence, live
    <3>3. QED
      BY <3>1, <3>2, Zenon
  <2>4. ASSUME NEW k \in Batch, DeleteWorkspaceBatch(p, k) PROVE Kept
    <3>1. generation' = generation
      BY <2>4, Zenon DEF DeleteWorkspaceBatch
    <3>2. CASE k = <<"journal">>
      <4>1. q \notin stale /\ ChangesKey \notin watch[q]
        BY <2>4, <3>2, TouchMarks, Zenon DEF DeleteWorkspaceBatch
      <4>2. QED
        BY <3>1, <4>1, Zenon
    <3>3. CASE k # <<"journal">>
      BY <2>4, <3>1, <3>3, Zenon DEF DeleteWorkspaceBatch, Touch
    <3>4. QED
      BY <3>2, <3>3, Zenon
  <2>5. QED
    BY <1>4, <2>1, <2>2, <2>3, <2>4, Zenon DEF DeleteOn
<1>5. CASE Stop(p)
  BY <1>5, Zenon DEF Stop, Release, Heartbeat, Fail, Crash, store, live
<1>6. QED
  BY <1>1, <1>2, <1>3, <1>4, <1>5, Zenon DEF Act

LEMMA CursorStep ==
    ASSUME TypeOK, NEW p \in Proc, Act(p), NEW q \in Proc, q \notin stale',
           q \in stale \/ CursorHolds(q)
    PROVE  CursorHolds(q)'
<1>0. /\ pc \in [Proc -> Label] /\ op \in [Proc -> Op] /\ watch \in [Proc -> SUBSET Key]
      /\ op[p] \in Op
  BY Zenon DEF TypeOK
<1>1. CASE q # p
  <2>1. pc'[q] = pc[q] /\ op'[q] = op[q] /\ watch'[q] = watch[q]
    BY <1>1, OthersKept, Zenon
  <2>2. QED
    BY <1>1, <2>1, CursorKept, Zenon DEF CursorHolds
<1>2. CASE q = p
  <2>1. CASE SaveRead(p)
    <3>1. CASE Return(p)
      BY <1>0, <1>2, <3>1, Zenon DEF Return, Local, Goto, CursorHolds
    <3>2. CASE ~Return(p)
      <4>1. /\ generation = op[p].gen /\ changes = op[p].changes
            /\ watch'[p] = SaveWatch /\ UNCHANGED store
        BY <1>0, <2>1, <3>2, Zenon DEF SaveRead
      <4>2. op'[p].gen = op[p].gen /\ op'[p].changes = op[p].changes
        BY <1>0, <2>1, <3>2, SMTT(60) DEF SaveRead, Op
      <4>3. QED
        BY <1>2, <4>1, <4>2, Zenon DEF CursorHolds, SaveWatch, store, live
    <3>3. QED
      BY <3>1, <3>2, Zenon
  <2>2. CASE Heartbeat(p)
    <3>1. UNCHANGED <<store, pc, op, watch, stale>>
      BY <2>2, Zenon DEF Heartbeat
    <3>2. QED
      BY <1>2, <3>1, Zenon DEF CursorHolds, store, live
  <2>3. CASE ~SaveRead(p) /\ ~Heartbeat(p)
    <3>1. pc'[p] # "saveExec"
      <4>1. CASE Begin(p)
        BY <4>1, BeginOp, Zenon
      <4>2. CASE SaveOn(p)
        BY Zenon, <1>0, <2>3, <4>2 DEF SaveOn, CaptureMeta, CaptureRoot, CaptureFile, CaptureEnd, SaveHead,
           SaveExec, Local, Return, Goto
      <4>3. CASE RestoreOn(p)
        BY Zenon, <1>0, <4>3 DEF RestoreOn, RestoreLock, RestoreReadGeneration, RestoreFence, LostCheck,
           RestoreActivity, RestoreMark, MoveWorkspaceHead, ResetFile, ResetDone, WriteNode,
           MarkWorkspaceRootClean, CompleteRestore, AcquireImportLock, Local, Return, Goto
      <4>4. CASE DeleteOn(p)
        BY Zenon, <1>0, <4>4 DEF DeleteOn, DeleteCheckpointRead, DeleteCheckpointExec, DeleteWorkspaceLock,
           DeleteWorkspaceFence, DeleteWorkspaceBatch, DeleteWorkspaceRetire, AcquireImportLock,
           Local, Return, Goto
      <4>5. CASE Stop(p)
        BY <1>0, <2>3, <4>5, Zenon DEF Stop, Release, Fail, Crash, Goto
      <4>6. QED
        BY <4>1, <4>2, <4>3, <4>4, <4>5, Zenon DEF Act
    <3>2. QED
      BY <1>2, <3>1, Zenon DEF CursorHolds
  <2>4. QED
    BY <2>1, <2>2, <2>3, Zenon
<1>3. QED
  BY <1>1, <1>2, Zenon

-----------------------------------------------------------------------------
(* The trees that restores write and saves store.                          *)

LEMMA PublishedKept ==
    ASSUME TypeOK, NEW p \in Proc, Act(p)
    PROVE  published' = published
<1>1. CASE Begin(p)
  BY <1>1, BeginForm, Zenon DEF Begun, ghosts
<1>2. CASE SaveOn(p)
  BY Zenon, <1>2 DEF SaveOn, CaptureMeta, CaptureRoot, CaptureFile, CaptureEnd, SaveHead, SaveRead,
     SaveExec, Local, Return, ghosts
<1>3. CASE RestoreOn(p)
  BY Zenon, <1>3 DEF RestoreOn, RestoreLock, RestoreReadGeneration, RestoreFence, LostCheck,
     RestoreActivity, RestoreMark, MoveWorkspaceHead, ResetFile, ResetDone, WriteNode,
     MarkWorkspaceRootClean, CompleteRestore, AcquireImportLock, Local, Return, ghosts
<1>4. CASE DeleteOn(p)
  BY Zenon, <1>4 DEF DeleteOn, DeleteCheckpointRead, DeleteCheckpointExec, DeleteWorkspaceLock,
     DeleteWorkspaceFence, DeleteWorkspaceBatch, DeleteWorkspaceRetire, AcquireImportLock,
     Local, Return, ghosts
<1>5. CASE Stop(p)
  BY <1>5, Zenon DEF Stop, Release, Heartbeat, Fail, Crash, ghosts
<1>6. QED
  BY <1>1, <1>2, <1>3, <1>4, <1>5, Zenon DEF Act

LEMMA WritesOthers ==
    ASSUME TypeOK, LockHeld, NEW p \in Proc, NEW q \in Proc, q # p, Act(p), RestoreWrites(q)
    PROVE  RestoreWrites(q)'
<1>1. pc'[q] = pc[q] /\ op'[q] = op[q] /\ published' = published
  BY OthersKept, PublishedKept, Zenon
<1>2. CASE UnderLock(q)
  <2>1. root' = root
    BY <1>2, Exclusive, UnlockedStep, Zenon
  <2>2. QED
    BY <1>1, <2>1, Zenon DEF RestoreWrites
<1>3. CASE ~UnderLock(q)
  <2>1. pc[q] \notin {"write", "lostCheck2", "complete"}
    BY <1>3, Zenon DEF LockHeld, KindOf, UnderLock, ReplaceLabel
  <2>2. QED
    BY <1>1, <2>1, Zenon DEF RestoreWrites
<1>4. QED
  BY <1>2, <1>3, Zenon

LEMMA WritesOwn ==
    ASSUME TypeOK, LockHeld, NEW p \in Proc, Act(p), RestoreWrites(p), CheckpointIsSnapshot, ~deleting
    PROVE  RestoreWrites(p)'
<1>0. /\ pc \in [Proc -> Label] /\ op \in [Proc -> Op] /\ op[p] \in Op /\ KindOf(p)
      /\ root \in [exists : BOOLEAN, files : Part] /\ root.files \in Part /\ op[p].m \in Part
      /\ published' = published
  BY PublishedKept, Zenon DEF TypeOK, Op, LockHeld
<1>1. op'[p].kind = "restore" => op'[p].m \in published
  <2>1. CASE Begin(p)
    BY <2>1, BeginOp, Zenon DEF CheckpointIsSnapshot
  <2>2. CASE SaveOn(p) \/ RestoreOn(p) \/ DeleteOn(p)
    BY <2>2, TargetKept, SaveFields, RestoreFields, DeleteFields, Zenon DEF RestoreWrites
  <2>3. CASE Stop(p)
    <3>1. op'[p] = op[p] \/ op'[p] = NoOp
      BY <1>0, <2>3, Zenon DEF Stop, Release, Heartbeat, Fail, Crash
    <3>2. NoOp.kind = "none"
      BY Zenon DEF NoOp
    <3>3. QED
      BY <3>1, <3>2, Zenon DEF RestoreWrites
  <2>4. QED
    BY <2>1, <2>2, <2>3, Zenon DEF Act
<1>2. CASE ResetDone(p)
  <2>1. op'[p].todo = File /\ pc'[p] = "write"
    BY <1>0, <1>2, Zenon DEF ResetDone, Goto, Op
  <2>2. QED
    BY <1>0, <1>1, <2>1, Zenon DEF RestoreWrites
<1>3. ASSUME NEW f \in File, WriteNode(p, f) PROVE RestoreWrites(p)'
  <2>1. /\ op'[p].todo = op[p].todo \ {f} /\ op'[p].m = op[p].m
        /\ pc[p] = "write" /\ pc'[p] = "write"
    BY <1>0, <1>3, Zenon DEF WriteNode, Op
  <2>2. root'.files = [root.files EXCEPT ![f] = op[p].m[f]]
    BY <1>3, Zenon DEF WriteNode
  <2>3. \A g \in File \ op'[p].todo : root'.files[g] = op[p].m[g]
    BY <1>0, <2>1, <2>2, Zenon DEF RestoreWrites, Part
  <2>4. QED
    BY <1>0, <1>1, <2>1, <2>3, Zenon DEF RestoreWrites
<1>4. CASE MarkWorkspaceRootClean(p)
  <2>1. pc[p] = "write" /\ op[p].todo = {} /\ root' = root /\ op' = op /\ pc'[p] = "lostCheck2"
    BY <1>0, <1>4, Zenon DEF MarkWorkspaceRootClean, Goto
  <2>2. root.files = op[p].m
    BY <1>0, <2>1, SMTT(60) DEF RestoreWrites, Part
  <2>3. QED
    BY <1>0, <1>1, <2>1, <2>2, Zenon DEF RestoreWrites
<1>5. CASE LostCheck(p, "lostCheck2", "complete") \/ Heartbeat(p)
  <2>1. /\ root' = root /\ op'[p] = op[p]
        /\ \/ pc'[p] = "release" \/ pc'[p] = pc[p]
           \/ pc[p] = "lostCheck2" /\ pc'[p] = "complete"
    BY <1>0, <1>5, Zenon DEF LostCheck, Heartbeat, Local, Goto, store, live
  <2>2. QED
    BY <1>0, <1>1, <2>1, Zenon DEF RestoreWrites
<1>6. CASE ~(\/ ResetDone(p) \/ (\E f \in File : WriteNode(p, f)) \/ MarkWorkspaceRootClean(p)
             \/ LostCheck(p, "lostCheck2", "complete") \/ Heartbeat(p))
  <2>1. pc'[p] \notin {"write", "lostCheck2", "complete"}
    <3>1. CASE Begin(p)
      BY <3>1, BeginOp, Zenon
    <3>2. CASE SaveOn(p)
      BY <3>2, SaveLabels, Zenon DEF CaptureLabel
    <3>3. CASE RestoreOn(p)
      BY Zenon, <1>0, <1>6, <3>3 DEF RestoreOn, RestoreLock, RestoreReadGeneration, RestoreFence, LostCheck,
         RestoreActivity, RestoreMark, MoveWorkspaceHead, ResetFile,
         CompleteRestore, AcquireImportLock, Local, Return, Goto
    <3>4. CASE DeleteOn(p)
      BY Zenon, <1>0, <3>4 DEF DeleteOn, DeleteCheckpointRead, DeleteCheckpointExec, DeleteWorkspaceLock,
         DeleteWorkspaceFence, DeleteWorkspaceBatch, DeleteWorkspaceRetire, AcquireImportLock,
         Local, Return, Goto
    <3>5. CASE Stop(p)
      BY <1>0, <1>6, <3>5, Zenon DEF Stop, Release, Fail, Crash, Goto
    <3>6. QED
      BY <3>1, <3>2, <3>3, <3>4, <3>5, Zenon DEF Act
  <2>2. QED
    BY <1>0, <1>1, <2>1, Zenon DEF RestoreWrites
<1>7. QED
  BY <1>2, <1>3, <1>4, <1>5, <1>6, Zenon

(* A step stores a tree under the name of its save or removes one.         *)
LEMMA SavepointStep ==
    ASSUME TypeOK, NEW p \in Proc, Act(p), NEW c \in Cp
    PROVE  \/ savepoint'[c] \in {savepoint[c], None}
           \/ SaveExec(p) /\ p \notin stale /\ c = op[p].name /\ savepoint'[c] = op[p].tree
<1>0. savepoint \in [Cp -> Part \cup {None}] /\ op[p] \in Op
  BY Zenon DEF TypeOK
<1>1. CASE Begin(p)
  BY <1>1, BeginForm, Zenon DEF Begun, store, catalog
<1>2. CASE SaveOn(p)
  <2>1. CASE SaveExec(p) /\ p \notin stale
    <3>1. savepoint' = [savepoint EXCEPT ![op[p].name] = op[p].tree]
      BY <2>1, Zenon DEF SaveExec
    <3>2. QED
      BY <1>0, <2>1, <3>1, Zenon
  <2>2. CASE ~(SaveExec(p) /\ p \notin stale)
    BY Zenon, <1>2, <2>2 DEF SaveOn, CaptureMeta, CaptureRoot, CaptureFile, CaptureEnd, SaveHead, SaveRead,
       SaveExec, Local, Return, store, catalog
  <2>3. QED
    BY <2>1, <2>2, Zenon
<1>3. CASE RestoreOn(p)
  BY Zenon, <1>3 DEF RestoreOn, RestoreLock, RestoreReadGeneration, RestoreFence, LostCheck,
     RestoreActivity, RestoreMark, MoveWorkspaceHead, ResetFile, ResetDone, WriteNode,
     MarkWorkspaceRootClean, CompleteRestore, AcquireImportLock, Local, Return, store, catalog
<1>4. CASE DeleteOn(p)
  <2>1. CASE DeleteCheckpointExec(p) /\ p \notin stale
    <3>1. savepoint' = [savepoint EXCEPT ![op[p].cp] = None]
      BY <2>1, Zenon DEF DeleteCheckpointExec
    <3>2. QED
      BY <1>0, <3>1, Zenon
  <2>2. ASSUME NEW k \in Batch, DeleteWorkspaceBatch(p, k) PROVE savepoint'[c] \in {savepoint[c], None}
    BY <2>2, Zenon DEF DeleteWorkspaceBatch
  <2>3. CASE \/ DeleteCheckpointRead(p) \/ (DeleteCheckpointExec(p) /\ p \in stale)
             \/ DeleteWorkspaceLock(p) \/ DeleteWorkspaceFence(p) \/ DeleteWorkspaceRetire(p)
    BY Zenon, <2>3 DEF DeleteCheckpointRead, DeleteCheckpointExec, DeleteWorkspaceLock, DeleteWorkspaceFence,
       DeleteWorkspaceRetire, AcquireImportLock, Local, Return, store, catalog
  <2>4. QED
    BY <1>4, <2>1, <2>2, <2>3, Zenon DEF DeleteOn
<1>5. CASE Stop(p)
  BY <1>5, Zenon DEF Stop, Release, Heartbeat, Fail, Crash, store, catalog
<1>6. QED
  BY <1>1, <1>2, <1>3, <1>4, <1>5, Zenon DEF Act

(* A save that commits stores the tree the clients see, or last saw.       *)
LEMMA SavedTree ==
    ASSUME RestoreInv, SnapshotInv, ~deleting, NEW p \in Proc, SaveExec(p), p \notin stale
    PROVE  /\ op[p].tree = root.files /\ root.files = liveTree /\ liveTree \in published
           /\ generation.phase \in {"live", "fencing"}
<1>0. /\ pc[p] = "saveExec" /\ FenceOf(p) /\ KindOf(p) /\ CursorHolds(p) /\ SaveSees(p)
      /\ TreeShown /\ BaselineKept /\ TokensFresh /\ liveTree \in published
  BY Zenon DEF SaveExec, RestoreInv, SnapshotInv, FenceHeld, LockHeld
<1>1. CASE op[p].kind = "restore"
  <2>1. generation.phase = "fencing" /\ op[p].tree = root.files
    BY <1>0, <1>1, Zenon DEF FenceOf, BaselineKept, BaselineOf, CaptureLabel
  <2>2. QED
    BY <1>0, <2>1, Zenon DEF TreeShown
<1>2. CASE op[p].kind = "save"
  <2>1. generation = op[p].gen /\ op[p].tree = root.files
    BY <1>0, <1>2, Zenon DEF CursorHolds, SaveSees
  <2>2. generation.phase = "live"
    BY <1>0, <1>2, <2>1, Zenon DEF TokensFresh
  <2>3. QED
    BY <1>0, <2>1, <2>2, Zenon DEF TreeShown
<1>3. QED
  BY <1>0, <1>1, <1>2, Zenon DEF KindOf, CaptureLabel

LEMMA SnapshotAct ==
    ASSUME RestoreInv, SnapshotInv, NEW p \in Proc, Act(p)
    PROVE  SnapshotInv'
<1>0. /\ TypeOK /\ LockHeld /\ FenceHeld /\ TokensFresh /\ CheckpointIsSnapshot
      /\ \A q \in Proc : SaveSees(q) /\ (q \in stale \/ CursorHolds(q))
  BY Zenon DEF RestoreInv, SnapshotInv
<1>1. TokensFresh'
  BY <1>0, TokensStep, Zenon
<1>2. ASSUME NEW q \in Proc PROVE SaveSees(q)' /\ (q \in stale' \/ CursorHolds(q)')
  <2>1. SaveSees(q)'
    BY <1>0, SeesOthers, SeesOwn, Zenon
  <2>2. QED
    BY <1>0, <2>1, CursorStep, Zenon
<1>3. ASSUME ~deleting'
      PROVE  liveTree' \in published' /\ (\A q \in Proc : RestoreWrites(q)') /\ CheckpointIsSnapshot'
  <2>0. ~deleting /\ published' = published
    BY <1>0, <1>3, DeletingGrows, PublishedKept, Zenon
  <2>1. liveTree \in published /\ \A q \in Proc : RestoreWrites(q)
    BY <2>0, Zenon DEF SnapshotInv
  <2>2. ASSUME NEW q \in Proc PROVE RestoreWrites(q)'
    BY <1>0, <2>0, <2>1, WritesOthers, WritesOwn, Zenon
  <2>3. liveTree' \in published
    <3>1. CASE CompleteRestore(p)
      <4>1. pc[p] = "complete" /\ liveTree' \in {liveTree, root.files}
        BY <3>1, Zenon DEF CompleteRestore, Return, Local, ghosts
      <4>2. root.files = op[p].m /\ op[p].kind = "restore"
        BY <1>0, <2>1, <4>1, Zenon DEF RestoreWrites, LockHeld, KindOf, ReplaceLabel
      <4>3. QED
        BY <2>1, <4>1, <4>2, Zenon DEF RestoreWrites
    <3>2. CASE ~CompleteRestore(p)
      <4>1. liveTree' = liveTree
        <5>1. CASE Begin(p)
          BY <1>0, <5>1, BeginForm, Zenon DEF Begun, ghosts
        <5>2. CASE SaveOn(p)
          BY Zenon, <5>2 DEF SaveOn, CaptureMeta, CaptureRoot, CaptureFile, CaptureEnd, SaveHead, SaveRead,
             SaveExec, Local, Return, ghosts
        <5>3. CASE RestoreOn(p)
          BY Zenon, <3>2, <5>3 DEF RestoreOn, RestoreLock, RestoreReadGeneration, RestoreFence, LostCheck,
             RestoreActivity, RestoreMark, MoveWorkspaceHead, ResetFile, ResetDone, WriteNode,
             MarkWorkspaceRootClean, AcquireImportLock, Local, Return, ghosts
        <5>4. CASE DeleteOn(p)
          BY Zenon, <5>4 DEF DeleteOn, DeleteCheckpointRead, DeleteCheckpointExec, DeleteWorkspaceLock,
             DeleteWorkspaceFence, DeleteWorkspaceBatch, DeleteWorkspaceRetire, AcquireImportLock,
             Local, Return, ghosts
        <5>5. CASE Stop(p)
          BY <5>5, Zenon DEF Stop, Release, Heartbeat, Fail, Crash, ghosts
        <5>6. QED
          BY <5>1, <5>2, <5>3, <5>4, <5>5, Zenon DEF Act
      <4>2. QED
        BY <2>1, <4>1, Zenon
    <3>3. QED
      BY <3>1, <3>2, Zenon
  <2>4. ASSUME NEW c \in Cp, savepoint'[c] # None PROVE savepoint'[c] \in published
    <3>1. CASE SaveExec(p) /\ p \notin stale /\ savepoint'[c] = op[p].tree
      BY <2>0, <3>1, SavedTree, Zenon
    <3>2. CASE savepoint'[c] = savepoint[c]
      BY <1>0, <2>0, <2>4, <3>2, Zenon DEF CheckpointIsSnapshot
    <3>3. QED
      BY <1>0, <2>4, <3>1, <3>2, SavepointStep, Zenon
  <2>5. QED
    BY <2>0, <2>2, <2>3, <2>4, Zenon DEF CheckpointIsSnapshot
<1>4. CheckpointIsSnapshot'
  BY <1>3, Zenon DEF CheckpointIsSnapshot
<1>5. QED
  BY <1>1, <1>2, <1>3, <1>4, Zenon DEF SnapshotInv

LEMMA SnapshotPublish ==
    ASSUME RestoreInv, SnapshotInv,
           NEW c \in Client, NEW f \in File, NEW b \in Blob, Publish(c, f, b)
    PROVE  SnapshotInv'
<1>0. /\ TypeOK /\ FenceHeld /\ TokensFresh /\ changes \in Nat /\ generation.phase = "live"
      /\ \A q \in Proc : SaveSees(q) /\ (q \in stale \/ CursorHolds(q)) /\ op[q].changes \in Nat
  BY Zenon DEF RestoreInv, SnapshotInv, Publish, TypeOK, Op
<1>1. /\ UNCHANGED <<generation, nextToken, pc, op, watch, savepoint, deleting>>
      /\ changes' = changes + 1 /\ published \subseteq published' /\ liveTree' \in published'
  BY SMTT(60) DEF Publish, counts, catalog
<1>2. TokensFresh'
  BY <1>0, <1>1, Zenon DEF TokensFresh, Drawn, UnderLock
<1>3. ASSUME NEW q \in Proc PROVE SaveSees(q)'
  BY <1>0, <1>1, SMTT(60) DEF SaveSees
<1>4. ASSUME NEW q \in Proc, q \notin stale' PROVE CursorHolds(q)'
  <2>1. q \notin stale /\ ChangesKey \notin watch[q]
    BY <1>4, TouchMarks, Zenon DEF Publish
  <2>2. QED
    BY <1>0, <1>1, <2>1, Zenon DEF CursorHolds
<1>5. ASSUME ~deleting, NEW q \in Proc PROVE RestoreWrites(q)'
  <2>1. pc[q] \notin ReplaceLabel
    BY <1>0, Zenon DEF FenceHeld, FenceOf
  <2>2. QED
    BY <1>1, <1>5, <2>1, Zenon DEF SnapshotInv, RestoreWrites, ReplaceLabel
<1>6. CheckpointIsSnapshot'
  BY <1>1, Zenon DEF SnapshotInv, CheckpointIsSnapshot
<1>7. QED
  BY <1>1, <1>2, <1>3, <1>4, <1>5, <1>6, Zenon DEF SnapshotInv

LEMMA SnapshotStep ==
    ASSUME RestoreInv, SnapshotInv, [Next]_vars
    PROVE  SnapshotInv'
<1>1. CASE (\E c \in Client : Open(c)) \/ UpdateWorkspaceSettings \/ LockExpires \/ UNCHANGED vars
  <2>1. /\ UNCHANGED <<generation, nextToken, pc, op, watch, savepoint, changes, root, published,
                       liveTree, deleting>>
        /\ stale \subseteq stale'
    BY Zenon, <1>1 DEF Open, UpdateWorkspaceSettings, LockExpires, Touch, vars, store, live, catalog, counts,
       ghosts
  <2>2. TokensFresh' /\ CheckpointIsSnapshot'
    BY <2>1, Zenon DEF SnapshotInv, TokensFresh, Drawn, UnderLock, CheckpointIsSnapshot
  <2>3. ASSUME NEW q \in Proc PROVE SaveSees(q)' /\ (q \in stale' \/ CursorHolds(q)')
    BY <2>1, Zenon DEF SnapshotInv, SaveSees, CursorHolds
  <2>4. ~deleting => liveTree' \in published' /\ \A q \in Proc : RestoreWrites(q)'
    BY <2>1, Zenon DEF SnapshotInv, RestoreWrites
  <2>5. QED
    BY <2>1, <2>2, <2>3, <2>4, Zenon DEF SnapshotInv
<1>2. QED
  BY <1>1, SnapshotAct, SnapshotPublish, NextForm, Zenon DEF Outside

LEMMA SnapshotInit ==
    ASSUME Init
    PROVE  SnapshotInv
<1>1. /\ generation = [phase |-> "live", token |-> 1] /\ nextToken = 2 /\ stale = {}
      /\ \A p \in Proc : pc[p] = "idle" /\ op[p] = NoOp
  BY Zenon DEF Init
<1>2. NoOp.kind = "none" /\ NoOp.gen.token = 0
  BY Zenon DEF NoOp
<1>3. TokensFresh
  BY <1>1, <1>2, SMTT(60) DEF TokensFresh, Drawn
<1>4. ASSUME NEW p \in Proc PROVE SaveSees(p) /\ CursorHolds(p) /\ RestoreWrites(p)
  BY <1>1, <1>2, Zenon DEF SaveSees, CursorHolds, RestoreWrites
<1>5. PICK t \in Tree : /\ savepoint = [c \in Cp |-> IF c = Initial THEN t ELSE None]
                        /\ published = {t} /\ liveTree = t
  BY Zenon DEF Init
<1>6. CheckpointIsSnapshot
  BY <1>5, Zenon DEF CheckpointIsSnapshot
<1>7. QED
  BY <1>3, <1>4, <1>5, <1>6, Zenon DEF SnapshotInv

LEMMA SnapshotInductive ==
    ASSUME ~MayStall
    PROVE  Spec => [](RestoreInv /\ SnapshotInv)
<1>1. Init => SnapshotInv
  BY SnapshotInit, Zenon
<1>2. RestoreInv /\ SnapshotInv /\ [Next]_vars => SnapshotInv'
  BY SnapshotStep, Zenon
<1>3. QED
  BY <1>1, <1>2, RestoreInductive, PTL DEF Spec

(* A checkpoint is one moment of the tree, whatever clients publish while  *)
(* the capture reads it inode by inode and however many saves, restores    *)
(* and deletions run at once.                                              *)
THEOREM CheckpointsAreSnapshots ==
    ASSUME ~MayStall
    PROVE  Spec => []CheckpointIsSnapshot
<1>1. SnapshotInv => CheckpointIsSnapshot
  BY Zenon DEF SnapshotInv
<1>2. QED
  BY <1>1, SnapshotInductive, PTL

(* A generation goes live only over a tree that is whole: clients never    *)
(* open a root that a restore, failed and retried or not, wrote in part.   *)
THEOREM LiveTreesAreWhole ==
    ASSUME ~MayStall
    PROVE  Spec => []LiveTreeIsWhole
<1>1. RestoreInv /\ SnapshotInv => LiveTreeIsWhole
  BY Zenon DEF RestoreInv, SnapshotInv, TreeShown, LiveTreeIsWhole
<1>2. QED
  BY <1>1, SnapshotInductive, PTL
=============================================================================
