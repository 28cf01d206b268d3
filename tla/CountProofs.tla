----------------------------- MODULE CountProofs -----------------------------
(***************************************************************************)
(* A clean root equals its checkpoint and no blob is counted as less used  *)
(* than it is, provided no operation outlives its import lock and no       *)
(* checkpoint ID is used twice.                                            *)
(***************************************************************************)
EXTENDS SnapshotProofs, FiniteSetTheorems

(* Names.                                                                  *)

LEMMA UsedStep ==
    ASSUME TypeOK, NEW p \in Proc, Act(p)
    PROVE  \/ used' = used /\ ~(SaveExec(p) /\ p \notin stale)
           \/ SaveExec(p) /\ p \notin stale /\ used' = used \cup {op[p].name}
<1>1. CASE SaveExec(p) /\ p \notin stale
  BY <1>1, Zenon DEF SaveExec
<1>2. CASE ~(SaveExec(p) /\ p \notin stale)
  <2>1. CASE Begin(p)
    BY <1>2, <2>1, BeginForm, Zenon DEF Begun, ghosts
  <2>2. CASE SaveOn(p)
    BY Zenon, <1>2, <2>2 DEF SaveOn, CaptureMeta, CaptureRoot, CaptureFile, CaptureEnd, SaveHead, SaveRead,
       SaveExec, Local, Return, ghosts
  <2>3. CASE RestoreOn(p)
    BY Zenon, <1>2, <2>3 DEF RestoreOn, RestoreLock, RestoreReadGeneration, RestoreFence, LostCheck,
       RestoreActivity, RestoreMark, MoveWorkspaceHead, ResetFile, ResetDone, WriteNode,
       MarkWorkspaceRootClean, CompleteRestore, AcquireImportLock, Local, Return, ghosts
  <2>4. CASE DeleteOn(p)
    BY Zenon, <1>2, <2>4 DEF DeleteOn, DeleteCheckpointRead, DeleteCheckpointExec, DeleteWorkspaceLock,
       DeleteWorkspaceFence, DeleteWorkspaceBatch, DeleteWorkspaceRetire, AcquireImportLock,
       Local, Return, ghosts
  <2>5. CASE Stop(p)
    BY <1>2, <2>5, Zenon DEF Stop, Release, Heartbeat, Fail, Crash, ghosts
  <2>6. QED
    BY <2>1, <2>2, <2>3, <2>4, <2>5, Zenon DEF Act
<1>3. QED
  BY <1>1, <1>2, Zenon

(* Two operations that are about to save never have the same name.         *)
LEMMA NamesDiffer ==
    ASSUME LockHeld, NamesFresh, NEW p \in Proc, NEW q \in Proc, q # p, Naming(p), Naming(q)
    PROVE  op[p].name # op[q].name
<1>0. KindOf(p) /\ KindOf(q)
  BY Zenon DEF LockHeld
<1>1. /\ op[p].kind \in {"save", "restore"} /\ op[q].kind \in {"save", "restore"}
      /\ op[p].kind = "restore" => UnderLock(p)
      /\ op[q].kind = "restore" => UnderLock(q)
  BY <1>0, Zenon DEF KindOf, Naming, UnderLock, CaptureLabel
<1>2. CASE op[p].kind = "restore" /\ op[q].kind = "restore"
  BY <1>1, <1>2, Exclusive, Zenon
<1>3. CASE op[p].kind = "save" /\ op[q].kind = "save"
  BY <1>3, Zenon DEF NamesFresh
<1>4. CASE op[p].kind # op[q].kind
  BY <1>1, <1>4, Zenon DEF NamesFresh
<1>5. QED
  BY <1>1, <1>2, <1>3, <1>4, Zenon

LEMMA NamingOwn ==
    ASSUME TypeOK, LockHeld, NamesFresh, FreshNames, NEW p \in Proc, Act(p), Naming(p)'
    PROVE  op'[p].name \notin used' /\ (op'[p].name \in SafetyCp <=> op'[p].kind = "restore")
<1> DEFINE Goal == op'[p].name \notin used' /\ (op'[p].name \in SafetyCp <=> op'[p].kind = "restore")
<1>0. pc \in [Proc -> Label] /\ op \in [Proc -> Op] /\ op[p] \in Op /\ KindOf(p)
  BY Zenon DEF TypeOK, LockHeld
<1>1. CASE Begin(p)
  BY <1>1, BeginOp, Zenon DEF UserName, ghosts, Naming, CaptureLabel
<1>2. CASE SaveOn(p)
  <2>1. pc[p] \in CaptureLabel
    BY <1>2, SaveLabels, Zenon
  <2>2. ~(SaveExec(p) /\ p \notin stale)
    BY <1>0, Zenon DEF SaveExec, Goto, Naming, CaptureLabel
  <2>3. used' = used
    BY <2>2, UsedStep, Zenon
  <2>4. QED
    BY <1>2, <2>1, <2>3, SaveFields, Zenon DEF NamesFresh, Naming
<1>3. CASE RestoreReadGeneration(p)
  <2> DEFINE r == generation.phase = "restoring"
             g == [phase |-> IF r THEN "restoring" ELSE "fencing", token |-> nextToken]
  <2>1. PICK c \in IF r THEN {Initial} ELSE SafetyCp \ used :
               op' = [op EXCEPT ![p].recovering = r, ![p].name = c, ![p].gen = g]
    BY <1>3, Zenon DEF RestoreReadGeneration
  <2>2. op'[p].recovering = r /\ op'[p].name = c /\ op'[p].kind = op[p].kind
    <3> HIDE DEF r, g
    <3> QED BY <1>0, <2>1 DEF Op
  <2>3. pc[p] = "readGen" /\ pc'[p] = "fence" /\ used' = used
    BY <1>0, <1>3, Zenon DEF RestoreReadGeneration, Goto, ghosts
  <2>4. ~r
    BY <2>2, <2>3, Zenon DEF Naming, CaptureLabel
  <2>5. op[p].kind = "restore"
    BY <1>0, <2>3, Zenon DEF KindOf
  <2>6. c \in SafetyCp \ used
    BY <2>1, <2>4, Zenon
  <2>7. QED
    BY <2>2, <2>3, <2>5, <2>6, Zenon
<1>4. CASE RestoreFence(p)
  <2>1. /\ pc[p] = "fence" /\ op' = op /\ used' = used
        /\ pc'[p] = "lostCheck" \/ (pc'[p] = "capMeta" /\ ~op[p].recovering)
    BY <1>0, <1>4, Zenon DEF RestoreFence, Goto, ghosts
  <2>2. Naming(p)
    BY <2>1, Zenon DEF Naming, CaptureLabel
  <2>3. QED
    BY <2>1, <2>2, Zenon DEF NamesFresh
<1>5. CASE RestoreOn(p) /\ ~RestoreReadGeneration(p) /\ ~RestoreFence(p)
  <2>1. pc'[p] \notin CaptureLabel \cup {"fence"}
    BY Zenon, <1>0, <1>5 DEF RestoreOn, RestoreLock, LostCheck,
       RestoreActivity, RestoreMark, MoveWorkspaceHead, ResetFile, ResetDone, WriteNode,
       MarkWorkspaceRootClean, CompleteRestore, AcquireImportLock, Local, Return, Goto, CaptureLabel
  <2>2. QED
    BY <2>1, Zenon DEF Naming
<1>6. CASE DeleteOn(p)
  <2>1. pc'[p] \notin CaptureLabel \cup {"fence"}
    BY Zenon, <1>0, <1>6 DEF DeleteOn, DeleteCheckpointRead, DeleteCheckpointExec, DeleteWorkspaceLock,
       DeleteWorkspaceFence, DeleteWorkspaceBatch, DeleteWorkspaceRetire, AcquireImportLock,
       Local, Return, Goto, CaptureLabel
  <2>2. QED
    BY <2>1, Zenon DEF Naming
<1>7. CASE Stop(p)
  <2>1. \/ pc'[p] \in {"idle", "release"}
        \/ pc'[p] = pc[p] /\ op'[p] = op[p] /\ used' = used
    BY <1>0, <1>7, Zenon DEF Stop, Release, Heartbeat, Fail, Crash, Goto, ghosts
  <2>2. QED
    BY <2>1, Zenon DEF Naming, CaptureLabel, NamesFresh
<1>8. QED
  BY <1>1, <1>2, <1>3, <1>4, <1>5, <1>6, <1>7, Zenon DEF Act

(* Who restores or deletes a checkpoint keeps looking at the same one.     *)
LEMMA TargetStep ==
    ASSUME TypeOK, LockHeld, NEW p \in Proc, Act(p), NEW q \in Proc,
           op'[q].kind \in {"restore", "deleteCp"}
    PROVE  \/ op[q].kind = op'[q].kind /\ op'[q].cp = op[q].cp /\ op'[q].m = op[q].m
           \/ /\ op'[q].cp \in Cp /\ savepoint[op'[q].cp] # None /\ op'[q].m = savepoint[op'[q].cp]
              /\ used' = used /\ savepoint' = savepoint
<1>0. pc \in [Proc -> Label] /\ op \in [Proc -> Op]
  BY Zenon DEF TypeOK
<1>1. CASE q # p
  BY <1>1, OthersKept, Zenon
<1>2. CASE q = p
  <2>1. CASE Begin(p)
    BY <1>2, <2>1, BeginOp, Zenon DEF store, catalog, ghosts
  <2>2. CASE SaveOn(p) \/ RestoreOn(p) \/ DeleteOn(p)
    BY <1>2, <2>2, TargetKept, SaveFields, RestoreFields, DeleteFields, Zenon
  <2>3. CASE Stop(p)
    <3>1. op'[p] = op[p] \/ op'[p] = NoOp
      BY <1>0, <2>3, Zenon DEF Stop, Release, Heartbeat, Fail, Crash
    <3>2. NoOp.kind = "none"
      BY Zenon DEF NoOp
    <3>3. QED
      BY <1>2, <3>1, <3>2, Zenon
  <2>4. QED
    BY <2>1, <2>2, <2>3, Zenon DEF Act
<1>3. QED
  BY <1>1, <1>2, Zenon

LEMMA NamesStep ==
    ASSUME TypeOK, LockHeld, NamesFresh, FreshNames, NEW p \in Proc, Act(p)
    PROVE  NamesFresh'
<1>0. used \subseteq used' /\ op[p].name \in Cp
  BY UsedStep, Zenon DEF TypeOK, Op
<1>1. ASSUME NEW c \in Cp, savepoint'[c] # None PROVE c \in used'
  <2>1. CASE savepoint[c] # None
    BY <1>0, <2>1, Zenon DEF NamesFresh
  <2>2. CASE savepoint[c] = None
    BY <1>1, <2>2, SavepointStep, UsedStep, Zenon
  <2>3. QED
    BY <2>1, <2>2, Zenon
<1>2. SaveExec(p) => Naming(p)
  BY Zenon DEF SaveExec, Naming, CaptureLabel
<1>3. ASSUME NEW q \in Proc, Naming(q)'
      PROVE  op'[q].name \notin used' /\ (op'[q].name \in SafetyCp <=> op'[q].kind = "restore")
  <2>1. CASE q = p
    BY <1>3, <2>1, NamingOwn, Zenon
  <2>2. CASE q # p
    <3>1. op'[q] = op[q] /\ pc'[q] = pc[q]
      BY <2>2, OthersKept, Zenon
    <3>2. Naming(q)
      BY <1>3, <3>1, Zenon DEF Naming
    <3>3. op[q].name \notin used'
      BY <1>2, <2>2, <3>2, UsedStep, NamesDiffer, ZenonT(60) DEF NamesFresh
    <3>4. QED
      BY <3>1, <3>2, <3>3, Zenon DEF NamesFresh
  <2>3. QED
    BY <2>1, <2>2, Zenon
<1>4. ASSUME NEW q \in Proc, op'[q].kind \in {"restore", "deleteCp"}
      PROVE  op'[q].cp \in used' /\ savepoint'[op'[q].cp] \in {op'[q].m, None}
  <2>1. CASE op[q].kind = op'[q].kind /\ op'[q].cp = op[q].cp /\ op'[q].m = op[q].m
    <3>1. op[q].cp \in used /\ op[q].cp \in Cp /\ savepoint[op[q].cp] \in {op[q].m, None}
      BY <1>4, <2>1, Zenon DEF NamesFresh, TypeOK, Op
    <3>2. op[q].cp # op[p].name \/ ~SaveExec(p)
      BY <1>2, <3>1, Zenon DEF NamesFresh
    <3>3. savepoint'[op[q].cp] \in {savepoint[op[q].cp], None}
      BY <3>1, <3>2, SavepointStep, Zenon
    <3>4. QED
      BY <1>0, <2>1, <3>1, <3>3, Zenon
  <2>2. QED
    BY <1>4, <2>1, TargetStep, Zenon DEF NamesFresh
<1>5. ASSUME NEW q \in Proc, NEW r \in Proc, q # r, op'[q].kind = "save", op'[r].kind = "save"
      PROVE  op'[q].name # op'[r].name
  <2>1. CASE q # p /\ r # p
    BY <1>5, <2>1, OthersKept, SMTT(60) DEF NamesFresh
  <2>2. ASSUME NEW s \in Proc, s # p, op'[s].kind = "save", op'[p].kind = "save"
        PROVE  op'[p].name # op'[s].name
    <3>1. op'[s] = op[s]
      BY <2>2, OthersKept, Zenon
    <3>2. CASE op[p].kind = "save" /\ op'[p].name = op[p].name
      BY <2>2, <3>1, <3>2, ZenonT(60) DEF NamesFresh
    <3>3. CASE UserName(op'[p].name)
      BY <2>2, <3>1, <3>3, Zenon DEF UserName
    <3>4. QED
      BY <2>2, <3>2, <3>3, SaveGen, Zenon
  <2>3. QED
    BY <1>5, <2>1, <2>2, Zenon
<1>6. QED
  BY <1>1, <1>3, <1>4, <1>5, Zenon DEF NamesFresh

-----------------------------------------------------------------------------
(* The mark of a clean root.                                               *)

(* Who may write the mark.                                                 *)
LEMMA MarkStep ==
    ASSUME TypeOK, NEW p \in Proc, Act(p)
    PROVE  \/ mark' = mark
           \/ /\ SaveExec(p) /\ p \notin stale
              /\ mark' = [head |-> op[p].name, dirty |-> FALSE]
           \/ pc[p] \in ReplaceLabel \cup {"dwDelete"}
<1>1. CASE Begin(p)
  BY <1>1, BeginForm, Zenon DEF Begun, store, live
<1>2. CASE SaveOn(p)
  <2>1. CASE SaveExec(p) /\ p \notin stale
    BY <2>1, Zenon DEF SaveExec
  <2>2. CASE ~(SaveExec(p) /\ p \notin stale)
    BY Zenon, <1>2, <2>2 DEF SaveOn, CaptureMeta, CaptureRoot, CaptureFile, CaptureEnd, SaveHead, SaveRead,
       SaveExec, Local, Return, store, live
  <2>3. QED
    BY <2>1, <2>2, Zenon
<1>3. CASE RestoreOn(p)
  BY Zenon, <1>3 DEF RestoreOn, RestoreLock, RestoreReadGeneration, RestoreFence, LostCheck,
     RestoreActivity, RestoreMark, MoveWorkspaceHead, ResetFile, ResetDone, WriteNode,
     MarkWorkspaceRootClean, CompleteRestore, AcquireImportLock, Local, Return, store, live,
     ReplaceLabel
<1>4. CASE DeleteOn(p)
  BY Zenon, <1>4 DEF DeleteOn, DeleteCheckpointRead, DeleteCheckpointExec, DeleteWorkspaceLock,
     DeleteWorkspaceFence, DeleteWorkspaceBatch, DeleteWorkspaceRetire, AcquireImportLock,
     Local, Return, store, live
<1>5. CASE Stop(p)
  BY <1>5, Zenon DEF Stop, Release, Heartbeat, Fail, Crash, store, live
<1>6. QED
  BY <1>1, <1>2, <1>3, <1>4, <1>5, Zenon DEF Act

(* While q works under the lock nobody else marks the root.                *)
LEMMA MarkKept ==
    ASSUME TypeOK, LockHeld, WatchGuards, NEW p \in Proc, NEW q \in Proc, q # p, UnderLock(q), Act(p)
    PROVE  mark' = mark
<1>0. ~UnderLock(p) /\ importLock = q /\ KindOf(p)
  BY Exclusive, Zenon DEF LockHeld
<1>1. ~(SaveExec(p) /\ p \notin stale)
  <2>1. SUFFICES ASSUME SaveExec(p), p \notin stale PROVE FALSE
    OBVIOUS
  <2>2. LockAllowsSave(p) /\ op[p].kind # "restore"
    BY <1>0, <2>1, Zenon DEF SaveExec, WatchGuards, ReadsHold, UnderLock
  <2>3. QED
    BY <1>0, <2>2, Distinct, Zenon DEF LockAllowsSave
<1>2. pc[p] \notin ReplaceLabel \cup {"dwDelete"}
  BY <1>0, Zenon DEF KindOf, UnderLock, ReplaceLabel
<1>3. QED
  BY <1>1, <1>2, MarkStep, Zenon

MarkedWhenWhole(p) ==
    pc[p] \in {"lostCheck2", "complete"} => mark = [head |-> op[p].cp, dirty |-> FALSE]

LEMMA MarkedStep ==
    ASSUME TypeOK, LockHeld, WatchGuards, NEW p \in Proc, Act(p), NEW q \in Proc, MarkedWhenWhole(q)
    PROVE  MarkedWhenWhole(q)'
<1>0. pc \in [Proc -> Label] /\ op \in [Proc -> Op] /\ op[p] \in Op /\ KindOf(q)
  BY Zenon DEF TypeOK, LockHeld
<1>1. CASE q # p
  <2>1. pc'[q] = pc[q] /\ op'[q] = op[q]
    BY <1>1, OthersKept, Zenon
  <2>2. CASE UnderLock(q)
    BY <1>1, <2>1, <2>2, MarkKept, Zenon DEF MarkedWhenWhole
  <2>3. CASE ~UnderLock(q)
    BY <1>0, <2>1, <2>3, Zenon DEF MarkedWhenWhole, KindOf, UnderLock, ReplaceLabel
  <2>4. QED
    BY <2>2, <2>3, Zenon
<1>2. CASE q = p
  <2>1. CASE MarkWorkspaceRootClean(p)
    BY <1>0, <1>2, <2>1, Zenon DEF MarkWorkspaceRootClean, MarkedWhenWhole
  <2>2. CASE LostCheck(p, "lostCheck2", "complete") \/ Heartbeat(p)
    <3>1. /\ mark' = mark /\ op'[p] = op[p]
          /\ \/ pc'[p] = "release" \/ pc'[p] = pc[p]
             \/ pc[p] = "lostCheck2" /\ pc'[p] = "complete"
      BY <1>0, <2>2, Zenon DEF LostCheck, Heartbeat, Local, Goto, store, live
    <3>2. QED
      BY <1>2, <3>1, Zenon DEF MarkedWhenWhole
  <2>3. CASE ~(MarkWorkspaceRootClean(p) \/ LostCheck(p, "lostCheck2", "complete") \/ Heartbeat(p))
    <3>1. pc'[p] \notin {"lostCheck2", "complete"}
      <4>1. CASE Begin(p)
        BY <4>1, BeginOp, Zenon
      <4>2. CASE SaveOn(p)
        BY <4>2, SaveLabels, Zenon DEF CaptureLabel
      <4>3. CASE RestoreOn(p)
        BY Zenon, <1>0, <2>3, <4>3 DEF RestoreOn, RestoreLock, RestoreReadGeneration, RestoreFence, LostCheck,
           RestoreActivity, RestoreMark, MoveWorkspaceHead, ResetFile, ResetDone, WriteNode,
           CompleteRestore, AcquireImportLock, Local, Return, Goto
      <4>4. CASE DeleteOn(p)
        BY Zenon, <1>0, <4>4 DEF DeleteOn, DeleteCheckpointRead, DeleteCheckpointExec, DeleteWorkspaceLock,
           DeleteWorkspaceFence, DeleteWorkspaceBatch, DeleteWorkspaceRetire, AcquireImportLock,
           Local, Return, Goto
      <4>5. CASE Stop(p)
        BY <1>0, <2>3, <4>5, Zenon DEF Stop, Release, Fail, Crash, Goto
      <4>6. QED
        BY <4>1, <4>2, <4>3, <4>4, <4>5, Zenon DEF Act
    <3>2. QED
      BY <1>2, <3>1, Zenon DEF MarkedWhenWhole
  <2>4. QED
    BY <2>1, <2>2, <2>3, Zenon
<1>3. QED
  BY <1>1, <1>2, Zenon

CleanWhenShown ==
    generation.phase \in {"live", "fencing"} /\ ~mark.dirty =>
        mark.head \in Cp /\ savepoint[mark.head] \in {root.files, None}

LEMMA CleanStep ==
    ASSUME RestoreInv, SnapshotInv, NamesFresh, CleanRoot, ~deleting, ~deleting', NEW p \in Proc, Act(p)
    PROVE  CleanWhenShown'
<1>0. /\ TypeOK /\ LockHeld /\ FenceHeld /\ TreeShown /\ FenceOf(p) /\ KindOf(p) /\ RestoreWrites(p)
      /\ op[p].name \in Cp /\ op[p].cp \in Cp
      /\ savepoint \in [Cp -> Part \cup {None}]
  BY Zenon DEF RestoreInv, SnapshotInv, FenceHeld, LockHeld, TypeOK, Op
<1>1. SUFFICES ASSUME generation'.phase \in {"live", "fencing"}, ~mark'.dirty
               PROVE  mark'.head \in Cp /\ savepoint'[mark'.head] \in {root'.files, None}
  BY Zenon DEF CleanWhenShown
<1>2. CASE SaveExec(p) /\ p \notin stale
  <2>1. /\ op[p].tree = root.files /\ root' = root
        /\ mark' = [head |-> op[p].name, dirty |-> FALSE]
        /\ savepoint' = [savepoint EXCEPT ![op[p].name] = op[p].tree]
    BY <1>2, SavedTree, Zenon DEF SaveExec
  <2>2. QED
    BY <1>0, <2>1, Zenon
<1>3. CASE CompleteRestore(p) /\ generation = op[p].gen /\ importLock = p
  <2>1. pc[p] = "complete" /\ UNCHANGED <<root, mark, savepoint>>
    BY <1>3, Zenon DEF CompleteRestore, catalog
  <2>2. mark = [head |-> op[p].cp, dirty |-> FALSE] /\ root.files = op[p].m
    BY <1>0, <2>1, Zenon DEF CleanRoot, RestoreWrites
  <2>3. op[p].kind = "restore"
    BY <1>0, <2>1, Zenon DEF KindOf, ReplaceLabel
  <2>4. QED
    BY <1>0, <2>1, <2>2, <2>3, Zenon DEF NamesFresh
<1>4. CASE generation.phase \in {"live", "fencing"} /\ ~(SaveExec(p) /\ p \notin stale)
  <2>1. root' = root
    BY <1>0, <1>4, RootKept, Zenon
  <2>2. mark' = mark
    <3>1. pc[p] \notin ReplaceLabel \cup {"dwDelete"}
      BY <1>0, <1>4, Zenon DEF FenceOf
    <3>2. QED
      BY <1>0, <1>4, <3>1, MarkStep, Zenon
  <2>3. mark.head \in Cp /\ savepoint[mark.head] \in {root.files, None}
    BY <1>1, <1>4, <2>2, Zenon DEF CleanRoot
  <2>4. savepoint'[mark.head] \in {savepoint[mark.head], None}
    BY <1>0, <1>4, <2>3, SavepointStep, Zenon
  <2>5. QED
    BY <2>1, <2>2, <2>3, <2>4, Zenon
<1>5. CASE generation.phase \notin {"live", "fencing"} /\ ~(CompleteRestore(p) /\ generation = op[p].gen /\ importLock = p)
  <2>1. generation' # generation
    BY <1>1, <1>5, Zenon
  <2>2. generation' # [phase |-> "restoring", token |-> op[p].gen.token]
    BY <1>1, SMTT(60)
  <2>3. generation' # [phase |-> "deleted", token |-> 0]
    BY <1>1, SMTT(60)
  <2>4. ~CompleteRestore(p)
    <3>1. CompleteRestore(p) => generation' = generation
      BY <1>5, Zenon DEF CompleteRestore, Return, Local, store
    <3>2. QED
      BY <2>1, <3>1, Zenon
  <2>5. RestoreFence(p) /\ generation' = op[p].gen
    BY <1>0, <2>1, <2>2, <2>3, <2>4, GenerationStep, Zenon
  <2>6. generation.phase = "restoring" => generation'.phase = "restoring"
    <3>1. pc[p] = "fence"
      BY <2>5, Zenon DEF RestoreFence
    <3>2. QED
      BY <1>0, <2>5, <3>1, Zenon DEF FenceOf
  <2>7. generation.phase = "deleted"
    BY <1>0, <1>1, <1>5, <2>6, ZenonT(60) DEF TypeOK, Generation, Phase
  <2>8. QED
    BY <1>0, <2>7, Zenon DEF TreeShown
<1>6. QED
  BY <1>2, <1>3, <1>4, <1>5, Zenon

-----------------------------------------------------------------------------
(* Reference counts.                                                       *)

(* What a step of p that leaves q's transaction alive has not written.     *)
LEMMA CountsKept ==
    ASSUME TypeOK, NEW p \in Proc, NEW q \in Proc, q # p, Act(p), q \notin stale',
           p \in stale \/ CountsHold(p)
    PROVE  /\ q \notin stale
           /\ \A c \in Cp : SavepointKey(c) \in watch[q] => savepoint'[c] = savepoint[c]
           /\ \A b \in Blob : RefKey(b) \in watch[q] => refCount'[b] = refCount[b]
           /\ MetaKey \in watch[q] => \A b \in Blob : refCount'[b] <= refCount[b]
<1> DEFINE Kept == /\ q \notin stale
                   /\ \A c \in Cp : SavepointKey(c) \in watch[q] => savepoint'[c] = savepoint[c]
                   /\ \A b \in Blob : RefKey(b) \in watch[q] => refCount'[b] = refCount[b]
                   /\ MetaKey \in watch[q] => \A b \in Blob : refCount'[b] <= refCount[b]
<1>0. /\ savepoint \in [Cp -> Part \cup {None}] /\ refCount \in [Blob -> Nat] /\ op[p] \in Op
      /\ op[p].refs \in [Blob -> Nat]
  BY Zenon DEF TypeOK, Op
<1>1. ASSUME q \notin stale, UNCHANGED catalog PROVE Kept
  BY <1>0, <1>1, SMTT(60) DEF catalog
<1>2. CASE Begin(p)
  BY <1>1, <1>2, BeginForm, Zenon DEF Begun, store
<1>3. CASE SaveOn(p)
  <2>1. CASE SaveExec(p) /\ p \notin stale
    <3> DEFINE K == {MetaKey, SavepointKey(op[p].name)} \cup {RefKey(b) : b \in manifestBlobRefs(op[p].tree)}
    <3>1. Touch(K)
      BY <2>1, Zenon DEF SaveExec
    <3>2. q \notin stale /\ MetaKey \notin watch[q] /\ SavepointKey(op[p].name) \notin watch[q]
      BY <3>1, TouchMarks, Zenon
    <3>3. ASSUME NEW c \in Cp, SavepointKey(c) \in watch[q] PROVE savepoint'[c] = savepoint[c]
      <4>1. c # op[p].name
        BY <3>2, <3>3, Zenon
      <4>2. savepoint' = [savepoint EXCEPT ![op[p].name] = op[p].tree]
        BY <2>1, Zenon DEF SaveExec
      <4>3. QED
        BY <1>0, <4>1, <4>2, Zenon
    <3>4. ASSUME NEW b \in Blob, RefKey(b) \in watch[q] PROVE refCount'[b] = refCount[b]
      <4>1. b \notin manifestBlobRefs(op[p].tree)
        <5>1. SUFFICES ASSUME b \in manifestBlobRefs(op[p].tree) PROVE FALSE
          OBVIOUS
        <5>2. RefKey(b) \in K
          BY <5>1, Zenon
        <5>3. QED
          BY <3>1, <3>4, <5>2, TouchMarks, Zenon
      <4>2. refCount' = [x \in Blob |-> IF x \in manifestBlobRefs(op[p].tree) THEN Increment(op[p].refs[x])
                                        ELSE refCount[x]]
        BY <2>1, Zenon DEF SaveExec
      <4>3. QED
        BY <4>1, <4>2, Zenon
    <3>5. QED
      BY <3>2, <3>3, <3>4, Zenon
  <2>2. CASE ~(SaveExec(p) /\ p \notin stale)
    <3>1. UNCHANGED store /\ (stale' = stale \/ stale' = stale \ {p})
      BY Zenon, <1>3, <2>2 DEF SaveOn, CaptureMeta, CaptureRoot, CaptureFile, CaptureEnd, SaveHead, SaveRead,
         SaveExec, Local, Return
    <3>2. QED
      BY <1>1, <3>1, Zenon DEF store
  <2>3. QED
    BY <2>1, <2>2, Zenon
<1>4. CASE RestoreOn(p)
  <2>1. UNCHANGED catalog
    BY Zenon, <1>4 DEF RestoreOn, RestoreLock, RestoreReadGeneration, RestoreFence, LostCheck,
       RestoreActivity, RestoreMark, MoveWorkspaceHead, ResetFile, ResetDone, WriteNode,
       MarkWorkspaceRootClean, CompleteRestore, AcquireImportLock, Local, Return, store
  <2>2. q \notin stale
    BY Zenon, <1>4 DEF RestoreOn, RestoreLock, RestoreReadGeneration, RestoreFence, LostCheck,
       RestoreActivity, RestoreMark, MoveWorkspaceHead, ResetFile, ResetDone, WriteNode,
       MarkWorkspaceRootClean, CompleteRestore, AcquireImportLock, Local, Return, Touch
  <2>3. QED
    BY <1>1, <2>1, <2>2, Zenon
<1>5. CASE DeleteOn(p)
  <2>1. CASE DeleteCheckpointExec(p) /\ p \notin stale
    <3> DEFINE K == {SavepointKey(op[p].cp)} \cup {RefKey(b) : b \in manifestBlobRefs(op[p].m)}
    <3>1. Touch(K)
      BY <2>1, Zenon DEF DeleteCheckpointExec
    <3>2. q \notin stale /\ SavepointKey(op[p].cp) \notin watch[q]
      BY <3>1, TouchMarks, Zenon
    <3>3. ASSUME NEW c \in Cp, SavepointKey(c) \in watch[q] PROVE savepoint'[c] = savepoint[c]
      <4>1. c # op[p].cp
        BY <3>2, <3>3, Zenon
      <4>2. savepoint' = [savepoint EXCEPT ![op[p].cp] = None]
        BY <2>1, Zenon DEF DeleteCheckpointExec
      <4>3. QED
        BY <1>0, <4>1, <4>2, Zenon
    <3>4. refCount' = [x \in Blob |-> IF x \in manifestBlobRefs(op[p].m) THEN Decrement(op[p].refs[x])
                                      ELSE refCount[x]]
      BY <2>1, Zenon DEF DeleteCheckpointExec
    <3>5. ASSUME NEW b \in Blob, RefKey(b) \in watch[q] PROVE refCount'[b] = refCount[b]
      <4>1. b \notin manifestBlobRefs(op[p].m)
        <5>1. SUFFICES ASSUME b \in manifestBlobRefs(op[p].m) PROVE FALSE
          OBVIOUS
        <5>2. RefKey(b) \in K
          BY <5>1, Zenon
        <5>3. QED
          BY <3>1, <3>5, <5>2, TouchMarks, Zenon
      <4>2. QED
        BY <3>4, <4>1, Zenon
    <3>6. ASSUME NEW b \in Blob PROVE refCount'[b] <= refCount[b]
      <4>1. CASE b \in manifestBlobRefs(op[p].m)
        <5>1. op[p].refs[b] = refCount[b] /\ refCount'[b] = Decrement(refCount[b]) /\ refCount[b] \in Nat
          BY <1>0, <2>1, <3>4, <4>1, Zenon DEF CountsHold, DeleteCheckpointExec
        <5>2. QED
          BY <5>1, SMTT(60) DEF Decrement
      <4>2. CASE b \notin manifestBlobRefs(op[p].m)
        <5>1. refCount'[b] = refCount[b] /\ refCount[b] \in Nat
          BY <1>0, <3>4, <4>2, Zenon
        <5>2. QED
          BY <5>1, SMTT(60)
      <4>3. QED
        BY <4>1, <4>2, Zenon
    <3>7. QED
      BY <3>2, <3>3, <3>5, <3>6, Zenon
  <2>2. ASSUME NEW k \in Batch, DeleteWorkspaceBatch(p, k) PROVE Kept
    <3>1. savepoint' = [c \in Cp |-> IF k = <<"savepoint", c>> THEN None ELSE savepoint[c]]
      BY <2>2, Zenon DEF DeleteWorkspaceBatch
    <3>2. CASE k = <<"journal">>
      <4>1. Touch({ChangesKey, BeforeKey} \cup {RefKey(b) : b \in Blob}) /\ refCount' = [b \in Blob |-> 0]
        BY <2>2, <3>2, Zenon DEF DeleteWorkspaceBatch
      <4>2. q \notin stale
        BY <4>1, Zenon DEF Touch
      <4>3. ASSUME NEW b \in Blob PROVE RefKey(b) \notin watch[q]
        BY <4>1, TouchMarks, ZenonT(60)
      <4>4. ASSUME NEW c \in Cp PROVE savepoint'[c] = savepoint[c]
        BY <3>1, <3>2, Zenon
      <4>5. ASSUME NEW b \in Blob PROVE refCount'[b] <= refCount[b]
        BY <1>0, <4>1, SMTT(60)
      <4>6. QED
        BY <4>2, <4>3, <4>4, <4>5, Zenon
    <3>3. CASE k # <<"journal">>
      <4>1. Touch({k}) /\ refCount' = refCount
        BY <2>2, <3>3, Zenon DEF DeleteWorkspaceBatch
      <4>2. q \notin stale /\ k \notin watch[q]
        BY <4>1, TouchMarks, Zenon
      <4>3. ASSUME NEW c \in Cp, SavepointKey(c) \in watch[q] PROVE savepoint'[c] = savepoint[c]
        <5>1. k # <<"savepoint", c>>
          BY <4>2, <4>3, Zenon DEF SavepointKey
        <5>2. QED
          BY <3>1, <5>1, Zenon
      <4>4. ASSUME NEW b \in Blob PROVE refCount'[b] = refCount[b] /\ refCount'[b] <= refCount[b]
        BY <1>0, <4>1, SMTT(60)
      <4>5. QED
        BY <4>2, <4>3, <4>4, Zenon
    <3>4. QED
      BY <3>2, <3>3, Zenon
  <2>3. CASE \/ DeleteCheckpointRead(p) \/ (DeleteCheckpointExec(p) /\ p \in stale)
             \/ DeleteWorkspaceLock(p) \/ DeleteWorkspaceFence(p) \/ DeleteWorkspaceRetire(p)
    <3>1. UNCHANGED catalog /\ q \notin stale
      BY Zenon, <2>3 DEF DeleteCheckpointRead, DeleteCheckpointExec, DeleteWorkspaceLock, DeleteWorkspaceFence,
         DeleteWorkspaceRetire, AcquireImportLock, Touch, Local, Return, store
    <3>2. QED
      BY <1>1, <3>1, Zenon
  <2>4. QED
    BY <1>5, <2>1, <2>2, <2>3, Zenon DEF DeleteOn
<1>6. CASE Stop(p)
  <2>1. UNCHANGED catalog /\ q \notin stale
    BY <1>6, Zenon DEF Stop, Release, Heartbeat, Fail, Crash, store
  <2>2. QED
    BY <1>1, <2>1, Zenon
<1>7. QED
  BY <1>2, <1>3, <1>4, <1>5, <1>6, ZenonT(60) DEF Act

LEMMA CountsOthers ==
    ASSUME TypeOK, WatchGuards, NEW p \in Proc, NEW q \in Proc, q # p, Act(p), q \notin stale',
           p \in stale \/ CountsHold(p), q \in stale \/ CountsHold(q)
    PROVE  CountsHold(q)'
<1>0. /\ pc'[q] = pc[q] /\ op'[q] = op[q] /\ watch'[q] = watch[q]
      /\ op[q].cp \in Cp /\ op[q].m \in Part /\ op[q].refs \in [Blob -> Nat]
      /\ refCount \in [Blob -> Nat] /\ TypeOK'
  <2>1. TypeOK'
    BY TypeStep, NextForm, Zenon DEF Act, Next, Begin, SaveOn, RestoreOn, DeleteOn, Stop, Save, Restore, Delete
  <2>2. QED
    BY <2>1, OthersKept, ZenonT(60) DEF TypeOK, Op
<1>1. /\ q \notin stale
      /\ \A c \in Cp : SavepointKey(c) \in watch[q] => savepoint'[c] = savepoint[c]
      /\ \A b \in Blob : RefKey(b) \in watch[q] => refCount'[b] = refCount[b]
      /\ MetaKey \in watch[q] => \A b \in Blob : refCount'[b] <= refCount[b]
  BY CountsKept, Zenon
<1>2. CASE pc[q] = "saveExec"
  <2>1. MetaKey \in watch[q] /\ \A b \in Blob : op[q].refs[b] >= refCount[b]
    BY <1>1, <1>2, Zenon DEF WatchGuards, ReadsHold, CountsHold
  <2>2. ASSUME NEW b \in Blob PROVE op[q].refs[b] >= refCount'[b]
    <3>1. refCount'[b] <= refCount[b] /\ op[q].refs[b] >= refCount[b]
      BY <1>1, <2>1, Zenon
    <3>2. refCount'[b] \in Nat /\ refCount[b] \in Nat /\ op[q].refs[b] \in Nat
      BY <1>0, Zenon DEF TypeOK
    <3>3. QED
      BY <3>1, <3>2, SMTT(60)
  <2>3. QED
    BY <1>0, <1>2, <2>2, Zenon DEF CountsHold
<1>3. CASE pc[q] = "dcExec"
  <2>1. /\ savepoint[op[q].cp] = op[q].m /\ DeleteWatch(q) \subseteq watch[q]
        /\ \A b \in manifestBlobRefs(op[q].m) : op[q].refs[b] = refCount[b]
    BY <1>1, <1>3, Zenon DEF CountsHold
  <2>2. SavepointKey(op[q].cp) \in watch[q]
        /\ \A b \in manifestBlobRefs(op[q].m) : RefKey(b) \in watch[q] /\ b \in Blob
    BY <1>0, <2>1, ZenonT(60) DEF DeleteWatch, manifestBlobRefs, Part
  <2>3. savepoint'[op[q].cp] = op[q].m
    BY <1>0, <1>1, <2>1, <2>2, Zenon
  <2>4. \A b \in manifestBlobRefs(op[q].m) : op[q].refs[b] = refCount'[b]
    BY <1>1, <2>1, <2>2, Zenon
  <2>5. DeleteWatch(q)' \subseteq watch'[q]
    BY <1>0, <2>1, Zenon DEF DeleteWatch
  <2>6. QED
    BY <1>0, <1>3, <2>3, <2>4, <2>5, Zenon DEF CountsHold
<1>4. CASE pc[q] \notin {"saveExec", "dcExec"}
  BY <1>0, <1>4, Zenon DEF CountsHold
<1>5. QED
  BY <1>2, <1>3, <1>4, Zenon

LEMMA CountsOwn ==
    ASSUME TypeOK, LockHeld, NamesFresh, NEW p \in Proc, Act(p), p \notin stale',
           p \in stale \/ CountsHold(p)
    PROVE  CountsHold(p)'
<1>0. /\ pc \in [Proc -> Label] /\ op \in [Proc -> Op] /\ watch \in [Proc -> SUBSET Key]
      /\ op[p] \in Op /\ refCount \in [Blob -> Nat] /\ KindOf(p)
  BY Zenon DEF TypeOK, LockHeld
<1>1. CASE SaveRead(p)
  <2>1. CASE Return(p)
    BY <1>0, <2>1, Zenon DEF Return, Local, Goto, CountsHold
  <2>2. CASE ~Return(p)
    <3>1. pc'[p] = "saveExec" /\ refCount' = refCount
      BY <1>0, <1>1, <2>2, Zenon DEF SaveRead, Goto, store, catalog
    <3>2. op'[p].refs = refCount
      BY <1>0, <1>1, <2>2, SMTT(60) DEF SaveRead, Op
    <3>3. QED
      BY <1>0, <3>1, <3>2, SMTT(60) DEF CountsHold
  <2>3. QED
    BY <2>1, <2>2, Zenon
<1>2. CASE DeleteCheckpointRead(p)
  <2>1. CASE Return(p)
    BY <1>0, <2>1, Zenon DEF Return, Local, Goto, CountsHold
  <2>2. CASE ~Return(p)
    <3>1. /\ pc[p] = "dcRead" /\ pc'[p] = "dcExec" /\ UNCHANGED <<savepoint, refCount>>
          /\ savepoint[op[p].cp] # None /\ watch'[p] = DeleteWatch(p)
      BY <1>0, <1>2, <2>2, Zenon DEF DeleteCheckpointRead, Goto, store, catalog
    <3>2. op'[p].refs = refCount /\ op'[p].cp = op[p].cp /\ op'[p].m = op[p].m
      BY <1>0, <1>2, <2>2, SMTT(60) DEF DeleteCheckpointRead, Op
    <3>3. savepoint[op[p].cp] = op[p].m
      BY <1>0, <3>1, Zenon DEF NamesFresh, KindOf
    <3>4. DeleteWatch(p)' = DeleteWatch(p)
      BY <3>2, Zenon DEF DeleteWatch
    <3>5. QED
      BY <3>1, <3>2, <3>3, <3>4, Zenon DEF CountsHold
  <2>3. QED
    BY <2>1, <2>2, Zenon
<1>3. CASE Heartbeat(p)
  <2>1. UNCHANGED <<store, pc, op, watch, stale>>
    BY <1>3, Zenon DEF Heartbeat
  <2>2. QED
    BY <2>1, Zenon DEF CountsHold, DeleteWatch, store, catalog
<1>4. CASE ~SaveRead(p) /\ ~DeleteCheckpointRead(p) /\ ~Heartbeat(p)
  <2>1. pc'[p] \notin {"dcExec", "saveExec"}
    <3>1. CASE Begin(p)
      BY <3>1, BeginOp, Zenon
    <3>2. CASE SaveOn(p)
      BY ZenonT(60), <1>0, <1>4, <3>2 DEF SaveOn, CaptureMeta, CaptureRoot, CaptureFile, CaptureEnd, SaveHead,
         SaveExec, Local, Return, Goto
    <3>3. CASE RestoreOn(p)
      BY Zenon, <1>0, <3>3 DEF RestoreOn, RestoreLock, RestoreReadGeneration, RestoreFence, LostCheck,
         RestoreActivity, RestoreMark, MoveWorkspaceHead, ResetFile, ResetDone, WriteNode,
         MarkWorkspaceRootClean, CompleteRestore, AcquireImportLock, Local, Return, Goto
    <3>4. CASE DeleteOn(p)
      BY ZenonT(60), <1>0, <1>4, <3>4 DEF DeleteOn, DeleteCheckpointExec, DeleteWorkspaceLock,
         DeleteWorkspaceFence, DeleteWorkspaceBatch, DeleteWorkspaceRetire, AcquireImportLock,
         Local, Return, Goto
    <3>5. CASE Stop(p)
      BY <1>0, <1>4, <3>5, Zenon DEF Stop, Release, Fail, Crash, Goto
    <3>6. QED
      BY <3>1, <3>2, <3>3, <3>4, <3>5, ZenonT(60) DEF Act
  <2>2. QED
    BY <2>1, Zenon DEF CountsHold
<1>5. QED
  BY <1>1, <1>2, <1>3, <1>4, Zenon

LEMMA StoredFinite ==
    ASSUME TypeOK, NEW p \in Proc, Act(p), IsFiniteSet(Stored)
    PROVE  IsFiniteSet(Stored')
<1>1. ASSUME NEW c \in Stored' PROVE c \in Stored \cup {op[p].name}
  BY <1>1, SavepointStep, Zenon DEF Stored
<1>2. IsFiniteSet(Stored \cup {op[p].name})
  BY FS_AddElement, Zenon
<1>3. QED
  BY <1>1, <1>2, FS_Subset, Zenon

(* The users of a blob before and after a checkpoint is stored or removed. *)
LEMMA UsersFinite ==
    ASSUME IsFiniteSet(Stored), NEW b
    PROVE  IsFiniteSet(Users(b)) /\ Cardinality(Users(b)) \in Nat
<1>1. Users(b) \in SUBSET Stored
  BY Zenon DEF Users, Stored
<1>2. IsFiniteSet(Users(b))
  BY <1>1, FS_Subset, Zenon
<1>3. QED
  BY <1>2, FS_CardinalityType, Zenon

LEMMA CoversSave ==
    ASSUME RestoreInv, IsFiniteSet(Stored), RefCountCovers, ~deleting, NEW p \in Proc,
           SaveExec(p), p \notin stale, CountsHold(p), NEW b \in Blob
    PROVE  refCount'[b] >= Cardinality(Users(b)')
<1>0. /\ savepoint \in [Cp -> Part \cup {None}] /\ refCount[b] \in Nat /\ op[p].refs[b] \in Nat
      /\ op[p].name \in Cp /\ op[p].tree \in Part /\ op[p].tree # None
      /\ op[p].refs[b] >= refCount[b] /\ refCount[b] >= Cardinality(Users(b))
      /\ savepoint[op[p].name] = None
  BY TreeIsNotNone, SMTT(60) DEF RestoreInv, TypeOK, Op, CountsHold, SaveExec, WatchGuards, ReadsHold, RefCountCovers
<1>1. /\ savepoint' = [savepoint EXCEPT ![op[p].name] = op[p].tree]
      /\ refCount' = [x \in Blob |-> IF x \in manifestBlobRefs(op[p].tree) THEN Increment(op[p].refs[x])
                                     ELSE refCount[x]]
  BY Zenon DEF SaveExec
<1>2. Cardinality(Users(b)) \in Nat /\ IsFiniteSet(Users(b)) /\ op[p].name \notin Users(b)
  BY <1>0, UsersFinite, Zenon DEF Users
<1>3. CASE b \in manifestBlobRefs(op[p].tree)
  <2>1. Users(b)' = Users(b) \cup {op[p].name}
    BY <1>0, <1>1, <1>3, Zenon DEF Users
  <2>2. Cardinality(Users(b)') = Cardinality(Users(b)) + 1
    BY <1>2, <2>1, FS_AddElement, ZenonT(60)
  <2>3. refCount'[b] = op[p].refs[b] + 1
    BY <1>1, <1>3, Zenon DEF Increment
  <2>4. QED
    BY <1>0, <1>2, <2>2, <2>3, SMTT(60)
<1>4. CASE b \notin manifestBlobRefs(op[p].tree)
  <2>1. Users(b)' = Users(b)
    BY <1>0, <1>1, <1>4, Zenon DEF Users
  <2>2. refCount'[b] = refCount[b]
    BY <1>1, <1>4, Zenon
  <2>3. QED
    BY <1>0, <2>1, <2>2, Zenon
<1>5. QED
  BY <1>3, <1>4, ZenonT(60)

LEMMA CoversDelete ==
    ASSUME TypeOK, IsFiniteSet(Stored), RefCountCovers, ~deleting, NEW p \in Proc,
           DeleteCheckpointExec(p), p \notin stale, CountsHold(p), NEW b \in Blob
    PROVE  refCount'[b] >= Cardinality(Users(b)')
<1>0. /\ savepoint \in [Cp -> Part \cup {None}] /\ refCount[b] \in Nat
      /\ op[p].cp \in Cp /\ op[p].m \in Part /\ op[p].m # None
      /\ refCount[b] >= Cardinality(Users(b)) /\ savepoint[op[p].cp] = op[p].m
      /\ b \in manifestBlobRefs(op[p].m) => op[p].refs[b] = refCount[b]
  BY TreeIsNotNone, SMTT(60) DEF TypeOK, Op, CountsHold, DeleteCheckpointExec, RefCountCovers
<1>1. /\ savepoint' = [savepoint EXCEPT ![op[p].cp] = None]
      /\ refCount' = [x \in Blob |-> IF x \in manifestBlobRefs(op[p].m) THEN Decrement(op[p].refs[x])
                                     ELSE refCount[x]]
  BY Zenon DEF DeleteCheckpointExec
<1>2. Cardinality(Users(b)) \in Nat /\ IsFiniteSet(Users(b))
  BY UsersFinite, Zenon
<1>3. CASE b \in manifestBlobRefs(op[p].m)
  <2>1. Users(b)' = Users(b) \ {op[p].cp} /\ op[p].cp \in Users(b)
    BY <1>0, <1>1, <1>3, Zenon DEF Users
  <2>2. Cardinality(Users(b)') = Cardinality(Users(b)) - 1
    BY <1>2, <2>1, FS_RemoveElement, ZenonT(60)
  <2>3. refCount'[b] = Decrement(refCount[b])
    BY <1>0, <1>1, <1>3, Zenon
  <2>4. QED
    BY <1>0, <1>2, <2>2, <2>3, SMTT(60) DEF Decrement
<1>4. CASE b \notin manifestBlobRefs(op[p].m)
  <2>1. Users(b)' = Users(b)
    BY <1>0, <1>1, <1>4, Zenon DEF Users
  <2>2. refCount'[b] = refCount[b]
    BY <1>1, <1>4, Zenon
  <2>3. QED
    BY <1>0, <2>1, <2>2, Zenon
<1>5. QED
  BY <1>3, <1>4, ZenonT(60)

LEMMA CoversStep ==
    ASSUME RestoreInv, CountsInv, ~deleting, NEW p \in Proc, Act(p), NEW b \in Blob
    PROVE  refCount'[b] >= Cardinality(Users(b)')
<1>0. /\ TypeOK /\ IsFiniteSet(Stored) /\ RefCountCovers /\ (p \in stale \/ CountsHold(p))
      /\ TreeShown /\ FenceOf(p)
  BY Zenon DEF RestoreInv, CountsInv, FenceHeld
<1>1. CASE SaveExec(p) /\ p \notin stale
  BY <1>0, <1>1, CoversSave, Zenon
<1>2. CASE DeleteCheckpointExec(p) /\ p \notin stale
  BY <1>0, <1>2, CoversDelete, Zenon
<1>3. CASE ~(SaveExec(p) /\ p \notin stale) /\ ~(DeleteCheckpointExec(p) /\ p \notin stale)
  <2>1. ASSUME NEW k \in Batch, DeleteWorkspaceBatch(p, k) PROVE FALSE
    <3>1. pc[p] = "dwDelete"
      BY <2>1, Zenon DEF DeleteWorkspaceBatch
    <3>2. QED
      BY <1>0, <3>1, Zenon DEF FenceOf, TreeShown
  <2>2. UNCHANGED catalog
    <3>1. CASE Begin(p)
      BY <1>0, <3>1, BeginForm, Zenon DEF Begun, store
    <3>2. CASE SaveOn(p)
      BY Zenon, <1>3, <3>2 DEF SaveOn, CaptureMeta, CaptureRoot, CaptureFile, CaptureEnd, SaveHead, SaveRead,
         SaveExec, Local, Return, store
    <3>3. CASE RestoreOn(p)
      BY Zenon, <3>3 DEF RestoreOn, RestoreLock, RestoreReadGeneration, RestoreFence, LostCheck,
         RestoreActivity, RestoreMark, MoveWorkspaceHead, ResetFile, ResetDone, WriteNode,
         MarkWorkspaceRootClean, CompleteRestore, AcquireImportLock, Local, Return, store
    <3>4. CASE DeleteOn(p)
      BY Zenon, <1>3, <2>1, <3>4 DEF DeleteOn, DeleteCheckpointRead, DeleteCheckpointExec, DeleteWorkspaceLock,
         DeleteWorkspaceFence, DeleteWorkspaceRetire, AcquireImportLock, Local, Return, store
    <3>5. CASE Stop(p)
      BY <3>5, Zenon DEF Stop, Release, Heartbeat, Fail, Crash, store
    <3>6. QED
      BY <3>1, <3>2, <3>3, <3>4, <3>5, ZenonT(60) DEF Act
  <2>3. refCount' = refCount /\ Users(b)' = Users(b)
    BY <2>2, Zenon DEF catalog, Users
  <2>4. QED
    BY <1>0, <2>3, Zenon DEF RefCountCovers
<1>4. QED
  BY <1>1, <1>2, <1>3, Zenon

-----------------------------------------------------------------------------
LEMMA CountsAct ==
    ASSUME RestoreInv, SnapshotInv, CountsInv, FreshNames, NEW p \in Proc, Act(p)
    PROVE  CountsInv'
<1>0. /\ TypeOK /\ LockHeld /\ WatchGuards /\ NamesFresh /\ IsFiniteSet(Stored)
      /\ \A q \in Proc : q \in stale \/ CountsHold(q)
  BY Zenon DEF RestoreInv, CountsInv
<1>1. NamesFresh'
  BY <1>0, NamesStep, Zenon
<1>2. ASSUME ~deleting' PROVE CleanRoot'
  <2>1. ~deleting
    BY <1>0, <1>2, DeletingGrows, Zenon
  <2>2. CleanRoot
    BY <2>1, Zenon DEF CountsInv
  <2>3. CleanWhenShown'
    BY <1>0, <1>2, <2>1, <2>2, CleanStep, Zenon
  <2>4. ASSUME NEW q \in Proc PROVE MarkedWhenWhole(q)'
    <3>1. MarkedWhenWhole(q)
      BY <2>2, Zenon DEF CleanRoot, MarkedWhenWhole
    <3>2. QED
      BY <1>0, <3>1, MarkedStep, Zenon
  <2>5. QED
    BY <2>3, <2>4, Zenon DEF CleanRoot, CleanWhenShown, MarkedWhenWhole
<1>3. ASSUME NEW q \in Proc, q \notin stale' PROVE CountsHold(q)'
  BY <1>0, <1>3, CountsOthers, CountsOwn, Zenon
<1>4. IsFiniteSet(Stored')
  BY <1>0, StoredFinite, Zenon
<1>5. RefCountCovers'
  <2>1. SUFFICES ASSUME ~deleting', NEW b \in Blob PROVE refCount'[b] >= Cardinality(Users(b)')
    BY Zenon DEF RefCountCovers
  <2>2. ~deleting
    BY <1>0, <2>1, DeletingGrows, Zenon
  <2>3. QED
    BY <2>2, CoversStep, Zenon
<1>6. QED
  BY <1>1, <1>2, <1>3, <1>4, <1>5, ZenonT(60) DEF CountsInv

LEMMA CountsPublish ==
    ASSUME RestoreInv, CountsInv,
           NEW c \in Client, NEW f \in File, NEW b \in Blob, Publish(c, f, b)
    PROVE  CountsInv'
<1>0. FenceHeld /\ generation.phase = "live" /\ mark \in [head : Cp \cup {None}, dirty : BOOLEAN]
  BY Zenon DEF RestoreInv, Publish, TypeOK
<1>1. /\ UNCHANGED <<pc, op, watch, savepoint, refCount, deleting, used>> /\ stale \subseteq stale'
      /\ mark'.dirty = TRUE
  BY <1>0, Zenon DEF Publish, catalog, Touch
<1>2. NamesFresh'
  BY <1>1, Zenon DEF CountsInv, NamesFresh, Naming
<1>3. CleanRoot'
  <2>1. ASSUME NEW q \in Proc PROVE pc[q] \notin ReplaceLabel
    BY <1>0, Zenon DEF FenceHeld, FenceOf
  <2>2. QED
    BY <1>1, <2>1, Zenon DEF CleanRoot, ReplaceLabel
<1>4. ASSUME NEW q \in Proc PROVE q \in stale' \/ CountsHold(q)'
  BY <1>1, Zenon DEF CountsInv, CountsHold, DeleteWatch
<1>5. Stored' = Stored /\ \A x \in Blob : Users(x)' = Users(x)
  BY <1>1, Zenon DEF Stored, Users
<1>6. QED
  BY <1>1, <1>2, <1>3, <1>4, <1>5, ZenonT(60) DEF CountsInv, RefCountCovers

LEMMA CountsStep ==
    ASSUME RestoreInv, SnapshotInv, CountsInv, FreshNames, [Next]_vars
    PROVE  CountsInv'
<1>1. CASE (\E c \in Client : Open(c)) \/ UpdateWorkspaceSettings \/ LockExpires \/ UNCHANGED vars
  <2>1. /\ UNCHANGED <<generation, pc, op, watch, savepoint, refCount, root, mark, deleting, used>>
        /\ stale \subseteq stale'
    BY <1>1, Zenon DEF Open, UpdateWorkspaceSettings, LockExpires, Touch, vars, store, live, catalog, ghosts
  <2>2. NamesFresh' /\ (~deleting' => CleanRoot')
    BY <2>1, Zenon DEF CountsInv, NamesFresh, Naming, CleanRoot
  <2>3. ASSUME NEW q \in Proc PROVE q \in stale' \/ CountsHold(q)'
    BY <2>1, Zenon DEF CountsInv, CountsHold, DeleteWatch
  <2>4. Stored' = Stored /\ \A x \in Blob : Users(x)' = Users(x)
    BY <2>1, Zenon DEF Stored, Users
  <2>5. QED
    BY <2>1, <2>2, <2>3, <2>4, Zenon DEF CountsInv, RefCountCovers
<1>2. QED
  BY <1>1, CountsAct, CountsPublish, NextForm, Zenon DEF Outside

LEMMA CountsInit ==
    ASSUME Init
    PROVE  CountsInv
<1>1. /\ \A p \in Proc : pc[p] = "idle" /\ op[p] = NoOp
      /\ stale = {} /\ used = {Initial} /\ mark = [head |-> Initial, dirty |-> FALSE]
  BY Zenon DEF Init
<1>2. NoOp.kind = "none"
  BY Zenon DEF NoOp
<1>3. PICK t \in Tree : /\ savepoint = [c \in Cp |-> IF c = Initial THEN t ELSE None]
                        /\ refCount = [b \in Blob |-> IF b \in manifestBlobRefs(t) THEN 1 ELSE 0]
                        /\ root = [exists |-> TRUE, files |-> t]
  BY Zenon DEF Init
<1>4. t # None
  BY TreeIsNotNone, Zenon DEF Part, Tree
<1>5. NamesFresh
  BY <1>1, <1>2, <1>3, Zenon DEF NamesFresh, Naming, CaptureLabel
<1>6. CleanRoot
  BY <1>1, <1>3, Distinct, Zenon DEF CleanRoot
<1>7. ASSUME NEW p \in Proc PROVE CountsHold(p)
  BY <1>1, Zenon DEF CountsHold
<1>8. Stored = {Initial}
  BY <1>3, <1>4, Distinct, Zenon DEF Stored
<1>9. IsFiniteSet(Stored)
  BY <1>8, FS_Singleton, Zenon
<1>10. ASSUME NEW b \in Blob PROVE refCount[b] >= Cardinality(Users(b))
  <2>1. CASE b \in manifestBlobRefs(t)
    <3>1. Users(b) = {Initial}
      BY <1>3, <1>4, <2>1, Distinct, ZenonT(60) DEF Users
    <3>2. refCount[b] = 1
      BY <1>3, <2>1, Zenon
    <3>3. QED
      BY <3>1, <3>2, FS_Singleton, SMTT(60)
  <2>2. CASE b \notin manifestBlobRefs(t)
    <3>1. Users(b) = {}
      BY <1>3, <2>2, Zenon DEF Users
    <3>2. refCount[b] = 0
      BY <1>3, <2>2, Zenon
    <3>3. QED
      BY <3>1, <3>2, FS_EmptySet, SMTT(60)
  <2>3. QED
    BY <2>1, <2>2, Zenon
<1>11. QED
  BY <1>5, <1>6, <1>7, <1>9, <1>10, Zenon DEF CountsInv, RefCountCovers

(* The whole invariant is inductive: a restore works behind its fence with *)
(* a generation nobody else has seen, a save commits only what it read in  *)
(* one moment, and, when no ID is used twice, what a transaction has read  *)
(* of the counts still covers the checkpoints when it writes them back.    *)
THEOREM CheckpointsInductive ==
    ASSUME ~MayStall
    PROVE  Spec => []CheckpointsInv
<1>1. Init => (FreshNames => CountsInv)
  BY CountsInit, Zenon
<1>2. RestoreInv /\ SnapshotInv /\ (FreshNames => CountsInv) /\ [Next]_vars => (FreshNames => CountsInv)'
  BY CountsStep, Zenon
<1>3. RestoreInv /\ SnapshotInv /\ (FreshNames => CountsInv) => CheckpointsInv
  BY Zenon DEF CheckpointsInv
<1>4. QED
  BY <1>1, <1>2, <1>3, SnapshotInductive, PTL DEF Spec

(* A root that a save or a restore marked clean equals the checkpoint it   *)
(* is marked with until a client publishes.                                *)
THEOREM CleanRootUnchanged ==
    ASSUME ~MayStall, FreshNames
    PROVE  Spec => []CleanMeansUnchanged
<1>1. CheckpointsInv => CleanMeansUnchanged
  BY Zenon DEF CheckpointsInv, CountsInv, CleanRoot, CleanMeansUnchanged
<1>2. QED
  BY <1>1, CheckpointsInductive, PTL

(* No blob that checkpoints name is counted as used by fewer of them, for  *)
(* any number of saves and deletions that write counts back at once.       *)
THEOREM CountsCoverUsers ==
    ASSUME ~MayStall, FreshNames
    PROVE  Spec => []RefCountCovers
<1>1. CheckpointsInv => RefCountCovers
  BY Zenon DEF CheckpointsInv, CountsInv
<1>2. QED
  BY <1>1, CheckpointsInductive, PTL
=============================================================================
