-------------------------- MODULE EditsKeptProofs ---------------------------
(***************************************************************************)
(* The folder sync daemon loses neither side's last edit, whatever the     *)
(* number of changes, faults and crashes and the capacity of the channels. *)
(***************************************************************************)
EXTENDS FolderSyncProofs

-----------------------------------------------------------------------------
(* The second part of the invariant: a download or a planned action that   *)
(* will replace the file without a copy replaces content that was          *)
(* published.                                                              *)

DownReplaces ==
    /\ down.pc = "stage" => local = down.snap
    /\ down.pc \in {"stage", "commit"} /\ ~down.op.conflict => down.snap \in published \cup {None}

SweepReplaces ==
    /\ sweep.pc \in {"download", "write"} /\ ~sweep.conflict => sweep.l \in published \cup {None}
    /\ sweep.pc = "delete-remote" => sweep.l = None

LocalInv == LocalEditKept /\ DownReplaces /\ SweepReplaces

(* The third part: an upload or a planned action that will replace or      *)
(* remove the published file under the revision it observed replaces or    *)
(* removes content that was in the folder.                                 *)

UpObserved ==
    up.pc = "publish" =>
        /\ up.rm <= remote.rev
        /\ up.rm # 0 /\ up.rm = Stat => remote.data = up.op.stored.hash

SweepObserved ==
    /\ sweep.rm <= remote.rev
    /\ sweep.rm # 0 /\ sweep.rm = Stat => remote.data = sweep.r
    /\ sweep.pc \in {"upload", "echo", "rm"} /\ sweep.rm # 0 => sweep.r \in seen \cup {None}
    /\ sweep.pc = "delete-remote" => sweep.rm # 0

PeerInv == PeerEditKept /\ UpObserved /\ SweepObserved

-----------------------------------------------------------------------------
(* The application's last version.                                         *)

LEMMA DownKept ==
    ASSUME DownReplaces, UNCHANGED down, published \subseteq published', local' = local \/ down.pc # "stage"
    PROVE  DownReplaces'
BY Zenon DEF DownReplaces

LEMMA SweepKept ==
    ASSUME SweepReplaces, UNCHANGED sweep, published \subseteq published'
    PROVE  SweepReplaces'
BY Zenon DEF SweepReplaces

(* The folder and the copies are left alone.                               *)
LEMMA LocalQuiet ==
    ASSUME LocalInv, UNCHANGED <<local, copies, mine>>, published \subseteq published',
           UNCHANGED down \/ DownReplaces', UNCHANGED sweep \/ SweepReplaces'
    PROVE  LocalInv'
<1>1. LocalEditKept'
  BY Zenon DEF LocalInv, LocalEditKept
<1>2. QED
  BY <1>1, DownKept, SweepKept, Zenon DEF LocalInv

(* The file is replaced or removed, after a copy or when its content was   *)
(* published.                                                              *)
LEMMA LocalReplaced ==
    ASSUME LocalInv, UNCHANGED mine, published \subseteq published', copies \subseteq copies',
           local \in published \cup copies' \cup {None, local'},
           UNCHANGED sweep \/ SweepReplaces', DownReplaces'
    PROVE  LocalInv'
<1>1. LocalEditKept'
  BY Zenon DEF LocalInv, LocalEditKept
<1>2. QED
  BY <1>1, SweepKept, Zenon DEF LocalInv

(* A folder write while no download is between its look and its snapshot.  *)
LEMMA LocalGuard ==
    ASSUME ~StageWrites, LocalInv, NEW v, Local(v), UNCHANGED <<down, published>>
    PROVE  DownReplaces' /\ local' = v
BY DownKept, Zenon DEF Local, LocalInv

LEMMA ServerGrows ==
    /\ UNCHANGED server => published \subseteq published'
    /\ \A v : Publish(v) => published \subseteq published'
BY Zenon DEF server, Publish

LEMMA LocalOutside ==
    ASSUME ~StageWrites, AgreedInv, LocalInv, AppWrite \/ AppDelete \/ PeerWrite \/ PeerDelete
    PROVE  LocalInv'
<1>1. CASE AppWrite \/ AppDelete
  <2>1. UNCHANGED <<copies, down, sweep, published>> /\ mine' = local' /\ \E v : Local(v)
    BY <1>1, Zenon DEF AppWrite, AppDelete, server, Local
  <2>2. DownReplaces'
    BY <2>1, LocalGuard, Zenon
  <2>3. LocalEditKept'
    BY <2>1, Zenon DEF LocalEditKept
  <2>4. QED
    BY <2>1, <2>2, <2>3, SweepKept, Zenon DEF LocalInv
<1>2. CASE PeerWrite \/ PeerDelete
  <2>1. UNCHANGED <<local, copies, mine, down, sweep>> /\ published \subseteq published'
    BY <1>2, ServerGrows, Zenon DEF PeerWrite, PeerDelete, PeerChange, folder
  <2>2. QED
    BY <2>1, LocalQuiet, Zenon
<1>3. QED
  BY <1>1, <1>2, Zenon

LEMMA LocalElsewhere ==
    ASSUME LocalInv, \/ UNCHANGED vars \/ flush \/ SendDelete \/ Disconnect \/ Reconnect \/ flushNow
                     \/ handleLocalEvent \/ handleRemoteEvent \/ ActRemote \/ handleUploadResult
                     \/ Uploader \/ UploadFails
    PROVE  LocalInv'
<1>1. CASE UNCHANGED vars \/ flush \/ SendDelete \/ Disconnect \/ Reconnect \/ flushNow
  <2>1. UNCHANGED <<local, copies, mine, down, sweep, published>>
    BY <1>1, Zenon DEF vars, flush, SendDelete, Disconnect, Reconnect, flushNow, linkFrame, folder, server, people
  <2>2. QED
    BY <2>1, LocalQuiet, Zenon
<1>2. CASE handleLocalEvent \/ handleRemoteEvent \/ ActRemote \/ handleUploadResult
  <2>1. UNCHANGED <<local, copies, mine, down, sweep, published>>
    BY <1>2, Zenon DEF handleLocalEvent, handleRemoteEvent, ActRemote, handleUploadResult, folder, server, people
  <2>2. QED
    BY <2>1, LocalQuiet, Zenon
<1>3. CASE Uploader \/ UploadFails
  <2>1. UNCHANGED uploaderFrame
    BY <1>3, Zenon DEF Uploader, UploadFails, TakeUpload, Match, PublishFile, PublishDelete, FinishUpload
  <2>2. published \subseteq published'
    BY <1>3, ServerGrows, Zenon DEF Uploader, UploadFails, TakeUpload, Match, PublishFile, PublishDelete, FinishUpload
  <2>3. QED
    BY <2>1, <2>2, LocalQuiet, Zenon DEF uploaderFrame, folder
<1>4. QED
  BY <1>1, <1>2, <1>3, Zenon

LEMMA LocalDownloadResult ==
    ASSUME ~StageWrites, AgreedInv, LocalInv, handleDownloadResult
    PROVE  LocalInv'
<1> DEFINE res == Head(downloadResults)
<1>1. UNCHANGED <<copies, mine, down, sweep, published>>
  BY Zenon DEF handleDownloadResult, server, people, folder
<1>2. CASE UNCHANGED local
  BY <1>1, <1>2, LocalQuiet, Zenon
<1>3. CASE res.outcome = "done" /\ res.kind = "file" /\ localCandidateUnchanged(res) /\ Local(None)
  <2>1. downloadResults # <<>> /\ DownloadResultsOK
    BY Zenon DEF handleDownloadResult, AgreedInv
  <2>2. res \in Elems(downloadResults)
    BY <2>1, ElemsTail, Zenon DEF DownloadResultsOK
  <2>3. local \in published
    BY <1>3, <2>1, <2>2, Zenon DEF DownloadResultsOK, Both, localCandidateUnchanged
  <2>4. QED
    BY <1>1, <1>3, <2>3, LocalGuard, LocalReplaced, Zenon
<1>4. QED
  BY <1>2, <1>3, Zenon DEF handleDownloadResult, folder

LEMMA DownFields ==
    ASSUME AgreedInv
    PROVE  /\ down \in DownState /\ down.op \in DownloadOp /\ down.op.stored.hash \in Both \cup {None}
           /\ down.pc \in {"stage", "commit"} => down.hash \in published
           /\ IdleDown.pc = "idle"
<1>1. DownOK
  BY Zenon DEF AgreedInv
<1>2. down \in DownState /\ down.op.stored.hash \in Both \cup {None} /\ (down.pc \in {"stage", "commit"} => down.hash \in published)
  BY <1>1, Zenon DEF DownOK, Based
<1>3. down.op \in DownloadOp
  BY <1>2, Zenon DEF DownState
<1>4. QED
  BY <1>2, <1>3, IdleTypes, Zenon

(* Off the steps that replace the file.                                    *)
LEMMA DownOff == ASSUME down'.pc \notin {"stage", "commit"} PROVE DownReplaces'
BY Zenon DEF DownReplaces

LEMMA DownAside ==
    ASSUME AgreedInv, \/ TakeDownload \/ DownloadStat \/ ConfirmDelete \/ DownloadFails \/ RecordDownload
    PROVE  down'.pc \notin {"stage", "commit"}
<1>0. down \in DownState /\ down.op \in DownloadOp /\ IdleDown.pc = "idle"
  BY DownFields, Zenon
<1>1. CASE TakeDownload
  BY <1>1, Zenon DEF TakeDownload, IdleDown
<1>2. CASE DownloadStat
  <2>1. \/ down' = [down EXCEPT !.pc = "cat", !.rm = Stat]
        \/ down' = [down EXCEPT !.pc = "confirm", !.op.kind = "delete"]
        \/ down' = IdleDown
    BY <1>2, Zenon DEF DownloadStat, Downloaded
  <2>2. QED
    BY <1>0, <2>1, Zenon DEF DownState, DownloadOp
<1>3. CASE ConfirmDelete
  BY <1>0, <1>3, Zenon DEF ConfirmDelete, Downloaded, DownState
<1>4. CASE DownloadFails \/ RecordDownload
  BY <1>0, <1>4, Zenon DEF DownloadFails, RecordDownload, Downloaded
<1>5. QED
  BY <1>1, <1>2, <1>3, <1>4, Zenon

LEMMA DownloaderLeaves ==
    ASSUME Downloader \/ DownloadFails
    PROVE  UNCHANGED <<mine, theirs, sweep, up, remote, published>>
<1>1. UNCHANGED downloaderFrame
  BY Zenon DEF Downloader, DownloadFails, TakeDownload, DownloadStat, DownloadCat, StageDownload, CommitDownload,
        RecordDownload, ConfirmDelete, DeleteLocal
<1>2. QED
  BY <1>1, Zenon DEF downloaderFrame, server

LEMMA LocalDownloader ==
    ASSUME ~StageWrites, AgreedInv, LocalInv, Downloader \/ DownloadFails
    PROVE  LocalInv'
<1>0. /\ down \in DownState /\ down.op \in DownloadOp /\ down.op.stored.hash \in Both \cup {None} /\ IdleDown.pc = "idle"
      /\ UNCHANGED <<mine, sweep, published>> /\ DownReplaces /\ FolderOK
  BY DownFields, DownloaderLeaves, Zenon DEF LocalInv, AgreedInv
<1>1. CASE \/ TakeDownload \/ DownloadStat \/ ConfirmDelete \/ DownloadFails \/ RecordDownload
  <2>1. UNCHANGED <<local, copies>>
    BY <1>1, Zenon DEF TakeDownload, DownloadStat, ConfirmDelete, DownloadFails, RecordDownload, folder
  <2>2. QED
    BY <1>0, <1>1, <2>1, DownAside, DownOff, LocalQuiet, Zenon
<1>2. CASE DownloadCat
  <2>1. UNCHANGED <<local, copies>>
    BY <1>2, Zenon DEF DownloadCat, folder
  <2>2. CASE down' = IdleDown
    BY <1>0, <2>1, <2>2, DownOff, LocalQuiet, Zenon
  <2>3. CASE /\ remote.data # None /\ local = down.snap
             /\ local = remote.data \/ down.op.conflict \/ matchesStored(down.snap, down.op.stored)
             /\ down' = [down EXCEPT !.hash = remote.data,
                             !.pc = IF local = remote.data THEN "record" ELSE "stage"]
    <3>1. /\ down'.pc = IF local = remote.data THEN "record" ELSE "stage"
          /\ down'.snap = down.snap /\ down'.op = down.op
      BY <1>0, <2>3, Zenon DEF DownState
    <3>2. local # remote.data /\ ~down.op.conflict => down.snap \in published \cup {None}
      BY <1>0, <2>3, Zenon DEF matchesStored, Both
    <3>3. DownReplaces'
      <4>1. CASE local = remote.data
        BY <3>1, <4>1, DownOff, Zenon
      <4>2. CASE local # remote.data
        <5>1. down'.pc = "stage" /\ down'.snap = local' /\ (~down'.op.conflict => down'.snap \in published' \cup {None})
          BY <1>0, <2>1, <2>3, <3>1, <3>2, <4>2, Zenon
        <5>2. QED
          BY <5>1, Zenon DEF DownReplaces
      <4>3. QED
        BY <4>1, <4>2, Zenon
    <3>4. QED
      BY <1>0, <2>1, <3>3, LocalQuiet, Zenon
  <2>4. QED
    BY <1>2, <2>2, <2>3, Zenon DEF DownloadCat, Downloaded
<1>3. CASE StageDownload
  <2>1. UNCHANGED <<local, copies>> /\ down.pc = "stage" /\ down' = [down EXCEPT !.pc = "commit", !.snap = local]
    BY <1>3, Zenon DEF StageDownload, folder
  <2>2. down'.pc = "commit" /\ down'.snap = local /\ down'.op = down.op
    BY <1>0, <2>1, Zenon DEF DownState
  <2>3. DownReplaces'
    BY <1>0, <2>1, <2>2, Zenon DEF DownReplaces
  <2>4. QED
    BY <1>0, <2>1, <2>3, LocalQuiet, Zenon
<1>4. CASE CommitDownload
  <2>1. CASE down' = IdleDown /\ UNCHANGED folder
    BY <1>0, <2>1, DownOff, LocalQuiet, Zenon DEF folder
  <2>2. CASE /\ down.pc = "commit" /\ local = down.snap /\ Replace(down.hash, down.op.conflict)
             /\ down' = [down EXCEPT !.pc = "mark", !.copy = down.op.conflict /\ local # None]
    <3>1. down'.pc = "mark"
      BY <1>0, <2>2, Zenon DEF DownState
    <3>2. copies \subseteq copies' /\ (down.op.conflict => local \in copies' \cup {None})
      BY <1>0, <2>2, VersionType, Zenon DEF Replace, FolderOK
    <3>3. ~down.op.conflict => local \in published \cup {None}
      BY <1>0, <2>2, Zenon DEF DownReplaces
    <3>4. QED
      BY <1>0, <3>1, <3>2, <3>3, DownOff, LocalReplaced, Zenon
  <2>3. QED
    BY <1>4, <2>1, <2>2, Zenon DEF CommitDownload, Downloaded
<1>5. CASE DeleteLocal
  <2>1. down' = IdleDown
    BY <1>5, Zenon DEF DeleteLocal, Downloaded
  <2>2. CASE UNCHANGED folder
    BY <1>0, <2>1, <2>2, DownOff, LocalQuiet, Zenon DEF folder
  <2>3. CASE RemoveLocal(down.op.stored)
    <3>1. copies \subseteq copies' /\ local \in published \cup copies' \cup {None}
      BY <1>0, <2>3, Zenon DEF RemoveLocal, Changed, Both
    <3>2. QED
      BY <1>0, <2>1, <3>1, DownOff, LocalReplaced, ZenonT(60)
  <2>4. QED
    BY <1>5, <2>2, <2>3, Zenon DEF DeleteLocal
<1>6. QED
  BY <1>1, <1>2, <1>3, <1>4, <1>5, Zenon DEF Downloader

LEMMA SweepOff == ASSUME sweep'.pc \notin {"download", "write", "delete-remote"} PROVE SweepReplaces'
BY Zenon DEF SweepReplaces

(* The steps of the sweep that leave the folder and the plan alone.        *)
SweepMinor ==
    \/ ScanLocal \/ detectOfflineDeletes \/ ScanRemote \/ DropAction \/ DropRemoteAction \/ execUpload
    \/ SweepEcho \/ RecordSweepUpload \/ RecordSweepDownload \/ execDeleteLocal \/ SweepRm
    \/ RecordSweepDelete \/ cleanupTombstones \/ SweepFails

LEMMA LocalSweepMinor ==
    ASSUME AgreedInv, LocalInv, SweepMinor
    PROVE  LocalInv'
<1>0. sweep \in SweepState /\ IdleSweep.pc = "idle"
  BY IdleTypes, Zenon DEF AgreedInv, SweepOK
<1>1. UNCHANGED <<local, copies, mine, down>> /\ published \subseteq published'
  <2>1. UNCHANGED <<folder, mine, down>>
    BY Zenon DEF SweepMinor, ScanLocal, detectOfflineDeletes, ScanRemote, DropAction, DropRemoteAction, execUpload,
          SweepEcho, RecordSweepUpload, RecordSweepDownload, execDeleteLocal, SweepRm, RecordSweepDelete,
          cleanupTombstones, SweepFails, sweepFrame
  <2>2. UNCHANGED published \/ \E v : Publish(v)
    BY Zenon DEF SweepMinor, ScanLocal, detectOfflineDeletes, ScanRemote, DropAction, DropRemoteAction, execUpload,
          SweepEcho, RecordSweepUpload, RecordSweepDownload, execDeleteLocal, SweepRm, RecordSweepDelete,
          cleanupTombstones, SweepFails, server
  <2>3. QED
    BY <2>1, <2>2, ServerGrows, Zenon DEF folder
<1>2. sweep'.pc \notin {"download", "write", "delete-remote"}
  <2>1. \/ \E p \in {"remote", "clean", "echo", "uploaded", "remove", "removed"} : SweepTo(p)
        \/ sweep' = [IdleSweep EXCEPT !.pc = "offline", !.l = local]
        \/ sweep' = [sweep EXCEPT !.pc = "plan", !.r = remote.data, !.rm = Stat]
        \/ sweep' = IdleSweep
    BY Zenon DEF SweepMinor, ScanLocal, detectOfflineDeletes, ScanRemote, DropAction, DropRemoteAction, execUpload,
          SweepEcho, RecordSweepUpload, RecordSweepDownload, execDeleteLocal, SweepRm, RecordSweepDelete,
          cleanupTombstones, SweepFails
  <2>2. CASE \E p \in {"remote", "clean", "echo", "uploaded", "remove", "removed"} : SweepTo(p)
    <3>1. PICK p \in {"remote", "clean", "echo", "uploaded", "remove", "removed"} : SweepTo(p)
      BY <2>2, Zenon
    <3>2. sweep'.pc = p
      BY <1>0, <3>1, SweepToFields, Zenon DEF SweepPc
    <3>3. QED
      BY <3>1, <3>2, Zenon
  <2>3. CASE sweep' = [IdleSweep EXCEPT !.pc = "offline", !.l = local]
    BY <2>3, IdleTypes, Zenon DEF SweepState
  <2>4. CASE sweep' = [sweep EXCEPT !.pc = "plan", !.r = remote.data, !.rm = Stat]
    BY <1>0, <2>4, Zenon DEF SweepState
  <2>5. CASE sweep' = IdleSweep
    BY <1>0, <2>5, Zenon
  <2>6. QED
    BY <2>1, <2>2, <2>3, <2>4, <2>5, ZenonT(60)
<1>3. QED
  BY <1>1, <1>2, SweepOff, LocalQuiet, Zenon

LEMMA PlanReplaces ==
    ASSUME ~SameSize, AgreedInv
    PROVE  /\ ~(sweep.l # None /\ (LocalChanged \/ ~Live(entry))) => sweep.l \in published \cup {None}
           /\ PlannedAction = "delete-remote" => sweep.l = None /\ sweep.rm # 0
           /\ PlannedAction = "upload" /\ sweep.rm # 0 => sweep.r \in seen \cup {None}
<1>0. entry.hash \in Both \cup {None}
  BY Zenon DEF AgreedInv, EntryOK, Based
<1>1. ~LocalChanged => sweep.l = entry.hash
  BY Zenon DEF LocalChanged, EqualSize
<1>2. ~RemoteChanged => sweep.r = entry.hash
  BY Zenon DEF RemoteChanged, EqualSize
<1>3. PlannedAction = "delete-remote" => sweep.l = None /\ sweep.rm # 0
  BY Zenon DEF PlannedAction
<1>4. PlannedAction = "upload" /\ sweep.rm # 0 => ~RemoteChanged
  BY Zenon DEF PlannedAction
<1>5. QED
  BY <1>0, <1>1, <1>2, <1>3, <1>4, Zenon DEF Both

LEMMA LocalSweep ==
    ASSUME ~StageWrites, ~SameSize, AgreedInv, LocalInv,
           buildPlan \/ execDownload \/ SweepWrite \/ SweepRemove \/ execDeleteRemote
    PROVE  LocalInv'
<1>0. sweep \in SweepState /\ SweepReplaces /\ FolderOK /\ Based(sweep.base) /\ sweep.conflict \in BOOLEAN
  BY SweepFields, Zenon DEF AgreedInv, SweepOK, LocalInv
<1>1. UNCHANGED <<mine, down, published>>
  BY Zenon DEF buildPlan, execDownload, SweepWrite, SweepRemove, execDeleteRemote, sweepFrame, server
<1>2. CASE buildPlan
  <2>1. UNCHANGED <<local, copies>>
    BY <1>2, Zenon DEF buildPlan, folder
  <2>2. SweepReplaces'
    <3>1. CASE SweepTo("clean")
      <4>1. sweep'.pc = "clean"
        BY <1>0, <3>1, SweepToFields, Zenon DEF SweepPc
      <4>2. QED
        BY <4>1, SweepOff, Zenon
    <3>2. CASE sweep' = [sweep EXCEPT !.pc = PlannedAction, !.base = entry,
                           !.conflict = sweep.l # None /\ (LocalChanged \/ ~Live(entry))]
      <4>1. /\ sweep'.pc = PlannedAction /\ sweep'.l = sweep.l
            /\ sweep'.conflict = (sweep.l # None /\ (LocalChanged \/ ~Live(entry)))
        BY <1>0, <3>2, Zenon DEF SweepState
      <4>2. QED
        BY <1>1, <4>1, PlanReplaces, Zenon DEF SweepReplaces
    <3>3. QED
      BY <1>2, <3>1, <3>2, Zenon DEF buildPlan
  <2>3. QED
    BY <1>1, <2>1, <2>2, LocalQuiet, Zenon
<1>3. CASE execDownload
  <2>1. UNCHANGED <<local, copies>> /\ sweep.pc = "download"
    BY <1>3, Zenon DEF execDownload, folder
  <2>2. /\ sweep'.pc \in {"clean", "write"} /\ sweep'.l = sweep.l /\ sweep'.conflict = sweep.conflict
    <3>1. CASE SweepTo("clean")
      BY <1>0, <3>1, SweepToFields, Zenon DEF SweepPc
    <3>2. CASE sweep' = [sweep EXCEPT !.pc = "write", !.hash = remote.data]
      BY <1>0, <3>2, Zenon DEF SweepState
    <3>3. QED
      BY <1>3, <3>1, <3>2, Zenon DEF execDownload
  <2>3. SweepReplaces'
    BY <1>0, <1>1, <2>1, <2>2, Zenon DEF SweepReplaces
  <2>4. QED
    BY <1>1, <2>1, <2>3, LocalQuiet, Zenon
<1>4. CASE SweepWrite
  <2>1. sweep.pc = "write" /\ local = sweep.l /\ \E p \in {"adopt", "mark"} : SweepTo(p)
    BY <1>4, Zenon DEF SweepWrite, actionStillCurrent, Unmoved
  <2>2. sweep'.pc \in {"adopt", "mark"}
    BY <1>0, <2>1, SweepToFields, Zenon DEF SweepPc
  <2>3. SweepReplaces'
    BY <2>2, SweepOff, Zenon
  <2>4. CASE UNCHANGED folder
    BY <1>1, <2>3, <2>4, LocalQuiet, Zenon DEF folder
  <2>5. CASE Replace(sweep.hash, sweep.conflict)
    <3>1. copies \subseteq copies' /\ (sweep.conflict => local \in copies' \cup {None})
      BY <1>0, <2>5, VersionType, Zenon DEF Replace, FolderOK
    <3>2. ~sweep.conflict => local \in published \cup {None}
      BY <1>0, <2>1, Zenon DEF SweepReplaces
    <3>3. DownReplaces'
      BY <1>1, <2>5, LocalGuard, Zenon DEF Replace
    <3>4. QED
      BY <1>0, <1>1, <2>3, <3>1, <3>2, <3>3, LocalReplaced, ZenonT(60)
  <2>6. QED
    BY <1>4, <2>4, <2>5, Zenon DEF SweepWrite, folder
<1>5. CASE SweepRemove
  <2>1. sweep'.pc = "clean"
    BY <1>0, <1>5, SweepToFields, ZenonT(60) DEF SweepPc, SweepRemove
  <2>2. SweepReplaces'
    BY <2>1, SweepOff, Zenon
  <2>3. CASE UNCHANGED folder
    BY <1>1, <2>2, <2>3, LocalQuiet, Zenon DEF folder
  <2>4. CASE RemoveLocal(sweep.base)
    <3>1. copies \subseteq copies' /\ local \in published \cup copies' \cup {None}
      BY <1>0, <2>4, Zenon DEF RemoveLocal, Changed, Based, Both
    <3>2. DownReplaces'
      <4>1. CASE Local(None)
        BY <1>1, <4>1, LocalGuard, Zenon
      <4>2. CASE UNCHANGED local
        BY <1>1, <4>2, DownKept, Zenon DEF LocalInv
      <4>3. QED
        BY <2>4, <4>1, <4>2, Zenon DEF RemoveLocal
    <3>3. QED
      BY <1>1, <2>2, <3>1, <3>2, LocalReplaced, Zenon
  <2>5. QED
    BY <1>5, <2>3, <2>4, Zenon DEF SweepRemove
<1>6. CASE execDeleteRemote
  <2>1. UNCHANGED <<local, copies>> /\ sweep.l = None
    BY <1>0, <1>6, Zenon DEF execDeleteRemote, folder, SweepReplaces
  <2>2. sweep'.l = sweep.l /\ sweep'.pc \in {"rm", "download"}
    <3>1. CASE SweepTo("rm")
      BY <1>0, <3>1, SweepToFields, Zenon DEF SweepPc
    <3>2. CASE sweep' = [sweep EXCEPT !.pc = "download", !.base = entry', !.conflict = FALSE]
      BY <1>0, <3>2, Zenon DEF SweepState
    <3>3. QED
      BY <1>6, <3>1, <3>2, Zenon DEF execDeleteRemote
  <2>3. SweepReplaces'
    BY <2>1, <2>2, Zenon DEF SweepReplaces
  <2>4. QED
    BY <1>1, <2>1, <2>3, LocalQuiet, Zenon
<1>7. QED
  BY <1>2, <1>3, <1>4, <1>5, <1>6, Zenon

LEMMA LocalCrash == ASSUME AgreedInv, LocalInv, Crash PROVE LocalInv'
<1>1. /\ UNCHANGED <<mine, published>> /\ down' = IdleDown /\ sweep' = IdleSweep
      /\ copies \subseteq copies' /\ local \in copies' \cup {local'}
  BY Zenon DEF Crash, Torn, server, folder
<1>2. down'.pc = "idle" /\ sweep'.pc = "idle"
  BY <1>1, IdleTypes, Zenon
<1>3. DownReplaces' /\ SweepReplaces'
  BY <1>2, DownOff, SweepOff, Zenon
<1>4. QED
  BY <1>1, <1>3, LocalReplaced, Zenon

LEMMA LocalStepInv ==
    ASSUME ~StageWrites, ~SameSize, AgreedInv, LocalInv, [Next]_vars
    PROVE  LocalInv'
<1>1. CASE Environment
  <2>1. CASE SweepFails
    BY <2>1, LocalSweepMinor, Zenon DEF SweepMinor
  <2>2. QED
    BY <1>1, <2>1, LocalOutside, LocalElsewhere, LocalDownloader, LocalCrash, Zenon DEF Environment
<1>2. CASE Reconnect \/ flushNow \/ flush \/ SendDelete \/ EventLoop \/ Uploader \/ UNCHANGED vars
  BY <1>2, LocalElsewhere, LocalDownloadResult, Zenon DEF EventLoop
<1>3. CASE Downloader
  BY <1>3, LocalDownloader, Zenon
<1>4. CASE Sweep
  BY <1>4, LocalSweep, LocalSweepMinor, Zenon DEF Sweep, SweepMinor
<1>5. QED
  BY <1>1, <1>2, <1>3, <1>4, Zenon DEF Next

-----------------------------------------------------------------------------
(* The peer's last version.                                                *)

(* A revision observed before the published file changed or went is not    *)
(* observed again.                                                         *)
Moved ==
    \/ UNCHANGED remote
    \/ \E v \in Version : Publish(v)
    \/ remote' = [remote EXCEPT !.data = None]

LEMMA ObservedOnce ==
    ASSUME ServerOK, Moved, NEW rm \in Nat, rm <= remote.rev
    PROVE  /\ rm <= remote'.rev
           /\ remote' = remote \/ ~(rm # 0 /\ rm = Stat')
<1>0. remote.rev \in Nat /\ remote.rev # 0
  BY Zenon DEF ServerOK
<1>1. CASE UNCHANGED remote
  BY <1>1, Zenon
<1>2. CASE \E v \in Version : Publish(v)
  <2>1. remote'.rev = remote.rev + 1 /\ remote'.data # None
    BY <1>2, VersionType, SMTT(60) DEF Publish
  <2>2. Stat' = remote.rev + 1
    BY <2>1, Zenon DEF Stat
  <2>3. QED
    BY <1>0, <2>1, <2>2, SMTT(60)
<1>3. CASE remote' = [remote EXCEPT !.data = None]
  <2>1. remote'.rev = remote.rev /\ remote'.data = None
    BY <1>3, Zenon DEF ServerOK
  <2>2. Stat' = 0
    BY <2>1, Zenon DEF Stat
  <2>3. QED
    BY <1>0, <2>1, <2>2, Zenon
<1>4. QED
  BY <1>1, <1>2, <1>3, Zenon DEF Moved

LEMMA UpKept ==
    ASSUME AgreedInv, UpObserved, Moved, UNCHANGED up
    PROVE  UpObserved'
<1>1. ServerOK /\ up.rm \in Nat
  BY Zenon DEF AgreedInv, UpOK, UpState
<1>2. CASE up.pc = "publish"
  <2>1. up.rm <= remote'.rev /\ (remote' = remote \/ ~(up.rm # 0 /\ up.rm = Stat'))
    BY <1>1, <1>2, ObservedOnce, Zenon DEF UpObserved
  <2>2. remote' = remote => Stat' = Stat
    BY Zenon DEF Stat
  <2>3. QED
    BY <2>1, <2>2, Zenon DEF UpObserved
<1>3. CASE up.pc # "publish"
  BY <1>3, Zenon DEF UpObserved
<1>4. QED
  BY <1>2, <1>3, Zenon

LEMMA UpOff == ASSUME up'.pc # "publish" PROVE UpObserved'
BY Zenon DEF UpObserved

(* The plan keeps what the scan observed.                                  *)
LEMMA SweepCarries ==
    ASSUME AgreedInv, SweepObserved, Moved, sweep'.rm = sweep.rm, sweep'.r = sweep.r,
           sweep'.pc \in {"upload", "echo", "rm"} /\ sweep.rm # 0 => sweep.r \in seen' \cup {None},
           sweep'.pc = "delete-remote" => sweep.rm # 0
    PROVE  SweepObserved'
<1>1. ServerOK /\ sweep.rm \in Nat
  BY SweepFields, Zenon DEF AgreedInv
<1>2. sweep.rm <= remote'.rev /\ (remote' = remote \/ ~(sweep.rm # 0 /\ sweep.rm = Stat'))
  BY <1>1, ObservedOnce, ZenonT(60) DEF SweepObserved
<1>3. remote' = remote => Stat' = Stat
  BY Zenon DEF Stat
<1>4. QED
  BY <1>2, <1>3, Zenon DEF SweepObserved

LEMMA SweepUnmoved ==
    ASSUME AgreedInv, SweepObserved, Moved, UNCHANGED sweep, seen \subseteq seen'
    PROVE  SweepObserved'
<1>1. /\ sweep.pc \in {"upload", "echo", "rm"} /\ sweep.rm # 0 => sweep.r \in seen' \cup {None}
      /\ sweep.pc = "delete-remote" => sweep.rm # 0
  BY Zenon DEF SweepObserved
<1>2. QED
  BY <1>1, SweepCarries, Zenon

(* The published file is left alone.                                       *)
LEMMA PeerQuiet ==
    ASSUME AgreedInv, PeerInv, UNCHANGED <<remote, theirs>>, seen \subseteq seen',
           UNCHANGED up \/ UpObserved', UNCHANGED sweep \/ SweepObserved'
    PROVE  PeerInv'
<1>1. PeerEditKept'
  BY Zenon DEF PeerInv, PeerEditKept
<1>2. Moved
  BY Zenon DEF Moved
<1>3. QED
  BY <1>1, <1>2, UpKept, SweepUnmoved, Zenon DEF PeerInv

(* The published file is replaced or removed, and its content was in the   *)
(* folder.                                                                 *)
LEMMA PeerReplaced ==
    ASSUME AgreedInv, PeerInv, UNCHANGED theirs, Moved, seen \subseteq seen', remote.data \in seen \cup {None},
           UNCHANGED up \/ UpObserved', UNCHANGED sweep \/ SweepObserved'
    PROVE  PeerInv'
<1>1. PeerEditKept'
  BY Zenon DEF PeerInv, PeerEditKept
<1>2. QED
  BY <1>1, UpKept, SweepUnmoved, Zenon DEF PeerInv

LEMMA SeenGrows ==
    ASSUME AgreedInv
    PROVE  /\ UNCHANGED folder => seen \subseteq seen'
           /\ \A v \in Maybe : Local(v) => seen \subseteq seen'
BY VersionType, Zenon DEF folder, Local, AgreedInv, FolderOK

LEMMA PeerOutside ==
    ASSUME AgreedInv, PeerInv, AppWrite \/ AppDelete \/ PeerWrite \/ PeerDelete
    PROVE  PeerInv'
<1>1. CASE AppWrite \/ AppDelete
  <2>1. UNCHANGED <<remote, theirs, up, sweep>>
    BY <1>1, Zenon DEF AppWrite, AppDelete, server
  <2>2. \E v \in Maybe : Local(v)
    <3>1. CASE AppWrite
      <4>1. tally.local \in 0 .. MaxLocal /\ tally.local < MaxLocal
        BY <3>1, Zenon DEF AgreedInv, TallyOK, AppWrite, MayEdit
      <4>2. tally.local + 1 \in Maybe
        BY <4>1, BoundsAssumption, SMTT(60) DEF Version, Maybe
      <4>3. QED
        BY <3>1, <4>2, Zenon DEF AppWrite
    <3>2. CASE AppDelete
      BY <3>2, Zenon DEF AppDelete, Maybe
    <3>3. QED
      BY <1>1, <3>1, <3>2, Zenon
  <2>3. QED
    BY <2>1, <2>2, SeenGrows, PeerQuiet, Zenon
<1>2. CASE PeerWrite
  <2>1. /\ Publish(MaxLocal + tally.peer + 1) /\ theirs' = MaxLocal + tally.peer + 1
        /\ UNCHANGED <<folder, up, sweep>>
    BY <1>2, Zenon DEF PeerWrite, PeerChange
  <2>2. MaxLocal + tally.peer + 1 \in Version
    <3>1. tally.peer \in 0 .. MaxPeer /\ tally.peer < MaxPeer
      BY <1>2, Zenon DEF AgreedInv, TallyOK, PeerWrite, PeerChange
    <3>2. QED
      BY <3>1, BoundsAssumption, SMTT(60) DEF Version
  <2>3. Moved /\ PeerEditKept'
    BY <2>1, <2>2, Zenon DEF Moved, PeerEditKept, Publish
  <2>4. QED
    BY <2>1, <2>3, SeenGrows, UpKept, SweepUnmoved, Zenon DEF PeerInv
<1>3. CASE PeerDelete
  <2>1. remote' = [remote EXCEPT !.data = None] /\ theirs' = None /\ UNCHANGED <<folder, up, sweep>>
    BY <1>3, Zenon DEF PeerDelete, PeerChange
  <2>2. Moved /\ PeerEditKept'
    BY <2>1, Zenon DEF Moved, PeerEditKept
  <2>3. QED
    BY <2>1, <2>2, SeenGrows, UpKept, SweepUnmoved, Zenon DEF PeerInv
<1>4. QED
  BY <1>1, <1>2, <1>3, Zenon

LEMMA PeerElsewhere ==
    ASSUME AgreedInv, PeerInv,
           \/ UNCHANGED vars \/ flush \/ SendDelete \/ Disconnect \/ Reconnect \/ flushNow \/ EventLoop
           \/ Downloader \/ DownloadFails
    PROVE  PeerInv'
<1>1. CASE UNCHANGED vars \/ flush \/ SendDelete \/ Disconnect \/ Reconnect \/ flushNow
  <2>1. UNCHANGED <<remote, theirs, up, sweep, folder>>
    BY <1>1, Zenon DEF vars, flush, SendDelete, Disconnect, Reconnect, flushNow, linkFrame, server, people
  <2>2. QED
    BY <2>1, SeenGrows, PeerQuiet, Zenon
<1>2. CASE EventLoop
  <2>1. UNCHANGED <<remote, theirs, up, sweep>>
    BY Zenon, <1>2 DEF EventLoop, handleLocalEvent, handleRemoteEvent, ActRemote, handleUploadResult,
          handleDownloadResult, server, people
  <2>2. UNCHANGED seen \/ Local(None)
    BY Zenon, <1>2 DEF EventLoop, handleLocalEvent, handleRemoteEvent, ActRemote, handleUploadResult,
          handleDownloadResult, folder
  <2>3. QED
    BY <2>1, <2>2, SeenGrows, PeerQuiet, Zenon DEF Maybe
<1>3. CASE Downloader \/ DownloadFails
  <2>1. UNCHANGED <<remote, theirs, up, sweep>>
    BY <1>3, DownloaderLeaves, Zenon
  <2>2. UNCHANGED seen \/ Local(None) \/ Local(down.hash)
    BY Zenon, <1>3 DEF Downloader, DownloadFails, TakeDownload, DownloadStat, DownloadCat, StageDownload,
          CommitDownload, RecordDownload, ConfirmDelete, DeleteLocal, RemoveLocal, Replace, folder
  <2>3. down.hash \in Maybe /\ None \in Maybe
    BY DownFields, Zenon DEF DownState, Maybe
  <2>4. QED
    BY <2>1, <2>2, <2>3, SeenGrows, PeerQuiet, Zenon
<1>4. QED
  BY <1>1, <1>2, <1>3, Zenon

LEMMA PeerCrash == ASSUME AgreedInv, PeerInv, Crash PROVE PeerInv'
<1>1. UNCHANGED <<remote, theirs, seen>> /\ up' = IdleUp /\ sweep' = IdleSweep
  BY Zenon DEF Crash, Torn, server, folder
<1>2. up'.pc = "idle" /\ sweep'.pc = "idle" /\ sweep'.rm = 0
  BY <1>1, Zenon DEF IdleUp, IdleSweep
<1>3. remote'.rev \in Nat
  BY <1>1, Zenon DEF AgreedInv, ServerOK
<1>4. UpObserved' /\ SweepObserved'
  BY <1>2, <1>3, SMTT(60) DEF UpObserved, SweepObserved
<1>5. QED
  BY <1>1, <1>4, PeerQuiet, Zenon

LEMMA PeerUploader ==
    ASSUME AgreedInv, PeerInv, Uploader \/ UploadFails
    PROVE  PeerInv'
<1>0. UpOK /\ UploadsOK /\ ServerOK /\ UpObserved
  BY Zenon DEF AgreedInv, PeerInv
<1>1. UNCHANGED <<folder, theirs, sweep>>
  BY Zenon DEF Uploader, UploadFails, TakeUpload, Match, PublishFile, PublishDelete, FinishUpload, uploaderFrame
<1>2. seen \subseteq seen'
  BY <1>1, SeenGrows, Zenon
<1>3. IdleUp.pc = "idle"
  BY Zenon DEF IdleUp
<1>4. CASE UNCHANGED remote
  <2>1. CASE up' = IdleUp
    <3>1. UpObserved'
      BY <1>3, <2>1, UpOff, ZenonT(60)
    <3>2. QED
      BY <1>1, <1>2, <1>4, <3>1, PeerQuiet, Zenon
  <2>2. CASE up' = [up EXCEPT !.pc = "finish"]
    <3>1. up'.pc = "finish"
      BY <1>0, <2>2, Zenon DEF UpOK, UpState
    <3>2. UpObserved'
      BY <3>1, UpOff, ZenonT(60)
    <3>3. QED
      BY <1>1, <1>2, <1>4, <3>2, PeerQuiet, Zenon
  <2>3. CASE /\ ~(Head(uploads).kind = "file" /\ remote.data = Head(uploads).hash) => MatchesStored(Head(uploads))
             /\ up' = [pc |-> IF Head(uploads).kind = "file" /\ remote.data = Head(uploads).hash
                                  THEN "match" ELSE "publish",
                       op |-> Head(uploads), rm |-> Stat]
    <3>1. up'.rm = Stat /\ up'.op = Head(uploads) /\ (up'.pc = "publish" => MatchesStored(Head(uploads)))
      BY <2>3, Zenon
    <3>2. Stat' = Stat
      BY <1>4, Zenon DEF Stat
    <3>3. Stat <= remote.rev /\ (Stat # 0 => remote.data # None)
      BY <1>0, StatType, SMTT(60) DEF ServerOK
    <3>4. UpObserved'
      BY <1>4, <3>1, <3>2, <3>3, ZenonT(60) DEF UpObserved, MatchesStored
    <3>5. QED
      BY <1>1, <1>2, <1>4, <3>4, PeerQuiet, Zenon
  <2>4. QED
    BY ZenonT(60), <1>4, <2>1, <2>2, <2>3 DEF Uploader, UploadFails, TakeUpload, Match, PublishFile, PublishDelete,
          FinishUpload, send
<1>5. CASE ~UNCHANGED remote
  <2>1. /\ up.pc = "publish" /\ Stat \in {0, up.rm}
        /\ \/ Publish(up.op.hash) /\ up.op.kind = "file" /\ up' = [up EXCEPT !.pc = "finish"]
           \/ remote' = [remote EXCEPT !.data = None] /\ up' = IdleUp
    BY Zenon, <1>5 DEF Uploader, UploadFails, TakeUpload, Match, PublishFile, PublishDelete, FinishUpload, send,
          server
  <2>2. up.op.stored.hash \in seen \cup {None}
    BY <1>0, Zenon DEF UpOK, AnyOp, Based, Both
  <2>3. remote.data \in seen \cup {None}
    BY <1>0, <2>1, <2>2, StatType, ZenonT(60) DEF UpObserved
  <2>4. Moved
    <3>1. up.op.kind = "file" => up.op.hash \in Version
      BY <1>0, <2>1, Zenon DEF UpOK, GoodOp, AnyOp, UploadOp, Maybe
    <3>2. QED
      BY <2>1, <3>1, Zenon DEF Moved
  <2>5. up'.pc # "publish"
    BY <1>0, <1>3, <2>1, ZenonT(60) DEF UpOK, UpState
  <2>6. UpObserved'
    BY <2>5, UpOff, Zenon
  <2>7. QED
    BY <1>1, <1>2, <2>3, <2>4, <2>6, PeerReplaced, ZenonT(60)
<1>6. QED
  BY <1>4, <1>5, Zenon

(* The steps of the sweep that leave the published file and what the scan  *)
(* of the workspace observed alone.                                        *)
SweepSteady ==
    \/ detectOfflineDeletes \/ DropAction \/ DropRemoteAction \/ execUpload \/ RecordSweepUpload
    \/ execDownload \/ SweepWrite \/ RecordSweepDownload \/ execDeleteLocal \/ SweepRemove
    \/ RecordSweepDelete \/ SweepFails

LEMMA PeerSweepSteady ==
    ASSUME AgreedInv, PeerInv, SweepSteady
    PROVE  PeerInv'
<1>0. sweep \in SweepState /\ SweepObserved /\ sweep.hash \in Maybe /\ None \in Maybe
  BY SweepFields, Zenon DEF AgreedInv, SweepOK, PeerInv, Maybe
<1>1. UNCHANGED <<remote, theirs, up>>
  BY Zenon DEF SweepSteady, detectOfflineDeletes, DropAction, DropRemoteAction, execUpload, RecordSweepUpload,
        execDownload, SweepWrite, RecordSweepDownload, execDeleteLocal, SweepRemove, RecordSweepDelete, SweepFails,
        sweepFrame, server
<1>2. UNCHANGED seen \/ Local(None) \/ Local(sweep.hash)
  BY Zenon DEF SweepSteady, detectOfflineDeletes, DropAction, DropRemoteAction, execUpload, RecordSweepUpload,
        execDownload, SweepWrite, RecordSweepDownload, execDeleteLocal, SweepRemove, RecordSweepDelete, SweepFails,
        folder, Replace, RemoveLocal
<1>3. seen \subseteq seen'
  BY <1>0, <1>2, SeenGrows, Zenon
<1>4. Moved
  BY <1>1, Zenon DEF Moved
<1>5. /\ sweep'.rm = sweep.rm /\ sweep'.r = sweep.r
      /\ \/ sweep'.pc \in {"remote", "clean", "mark", "adopt", "remove", "write"}
         \/ sweep'.pc = "echo" /\ sweep.pc = "upload"
  <2>1. \/ \E p \in {"remote", "clean", "mark", "adopt", "remove"} : SweepTo(p)
        \/ SweepTo("echo") /\ sweep.pc = "upload"
        \/ sweep' = [sweep EXCEPT !.pc = "write", !.hash = remote.data]
    BY Zenon DEF SweepSteady, detectOfflineDeletes, DropAction, DropRemoteAction, execUpload, RecordSweepUpload,
          execDownload, SweepWrite, RecordSweepDownload, execDeleteLocal, SweepRemove, RecordSweepDelete, SweepFails
  <2>2. CASE \E p \in {"remote", "clean", "mark", "adopt", "remove"} : SweepTo(p)
    <3>1. PICK p \in {"remote", "clean", "mark", "adopt", "remove"} : SweepTo(p)
      BY <2>2, Zenon
    <3>2. sweep'.pc = p /\ sweep'.rm = sweep.rm /\ sweep'.r = sweep.r
      BY <1>0, <3>1, SweepToFields, ZenonT(60) DEF SweepPc
    <3>3. QED
      BY <3>1, <3>2, Zenon
  <2>3. CASE SweepTo("echo") /\ sweep.pc = "upload"
    BY <1>0, <2>3, SweepToFields, Zenon DEF SweepPc
  <2>4. CASE sweep' = [sweep EXCEPT !.pc = "write", !.hash = remote.data]
    BY <1>0, <2>4, Zenon DEF SweepState
  <2>5. QED
    BY <2>1, <2>2, <2>3, <2>4, ZenonT(60)
<1>6. /\ sweep'.pc \in {"upload", "echo", "rm"} /\ sweep.rm # 0 => sweep.r \in seen' \cup {None}
      /\ sweep'.pc = "delete-remote" => sweep.rm # 0
  BY <1>0, <1>3, <1>5, Zenon DEF SweepObserved
<1>7. SweepObserved'
  BY <1>0, <1>4, <1>5, <1>6, SweepCarries, Zenon
<1>8. QED
  BY <1>1, <1>3, <1>7, PeerQuiet, Zenon

LEMMA PeerSweep ==
    ASSUME ~SameSize, AgreedInv, PeerInv,
           \/ ScanLocal \/ ScanRemote \/ buildPlan \/ SweepEcho \/ execDeleteRemote \/ SweepRm
           \/ cleanupTombstones
    PROVE  PeerInv'
<1>0. sweep \in SweepState /\ SweepOK /\ SweepObserved /\ ServerOK
  BY Zenon DEF AgreedInv, SweepOK, PeerInv
<1>1. UNCHANGED <<folder, theirs, up>>
  BY Zenon DEF ScanLocal, ScanRemote, buildPlan, SweepEcho, execDeleteRemote, SweepRm, cleanupTombstones, sweepFrame
<1>2. seen \subseteq seen'
  BY <1>1, SeenGrows, Zenon
<1>3. Stat \in Nat /\ Stat <= remote.rev /\ remote.rev \in Nat
  BY <1>0, StatType, SMTT(60) DEF ServerOK
<1>4. IdleSweep.pc = "idle" /\ IdleSweep.rm = 0 /\ IdleSweep \in SweepState
  BY IdleTypes, Zenon DEF IdleSweep
<1>5. CASE ScanLocal \/ cleanupTombstones
  <2>1. UNCHANGED remote
    BY <1>5, Zenon DEF ScanLocal, cleanupTombstones, server
  <2>2. sweep'.pc \in {"idle", "offline"} /\ sweep'.rm = 0
    <3>1. CASE sweep' = [IdleSweep EXCEPT !.pc = "offline", !.l = local]
      BY <1>4, <3>1, Zenon DEF SweepState
    <3>2. CASE sweep' = IdleSweep
      BY <1>4, <3>2, Zenon
    <3>3. QED
      BY <1>5, <3>1, <3>2, Zenon DEF ScanLocal, cleanupTombstones
  <2>3. SweepObserved'
    BY <1>3, <2>1, <2>2, SMTT(60) DEF SweepObserved
  <2>4. QED
    BY <1>1, <1>2, <2>1, <2>3, PeerQuiet, ZenonT(60)
<1>6. CASE ScanRemote
  <2>1. UNCHANGED remote /\ sweep' = [sweep EXCEPT !.pc = "plan", !.r = remote.data, !.rm = Stat]
    BY <1>6, Zenon DEF ScanRemote, server
  <2>2. sweep'.pc = "plan" /\ sweep'.r = remote.data /\ sweep'.rm = Stat
    BY <1>0, <2>1, Zenon DEF SweepState
  <2>3. SweepObserved'
    BY <1>3, <2>1, <2>2, ZenonT(60) DEF SweepObserved
  <2>4. QED
    BY <1>1, <1>2, <2>1, <2>3, PeerQuiet, ZenonT(60)
<1>7. CASE buildPlan
  <2>1. UNCHANGED remote
    BY <1>7, Zenon DEF buildPlan, server
  <2>2. /\ sweep'.rm = sweep.rm /\ sweep'.r = sweep.r
        /\ sweep'.pc = "clean" \/ (sweep'.pc = PlannedAction /\ PlannedAction \notin {"none", "refresh"})
    <3>1. CASE SweepTo("clean")
      BY <1>0, <3>1, SweepToFields, Zenon DEF SweepPc
    <3>2. CASE /\ sweep' = [sweep EXCEPT !.pc = PlannedAction, !.base = entry,
                              !.conflict = sweep.l # None /\ (LocalChanged \/ ~Live(entry))]
               /\ PlannedAction \notin {"none", "refresh"}
      BY <1>0, <3>2, Zenon DEF SweepState
    <3>3. QED
      BY <1>7, <3>1, <3>2, Zenon DEF buildPlan
  <2>3. PlannedAction \notin {"echo", "rm"}
    BY Zenon DEF PlannedAction
  <2>4. /\ sweep'.pc \in {"upload", "echo", "rm"} /\ sweep.rm # 0 => sweep.r \in seen' \cup {None}
        /\ sweep'.pc = "delete-remote" => sweep.rm # 0
    BY <1>2, <2>2, <2>3, PlanReplaces, Zenon
  <2>5. SweepObserved'
    BY <1>0, <2>1, <2>2, <2>4, SweepCarries, Zenon DEF Moved
  <2>6. QED
    BY <1>1, <1>2, <2>1, <2>5, PeerQuiet, Zenon
<1>8. CASE execDeleteRemote
  <2>1. UNCHANGED remote /\ sweep.pc = "delete-remote" /\ Stat = sweep.rm
    BY <1>8, Zenon DEF execDeleteRemote, server
  <2>2. /\ sweep'.rm = sweep.rm /\ sweep'.r = sweep.r
        /\ sweep'.pc = "download" \/ (sweep'.pc = "rm" /\ RemoteIsBase)
    <3>1. CASE SweepTo("rm") /\ RemoteIsBase
      BY <1>0, <3>1, SweepToFields, Zenon DEF SweepPc
    <3>2. CASE sweep' = [sweep EXCEPT !.pc = "download", !.base = entry', !.conflict = FALSE]
      BY <1>0, <3>2, Zenon DEF SweepState
    <3>3. QED
      BY <1>8, <3>1, <3>2, Zenon DEF execDeleteRemote
  <2>3. RemoteIsBase => remote.data \in seen \cup {None}
    BY <1>0, Zenon DEF RemoteIsBase, SweepOK, Based, Both
  <2>4. sweep.rm # 0 => remote.data = sweep.r
    BY <1>0, <2>1, Zenon DEF SweepObserved
  <2>5. SweepObserved'
    BY <1>0, <1>2, <2>1, <2>2, <2>3, <2>4, SweepCarries, ZenonT(60) DEF Moved
  <2>6. QED
    BY <1>1, <1>2, <2>1, <2>5, PeerQuiet, Zenon
<1>9. CASE SweepEcho \/ SweepRm
  <2>1. /\ sweep.pc \in {"echo", "rm"} /\ \E p \in {"uploaded", "removed", "clean"} : SweepTo(p)
        /\ \/ UNCHANGED remote
           \/ /\ Stat \in {0, sweep.rm}
              /\ \/ sweep.pc = "echo" /\ Publish(sweep.l)
                 \/ remote' = [remote EXCEPT !.data = None]
    BY <1>9, Zenon DEF SweepEcho, SweepRm, server
  <2>2. sweep'.pc \in {"uploaded", "removed", "clean"} /\ sweep'.rm = sweep.rm /\ sweep'.r = sweep.r
    <3>1. PICK p \in {"uploaded", "removed", "clean"} : SweepTo(p)
      BY <2>1, Zenon
    <3>2. sweep'.pc = p /\ sweep'.rm = sweep.rm /\ sweep'.r = sweep.r
      BY <1>0, <3>1, SweepToFields, Zenon DEF SweepPc
    <3>3. QED
      BY <3>1, <3>2, Zenon
  <2>3. Moved
    <3>1. sweep.pc = "echo" => sweep.l \in Version
      BY <1>0, SweepFields, Zenon DEF SweepOK, Maybe
    <3>2. QED
      BY <2>1, <3>1, Zenon DEF Moved
  <2>4. SweepObserved'
    BY <1>0, <2>2, <2>3, SweepCarries, Zenon
  <2>5. CASE UNCHANGED remote
    BY <1>1, <1>2, <2>4, <2>5, PeerQuiet, Zenon
  <2>6. CASE ~UNCHANGED remote
    <3>1. Stat # 0 => Stat = sweep.rm /\ remote.data = sweep.r /\ sweep.r \in seen \cup {None}
      BY <1>0, <2>1, <2>6, Zenon DEF SweepObserved
    <3>2. remote.data \in seen \cup {None}
      BY <1>0, <3>1, StatType, Zenon
    <3>3. QED
      BY <1>1, <1>2, <2>3, <2>4, <3>2, PeerReplaced, Zenon
  <2>7. QED
    BY <2>5, <2>6, Zenon
<1>10. QED
  BY <1>5, <1>6, <1>7, <1>8, <1>9, ZenonT(60)

LEMMA PeerStepInv ==
    ASSUME ~SameSize, AgreedInv, PeerInv, [Next]_vars
    PROVE  PeerInv'
<1>1. CASE Environment
  <2>1. CASE SweepFails
    BY <2>1, PeerSweepSteady, Zenon DEF SweepSteady
  <2>2. QED
    BY <1>1, <2>1, PeerOutside, PeerElsewhere, PeerUploader, PeerCrash, Zenon DEF Environment
<1>2. CASE Reconnect \/ flushNow \/ flush \/ SendDelete \/ EventLoop \/ Downloader \/ UNCHANGED vars
  BY <1>2, PeerElsewhere, Zenon
<1>3. CASE Uploader
  BY <1>3, PeerUploader, Zenon
<1>4. CASE Sweep
  BY <1>4, PeerSweep, PeerSweepSteady, Zenon DEF Sweep, SweepSteady
<1>5. QED
  BY <1>1, <1>2, <1>3, <1>4, Zenon DEF Next

-----------------------------------------------------------------------------
LEMMA KeptInit == ASSUME Init PROVE LocalInv /\ PeerInv
<1>1. /\ mine = None /\ theirs = None /\ down.pc = "idle" /\ up.pc = "idle" /\ sweep.pc = "idle"
      /\ sweep.rm = 0 /\ remote.rev = 1
  BY IdleTypes, Zenon DEF Init, IdleUp, IdleSweep
<1>2. QED
  BY <1>1, SMTT(60) DEF LocalInv, LocalEditKept, DownReplaces, SweepReplaces, PeerInv, PeerEditKept, UpObserved, SweepObserved

(* What the application last wrote is in the folder, in a conflict copy or *)
(* was published, for any number of edits and failures and any capacity of *)
(* the channels (sync_downloader.go, sync_full_reconciler.go).  Excluded   *)
(* are edits that keep the size of the file, and a write between a         *)
(* download's two looks at its destination.                                *)
THEOREM LocalEditsKept == ASSUME ~SameSize, ~StageWrites PROVE Spec => []LocalEditKept
<1>1. Init => AgreedInv /\ LocalInv
  BY AgreedInit, KeptInit, Zenon
<1>2. AgreedInv /\ LocalInv /\ [Next]_vars => (AgreedInv /\ LocalInv)'
  BY AgreedStep, LocalStepInv, Zenon
<1>3. LocalInv => LocalEditKept
  BY Zenon DEF LocalInv
<1>4. QED
  BY <1>1, <1>2, <1>3, PTL DEF Spec

(* What the peer last published is still published or was in the folder    *)
(* before this client replaced it: the revision that an upload or a sweep  *)
(* compares before it publishes or removes (the conditional Echo and Rm)   *)
(* belongs to content the folder has held.                                 *)
THEOREM PeerEditsKept == ASSUME ~SameSize PROVE Spec => []PeerEditKept
<1>1. Init => AgreedInv /\ PeerInv
  BY AgreedInit, KeptInit, Zenon
<1>2. AgreedInv /\ PeerInv /\ [Next]_vars => (AgreedInv /\ PeerInv)'
  BY AgreedStep, PeerStepInv, Zenon
<1>3. PeerInv => PeerEditKept
  BY Zenon DEF PeerInv
<1>4. QED
  BY <1>1, <1>2, <1>3, PTL DEF Spec

(* Neither side's last version is lost, across crashes, restarts from an   *)
(* older state file, failed calls and outages, when edits change the size  *)
(* and none falls between a download's two looks at the file.              *)
THEOREM EditsSurvive == ASSUME ~SameSize, ~StageWrites PROVE Spec => []NothingLost
BY LocalEditsKept, PeerEditsKept, PTL DEF NothingLost

=============================================================================
