-------------------------- MODULE FolderSyncProofs --------------------------
(***************************************************************************)
(* What the folder sync daemon remembers as agreed was once on both sides, *)
(* whatever the number of changes, faults and crashes and the capacity of  *)
(* the channels.                                                           *)
(***************************************************************************)
EXTENDS FolderSync, FiniteSetTheorems, TLAPS

-----------------------------------------------------------------------------
(* The first part of the invariant: types, and that a baseline, wherever   *)
(* it is kept, names only content that was on both sides.                  *)

Both == published \cap seen
Based(e) == e.hash \in Both \cup {None}

FolderOK == local \in Maybe /\ copies \subseteq Version /\ seen \subseteq Version /\ local \in seen \cup {None}

ServerOK ==
    /\ remote \in [data: Maybe, rev: Nat \ {0}] /\ published \subseteq Version
    /\ remote.data \in published \cup {None}

EntryOK == entry \in SyncEntry /\ saved \in SyncEntry /\ Based(entry) /\ Based(saved)

(* An upload carries content of the folder.                                *)
AnyOp(o) == o \in UploadOp /\ o.hash \in seen \cup {None} /\ Based(o.stored)
GoodOp(o) == AnyOp(o) /\ (o.kind = "file" => o.hash # None)

UploadsOK ==
    /\ uploads \in Seq(UploadOp) /\ Len(uploads) <= QueueCap
    /\ \A o \in Elems(uploads) : GoodOp(o)

TimersOK == IsFiniteSet(timers) /\ \A o \in timers : GoodOp(o)

UploadResultsOK ==
    /\ uploadResults \in Seq(UploadResult) /\ Len(uploadResults) <= QueueCap
    /\ \A r \in Elems(uploadResults) :
          AnyOp(r.op) /\ (r.outcome = "done" /\ r.op.kind = "file" => r.op.hash \in published)

DownloadsOK ==
    /\ downloads \in Seq(DownloadOp) /\ Len(downloads) <= QueueCap
    /\ \A o \in Elems(downloads) : Based(o.stored)

DownloadResultsOK ==
    /\ downloadResults \in Seq(DownloadResult) /\ Len(downloadResults) <= QueueCap
    /\ \A r \in Elems(downloadResults) : r.outcome = "done" /\ r.kind = "file" => r.hash \in Both

LoopOK == loop \in LoopState /\ Based(loop.stored)

UpOK ==
    /\ up \in UpState /\ AnyOp(up.op)
    /\ up.pc # "idle" => GoodOp(up.op)
    /\ up.pc \in {"match", "finish"} => up.op.kind = "file" /\ up.op.hash \in published

DownOK ==
    /\ down \in DownState /\ Based(down.op.stored)
    /\ down.pc \in {"stage", "commit"} => down.hash \in published
    /\ down.pc \in {"mark", "record"} => down.hash \in Both
    /\ down.pc \in {"confirm", "remove"} => down.op.kind = "delete"

SweepOK ==
    /\ sweep \in SweepState /\ Based(sweep.base) /\ sweep.l \in seen \cup {None}
    /\ sweep.pc \in {"upload", "echo", "uploaded"} => sweep.l # None
    /\ sweep.pc = "uploaded" => sweep.l \in published
    /\ sweep.pc = "write" => sweep.hash \in published
    /\ sweep.pc \in {"mark", "adopt"} => sweep.hash \in Both

RestOK ==
    /\ pending \in [count: Nat, rescan: BOOLEAN]
    /\ echo \in [kind: {"none", "file", "delete"}, hash: Maybe]
    /\ watch \in BOOLEAN /\ localEvents \in 0 .. QueueCap /\ remoteEvents \in 0 .. QueueCap
    /\ sweepReq \in BOOLEAN /\ status \in {"boot", "offline", "online"}
    /\ mine \in Maybe /\ theirs \in Maybe
TallyOK == tally \in [local: 0 .. MaxLocal, peer: 0 .. MaxPeer, faults: Nat, swept: {"no", "running", "done"}]

AgreedInv ==
    /\ FolderOK /\ ServerOK /\ EntryOK /\ UploadsOK /\ TimersOK /\ UploadResultsOK
    /\ DownloadsOK /\ DownloadResultsOK /\ LoopOK /\ UpOK /\ DownOK /\ SweepOK /\ RestOK /\ TallyOK

(* What was published or seen stays so.                                    *)
Grow == published \subseteq published' /\ seen \subseteq seen'

-----------------------------------------------------------------------------
(* Queues.                                                                 *)

LEMMA ElemsAppend ==
    ASSUME NEW S, NEW q \in Seq(S), NEW x \in S
    PROVE  /\ Append(q, x) \in Seq(S) /\ Len(Append(q, x)) = Len(q) + 1
           /\ Elems(Append(q, x)) = Elems(q) \cup {x}
BY SMTT(60) DEF Elems

LEMMA ElemsTail ==
    ASSUME NEW S, NEW q \in Seq(S), q # <<>>
    PROVE  /\ Tail(q) \in Seq(S) /\ Len(Tail(q)) = Len(q) - 1
           /\ Elems(Tail(q)) \subseteq Elems(q) /\ Head(q) \in Elems(q) /\ Head(q) \in S
BY SMTT(60) DEF Elems

LEMMA ImageFinite ==
    ASSUME NEW S, IsFiniteSet(S), NEW f
    PROVE  IsFiniteSet({f[x] : x \in S})
<1> DEFINE T == {f[x] : x \in S}
<1> DEFINE g == [x \in S |-> f[x]]
<1>1. g \in Surjection(S, T)
  BY Zenon DEF Surjection
<1>2. QED
  BY <1>1, FS_Surjection, Zenon

LEMMA ElemsFinite ==
    ASSUME NEW S, NEW q \in Seq(S)
    PROVE  IsFiniteSet(Elems(q))
<1>1. IsFiniteSet(1 .. Len(q))
  BY FS_Interval, SMTT(60)
<1>2. QED
  BY <1>1, ImageFinite, Zenon DEF Elems

LEMMA RoomForOne ==
    ASSUME NEW S, IsFiniteSet(S)
    PROVE  \E v \in 1 .. (Cardinality(S) + 1) : v \notin S
<1>1. PICK n \in Nat : n = Cardinality(S)
  BY FS_CardinalityType, Zenon
<1>2. n + 1 \in Int /\ 1 \in Int /\ ~(1 > n + 1) /\ (n + 1) - 1 + 1 = n + 1
  BY SMTT(60)
<1>3. Cardinality(1 .. (n + 1)) = n + 1
  BY <1>2, FS_Interval, Zenon
<1>4. SUFFICES ASSUME (1 .. (n + 1)) \in SUBSET S PROVE FALSE
  BY <1>1, Zenon
<1>5. Cardinality(1 .. (n + 1)) <= Cardinality(S)
  BY <1>4, FS_Subset, Zenon
<1>6. QED
  BY <1>1, <1>3, <1>5, SMTT(60)

(* nextVersion is a number, and one that nothing in memory refers to.      *)
LEMMA NextVersion ==
    ASSUME uploads \in Seq(UploadOp), uploadResults \in Seq(UploadResult), downloads \in Seq(DownloadOp),
           IsFiniteSet(timers)
    PROVE  nextVersion \in Nat \ {0} /\ nextVersion \notin UsedVersions
<1> DEFINE results == Elems(uploadResults)
           ops == Elems(uploads) \cup timers \cup {up.op} \cup {r.op : r \in results}
           loads == Elems(downloads) \cup {down.op}
           all == ops \cup loads
           f == [r \in results |-> r.op]
           g == [o \in ops |-> o.ver]
           h == [o \in all |-> o.stored.ver]
<1>1. IsFiniteSet(results) /\ IsFiniteSet(Elems(uploads)) /\ IsFiniteSet(Elems(downloads))
  BY ElemsFinite, Zenon
<1>2. IsFiniteSet({f[r] : r \in results})
  BY <1>1, ImageFinite, Zenon
<1>3. {f[r] : r \in results} = {r.op : r \in results}
  OBVIOUS
<1>4. IsFiniteSet({up.op}) /\ IsFiniteSet({down.op})
  BY FS_Singleton, Zenon
<1>5. IsFiniteSet(Elems(uploads) \cup timers)
  BY <1>1, FS_Union, Zenon
<1>6. IsFiniteSet(Elems(uploads) \cup timers \cup {up.op})
  BY <1>4, <1>5, FS_Union, Zenon
<1>7. IsFiniteSet(ops)
  BY <1>2, <1>3, <1>6, FS_Union, Zenon
<1>8. IsFiniteSet(loads)
  BY <1>1, <1>4, FS_Union, Zenon
<1>9. IsFiniteSet(all)
  BY <1>7, <1>8, FS_Union, Zenon
<1> HIDE DEF ops, loads, all
<1>10. IsFiniteSet({g[o] : o \in ops}) /\ IsFiniteSet({h[o] : o \in all})
  BY <1>7, <1>9, ImageFinite, Zenon
<1>11. {g[o] : o \in ops} = {o.ver : o \in ops} /\ {h[o] : o \in all} = {o.stored.ver : o \in all}
  OBVIOUS
<1>12. IsFiniteSet({entry.ver}) /\ IsFiniteSet({loop.stored.ver}) /\ IsFiniteSet({sweep.base.ver})
  BY FS_Singleton, Zenon
<1>13. IsFiniteSet({entry.ver} \cup {loop.stored.ver})
  BY <1>12, FS_Union, Zenon
<1>14. IsFiniteSet({entry.ver} \cup {loop.stored.ver} \cup {sweep.base.ver})
  BY <1>12, <1>13, FS_Union, Zenon
<1>15. IsFiniteSet({entry.ver} \cup {loop.stored.ver} \cup {sweep.base.ver} \cup {o.ver : o \in ops})
  BY <1>10, <1>11, <1>14, FS_Union, Zenon
<1>16. IsFiniteSet({entry.ver} \cup {loop.stored.ver} \cup {sweep.base.ver} \cup {o.ver : o \in ops}
                     \cup {o.stored.ver : o \in all})
  BY <1>10, <1>11, <1>15, FS_Union, Zenon
<1>17. UsedVersions = {entry.ver} \cup {loop.stored.ver} \cup {sweep.base.ver} \cup {o.ver : o \in ops}
                         \cup {o.stored.ver : o \in all}
  BY Zenon DEF UsedVersions, ops, loads, all
<1>18. IsFiniteSet(UsedVersions) /\ Cardinality(UsedVersions) \in Nat
  BY <1>16, <1>17, FS_CardinalityType, Zenon
<1>19. \E v \in 1 .. (Cardinality(UsedVersions) + 1) : v \notin UsedVersions
  BY <1>18, RoomForOne, Zenon
<1>20. nextVersion \in 1 .. (Cardinality(UsedVersions) + 1) /\ nextVersion \notin UsedVersions
  BY <1>19, Zenon DEF nextVersion
<1>21. QED
  BY <1>18, <1>20, SMTT(60)

-----------------------------------------------------------------------------
(* Steps of the folder and the workspace.                                  *)

LEMMA VersionType == None \notin Version /\ Version \subseteq Nat
BY BoundsAssumption, NoneAssumption, SMTT(60) DEF Version

LEMMA StatType ==
    ASSUME ServerOK
    PROVE  Stat \in Nat /\ (Stat = 0 <=> remote.data = None) /\ (Stat # 0 => Stat = remote.rev)
BY Zenon DEF ServerOK, Stat

LEMMA LocalStep ==
    ASSUME FolderOK, NEW v \in Maybe, Local(v), copies' \subseteq Version
    PROVE  FolderOK' /\ seen \subseteq seen' /\ watch' \in BOOLEAN /\ (v # None => v \in seen')
BY VersionType, Zenon DEF FolderOK, Local, Maybe

LEMMA ReplaceStep ==
    ASSUME FolderOK, NEW v \in Maybe, NEW c, Replace(v, c)
    PROVE  FolderOK' /\ seen \subseteq seen' /\ watch' \in BOOLEAN /\ (v # None => v \in seen')
<1>1. copies' \subseteq Version /\ Local(v)
  BY VersionType, Zenon DEF Replace, FolderOK, Maybe
<1>2. QED
  BY <1>1, LocalStep, Zenon

LEMMA RemoveStep ==
    ASSUME FolderOK, EntryOK, RestOK, NEW stored, RemoveLocal(stored), UNCHANGED saved
    PROVE  /\ FolderOK' /\ seen \subseteq seen' /\ watch' \in BOOLEAN /\ entry' = NoEntry
           /\ echo' \in [kind: {"none", "file", "delete"}, hash: Maybe]
<1>1. copies' \subseteq Version
  BY VersionType, Zenon DEF RemoveLocal, FolderOK, Maybe, Changed
<1>2. echo' \in [kind: {"none", "file", "delete"}, hash: Maybe] /\ entry' = NoEntry
  BY Zenon DEF RemoveLocal, RestOK, DeleteEcho, Maybe
<1>3. FolderOK' /\ seen \subseteq seen' /\ watch' \in BOOLEAN
  <2>1. CASE Local(None)
    BY <1>1, <2>1, LocalStep, Zenon DEF Maybe
  <2>2. CASE UNCHANGED <<local, seen, watch>>
    BY <1>1, <2>2, Zenon DEF FolderOK, RestOK
  <2>3. QED
    BY <2>1, <2>2, Zenon DEF RemoveLocal
<1>4. QED
  BY <1>2, <1>3, Zenon

LEMMA PublishStep ==
    ASSUME ServerOK, NEW v \in Version, Publish(v)
    PROVE  ServerOK' /\ published \subseteq published' /\ v \in published'
BY SMTT(60) DEF ServerOK, Publish, Maybe

LEMMA NoEntryType == NoEntry \in SyncEntry /\ NoEntry.hash = None
BY Zenon DEF NoEntry, SyncEntry, Maybe

(* An entry that keeps its hash, or takes content of both sides.           *)
LEMMA EntryStep ==
    ASSUME EntryOK, Grow, UNCHANGED saved, entry' \in SyncEntry,
           entry'.hash \in Both \cup {None}
    PROVE  EntryOK'
BY Zenon DEF EntryOK, Grow, Based, Both

(* What a step does not touch.                                             *)
LEMMA Frame ==
    ASSUME AgreedInv, Grow, FolderOK', ServerOK', RestOK',
           UNCHANGED <<entry, saved>> \/ EntryOK',
           UNCHANGED uploads \/ UploadsOK',
           UNCHANGED timers \/ TimersOK',
           UNCHANGED uploadResults \/ UploadResultsOK',
           UNCHANGED downloads \/ DownloadsOK',
           UNCHANGED downloadResults \/ DownloadResultsOK',
           UNCHANGED loop \/ LoopOK',
           UNCHANGED up \/ UpOK',
           UNCHANGED down \/ DownOK',
           UNCHANGED sweep \/ SweepOK',
           UNCHANGED tally \/ TallyOK'
    PROVE  AgreedInv'
<1> USE DEF Grow
<1>1. EntryOK'
  BY Zenon DEF AgreedInv, EntryOK, Based, Both
<1>2. UploadsOK'
  BY Zenon DEF AgreedInv, UploadsOK, GoodOp, AnyOp, Based, Both, Elems
<1>3. TimersOK'
  BY Zenon DEF AgreedInv, TimersOK, GoodOp, AnyOp, Based, Both
<1>4. UploadResultsOK'
  BY Zenon DEF AgreedInv, UploadResultsOK, GoodOp, AnyOp, Based, Both, Elems
<1>5. DownloadsOK'
  BY Zenon DEF AgreedInv, DownloadsOK, Based, Both, Elems
<1>6. DownloadResultsOK'
  BY Zenon DEF AgreedInv, DownloadResultsOK, Based, Both, Elems
<1>7. LoopOK'
  BY Zenon DEF AgreedInv, LoopOK, Based, Both
<1>8. UpOK'
  BY Zenon DEF AgreedInv, UpOK, GoodOp, AnyOp, Based, Both
<1>9. DownOK'
  BY Zenon DEF AgreedInv, DownOK, Based, Both
<1>10. SweepOK'
  BY Zenon DEF AgreedInv, SweepOK, Based, Both
<1>11. TallyOK'
  BY Zenon DEF AgreedInv, TallyOK
<1>12. QED
  BY <1>1, <1>2, <1>3, <1>4, <1>5, <1>6, <1>7, <1>8, <1>9, <1>10, <1>11, Zenon DEF AgreedInv

LEMMA FolderKept == ASSUME AgreedInv, UNCHANGED folder PROVE FolderOK' /\ seen \subseteq seen'
BY Zenon DEF AgreedInv, FolderOK, folder

LEMMA ServerKept == ASSUME AgreedInv, UNCHANGED server PROVE ServerOK' /\ published \subseteq published'
BY Zenon DEF AgreedInv, ServerOK, server

LEMMA Counted ==
    ASSUME NEW n \in 0 .. QueueCap, NEW m, NEW ok \in Accepts(n), m = n + IF ok THEN 1 ELSE 0
    PROVE  m \in 0 .. QueueCap
<1>1. CASE ok
  <2>1. n < QueueCap
    BY <1>1, Zenon DEF Accepts
  <2>2. QED
    BY <1>1, <2>1, BoundsAssumption, SMTT(60)
<1>2. CASE ~ok
  BY <1>2, BoundsAssumption, SMTT(60)
<1>3. QED
  BY <1>1, <1>2, Zenon

(* The queues take operations that are good.                               *)
LEMMA QueueUpload ==
    ASSUME UploadsOK, RestOK, Grow, NEW op, GoodOp(op), queueUpload(op)
    PROVE  UploadsOK' /\ sweepReq' \in BOOLEAN
<1>1. /\ uploads' \in Seq(UploadOp) /\ Len(uploads') <= QueueCap
      /\ Elems(uploads') \subseteq Elems(uploads) \cup {op}
  <2>1. CASE uploads' = uploads
    BY <2>1, Zenon DEF UploadsOK
  <2>2. CASE uploads' = Append(uploads, op) /\ Len(uploads) < QueueCap
    BY <2>2, ElemsAppend, BoundsAssumption, SMTT(60) DEF UploadsOK, GoodOp, AnyOp
  <2>3. QED
    BY <2>1, <2>2, Zenon DEF queueUpload, Accepts
<1>2. \A o \in Elems(uploads') : GoodOp(o)
  BY <1>1, Zenon DEF UploadsOK
<1>3. \A o \in Elems(uploads') : GoodOp(o)'
  BY <1>2, Zenon DEF GoodOp, AnyOp, Based, Both, Grow
<1>4. QED
  BY <1>1, <1>3, Zenon DEF UploadsOK, RestOK, queueUpload

LEMMA QueueDownload ==
    ASSUME DownloadsOK, RestOK, Grow, NEW op \in DownloadOp, op.stored.hash \in Both \cup Both' \cup {None},
           NEW rescan \in BOOLEAN, queueDownload(op, rescan)
    PROVE  DownloadsOK' /\ sweepReq' \in BOOLEAN
<1>1. /\ downloads' \in Seq(DownloadOp) /\ Len(downloads') <= QueueCap
      /\ Elems(downloads') \subseteq Elems(downloads) \cup {op}
  <2>1. CASE downloads' = downloads
    BY <2>1, Zenon DEF DownloadsOK
  <2>2. CASE downloads' = Append(downloads, op) /\ Len(downloads) < QueueCap
    BY <2>2, ElemsAppend, BoundsAssumption, SMTT(60) DEF DownloadsOK
  <2>3. QED
    BY <2>1, <2>2, Zenon DEF queueDownload, Accepts
<1>2. \A o \in Elems(downloads') : o.stored.hash \in Both' \cup {None}
  BY <1>1, Zenon DEF DownloadsOK, Based, Both, Grow
<1>3. QED
  BY <1>1, <1>2, Zenon DEF DownloadsOK, Based, Both, RestOK, queueDownload

-----------------------------------------------------------------------------
(* The application, the peer, the watcher and the link.                    *)

LEMMA AppSteps ==
    ASSUME AgreedInv, AppWrite \/ AppDelete
    PROVE  AgreedInv'
<1>0. FolderOK /\ ServerOK /\ RestOK /\ tally \in [local: 0 .. MaxLocal, peer: 0 .. MaxPeer, faults: Nat, swept: {"no", "running", "done"}]
  BY Zenon DEF AgreedInv, TallyOK
<1>1. TallyOK'
  <2>1. MayEdit
    BY Zenon DEF AppWrite, AppDelete
  <2>2. tally.local + 1 \in 0 .. MaxLocal
    BY <1>0, <2>1, BoundsAssumption, SMTT(60) DEF MayEdit
  <2>3. QED
    BY <1>0, <2>1, <2>2, Zenon DEF MayEdit, TallyOK
<1>2. PICK v \in Maybe : Local(v) /\ mine' = v /\ UNCHANGED copies
  <2>1. CASE AppWrite
    <3>1. tally.local + 1 \in Version
      BY <1>0, <2>1, BoundsAssumption, SMTT(60) DEF AppWrite, MayEdit, Version
    <3>2. QED
      BY <2>1, <3>1, Zenon DEF AppWrite, Maybe
  <2>2. CASE AppDelete
    BY <2>2, Zenon DEF AppDelete, Maybe
  <2>3. QED
    BY <2>1, <2>2, Zenon
<1>3. FolderOK' /\ seen \subseteq seen' /\ watch' \in BOOLEAN
  BY <1>0, <1>2, LocalStep, Zenon DEF FolderOK
<1>4. UNCHANGED <<server, daemon, localEvents, remoteEvents, queues, sweepReq, loop, up, down, sweep, theirs>>
  BY Zenon DEF AppWrite, AppDelete
<1>5. RestOK'
  BY <1>0, <1>2, <1>3, <1>4, Zenon DEF RestOK, daemon
<1>6. ServerOK' /\ Grow
  BY <1>3, <1>4, ServerKept, Zenon DEF Grow
<1>7. QED
  BY <1>1, <1>3, <1>4, <1>5, <1>6, Frame, Zenon DEF daemon, queues

LEMMA PeerSteps ==
    ASSUME AgreedInv, PeerWrite \/ PeerDelete
    PROVE  AgreedInv'
<1>0. ServerOK /\ RestOK /\ TallyOK
  BY Zenon DEF AgreedInv
<1>1. TallyOK' /\ tally.peer < MaxPeer
  <2>1. tally.peer < MaxPeer /\ tally' = [tally EXCEPT !.peer = @ + 1, !.swept = "no"]
    BY Zenon DEF PeerWrite, PeerDelete, PeerChange
  <2>2. tally.peer + 1 \in 0 .. MaxPeer
    BY <1>0, <2>1, BoundsAssumption, SMTT(60) DEF TallyOK
  <2>3. QED
    BY <1>0, <2>1, <2>2, Zenon DEF TallyOK
<1>2. ServerOK' /\ published \subseteq published' /\ theirs' \in Maybe
  <2>1. CASE PeerWrite
    <3>1. MaxLocal + tally.peer + 1 \in Version
      BY <1>0, <1>1, BoundsAssumption, SMTT(60) DEF TallyOK, Version
    <3>2. QED
      BY <1>0, <2>1, <3>1, PublishStep, Zenon DEF PeerWrite, PeerChange, Maybe
  <2>2. CASE PeerDelete
    BY <1>0, <2>2, Zenon DEF PeerDelete, PeerChange, ServerOK, Maybe
  <2>3. QED
    BY <2>1, <2>2, Zenon
<1>3. /\ Notify
      /\ UNCHANGED <<folder, daemon, watch, localEvents, queues, loop, up, down, sweep, mine>>
  BY Zenon DEF PeerWrite, PeerDelete, PeerChange
<1>4. remoteEvents' \in 0 .. QueueCap /\ sweepReq' \in BOOLEAN
  <2>1. CASE UNCHANGED <<remoteEvents, sweepReq>>
    BY <1>0, <2>1, Zenon DEF RestOK
  <2>2. CASE \E ok \in Accepts(remoteEvents) : /\ remoteEvents' = remoteEvents + IF ok THEN 1 ELSE 0
                                               /\ sweepReq' = (sweepReq \/ ~ok)
    BY <1>0, <2>2, Counted, Zenon DEF RestOK
  <2>3. QED
    BY <1>3, <2>1, <2>2, Zenon DEF Notify
<1>5. RestOK'
  BY <1>0, <1>2, <1>3, <1>4, Zenon DEF RestOK, daemon
<1>6. FolderOK' /\ Grow
  BY <1>2, <1>3, FolderKept, Zenon DEF Grow
<1>7. QED
  BY <1>1, <1>2, <1>3, <1>5, <1>6, Frame, Zenon DEF daemon, queues

LEMMA WatcherSteps ==
    ASSUME AgreedInv, flush \/ SendDelete
    PROVE  AgreedInv'
<1>0. RestOK /\ UploadsOK /\ TimersOK
  BY Zenon DEF AgreedInv
<1>1. UNCHANGED <<folder, server, daemon, remoteEvents, uploadResults, downloads, downloadResults,
                  loop, up, down, sweep, people>>
  BY Zenon DEF flush, SendDelete, queues, events
<1>2. FolderOK' /\ ServerOK' /\ Grow
  BY <1>1, FolderKept, ServerKept, Zenon DEF Grow
<1>3. CASE flush
  <2>0. localEvents' \in 0 .. QueueCap /\ sweepReq' \in BOOLEAN
    BY <1>0, <1>3, Counted, Zenon DEF flush, RestOK
  <2>1. RestOK' /\ UNCHANGED <<uploads, timers>>
    BY <1>0, <1>1, <1>3, <2>0, Zenon DEF flush, RestOK, daemon, people, queues
  <2>2. QED
    BY <1>1, <1>2, <2>1, Frame, Zenon DEF daemon, people
<1>4. CASE SendDelete
  <2>1. PICK op \in timers : timers' = timers \ {op} /\ queueUpload(op)
    BY <1>4, Zenon DEF SendDelete
  <2>2. TimersOK'
    BY <1>0, <1>2, <2>1, FS_RemoveElement, Zenon DEF TimersOK, GoodOp, AnyOp, Based, Both, Grow
  <2>3. UploadsOK' /\ sweepReq' \in BOOLEAN
    BY <1>0, <1>2, <2>1, QueueUpload, Zenon DEF TimersOK
  <2>4. RestOK'
    BY <1>0, <1>1, <1>4, <2>3, Zenon DEF SendDelete, RestOK, daemon, people, events
  <2>5. QED
    BY <1>1, <1>2, <2>2, <2>3, <2>4, Frame, Zenon DEF daemon, people
<1>5. QED
  BY <1>3, <1>4, Zenon

LEMMA FaultTally == ASSUME TallyOK, NEW w, Fault(w) PROVE TallyOK'
<1>1. tally.faults + 1 \in Nat /\ tally' = [tally EXCEPT !.faults = @ + 1, !.swept = "no"]
  BY SMTT(60) DEF TallyOK, Fault
<1>2. QED
  BY <1>1, Zenon DEF TallyOK

LEMMA IdleTypes ==
    /\ IdleLoop \in LoopState /\ IdleUp \in UpState /\ IdleDown \in DownState /\ IdleSweep \in SweepState
    /\ IdleLoop.stored = NoEntry /\ IdleUp.op = NoUpload /\ IdleUp.pc = "idle"
    /\ IdleDown.op.stored = NoEntry /\ IdleDown.pc = "idle"
    /\ IdleSweep.base = NoEntry /\ IdleSweep.l = None /\ IdleSweep.pc = "idle"
    /\ NoUpload \in UploadOp /\ NoUpload.hash = None /\ NoUpload.stored = NoEntry /\ NoEntry.hash = None
<1>1. NoEntry \in SyncEntry /\ NoEntry.hash = None /\ None \in Maybe
  BY NoEntryType, Zenon DEF Maybe
<1>2. NoUpload \in UploadOp /\ NoUpload.hash = None /\ NoUpload.stored = NoEntry
  BY <1>1, Zenon DEF NoUpload, UploadOp
<1>3. NoDownload \in DownloadOp /\ NoDownload.stored = NoEntry
  BY <1>1, Zenon DEF NoDownload, DownloadOp
<1>4. IdleLoop \in LoopState /\ IdleLoop.stored = NoEntry
  BY <1>1, Zenon DEF IdleLoop, LoopState
<1>5. IdleUp \in UpState /\ IdleUp.op = NoUpload /\ IdleUp.pc = "idle"
  BY <1>2, Zenon DEF IdleUp, UpState
<1>6. IdleDown \in DownState /\ IdleDown.op.stored = NoEntry /\ IdleDown.pc = "idle"
  BY <1>1, <1>3, Zenon DEF IdleDown, DownState
<1>7. IdleSweep \in SweepState /\ IdleSweep.base = NoEntry /\ IdleSweep.l = None /\ IdleSweep.pc = "idle"
  BY <1>1, Zenon DEF IdleSweep, SweepState
<1>8. QED
  BY <1>1, <1>2, <1>4, <1>5, <1>6, <1>7, Zenon

LEMMA LinkSteps ==
    ASSUME AgreedInv, Disconnect \/ Reconnect \/ flushNow
    PROVE  AgreedInv'
<1>0. RestOK /\ TallyOK /\ EntryOK
  BY Zenon DEF AgreedInv
<1>1. UNCHANGED <<folder, server, entry, pending, echo, events, queues, loop, up, down, sweep, mine, theirs>>
  BY Zenon DEF Disconnect, Reconnect, flushNow, linkFrame, people
<1>2. FolderOK' /\ ServerOK' /\ Grow
  BY <1>1, FolderKept, ServerKept, Zenon DEF Grow
<1>3. saved' \in {saved, entry, NoEntry}
  BY Zenon DEF Disconnect, Reconnect, flushNow
<1>4. EntryOK'
  BY <1>0, <1>1, <1>2, <1>3, NoEntryType, Zenon DEF EntryOK, Based, Both, Grow
<1>5. UNCHANGED tally \/ TallyOK'
  BY <1>0, FaultTally, Zenon DEF Disconnect, Reconnect, flushNow, people
<1>6. RestOK'
  BY <1>0, <1>1, Zenon DEF Disconnect, Reconnect, flushNow, requestFullSweep, RestOK, events
<1>7. QED
  BY <1>1, <1>2, <1>4, <1>5, <1>6, Frame, Zenon DEF queues

LEMMA CrashStep ==
    ASSUME AgreedInv, Crash
    PROVE  AgreedInv'
<1>0. FolderOK /\ ServerOK /\ RestOK /\ TallyOK /\ EntryOK
  BY Zenon DEF AgreedInv
<1>1. FolderOK' /\ seen \subseteq seen'
  <2>1. CASE Torn
    BY <1>0, <2>1, VersionType, Zenon DEF Torn, FolderOK, Maybe
  <2>2. CASE UNCHANGED folder
    BY <2>2, FolderKept, Zenon
  <2>3. QED
    BY <2>1, <2>2, Zenon DEF Crash
<1>2. ServerOK' /\ Grow
  BY <1>1, ServerKept, Zenon DEF Crash, Grow
<1>3. EntryOK'
  BY <1>0, <1>2, Zenon DEF Crash, EntryOK, Based, Both, Grow
<1>4. TallyOK'
  BY <1>0, FaultTally, Zenon DEF Crash
<1>5. RestOK'
  <2>1. NoEcho \in [kind: {"none", "file", "delete"}, hash: Maybe]
    BY Zenon DEF NoEcho, Maybe
  <2>2. 0 \in 0 .. QueueCap
    BY BoundsAssumption, SMTT(60)
  <2>3. QED
    BY <1>0, <2>1, <2>2, Zenon DEF Crash, RestOK
<1>6. UploadsOK' /\ UploadResultsOK' /\ DownloadsOK' /\ DownloadResultsOK'
  <2>1. \A S : <<>> \in Seq(S)
    BY SMTT(60)
  <2>2. Len(<<>>) <= QueueCap /\ Elems(<<>>) = {}
    BY BoundsAssumption, SMTT(60) DEF Elems
  <2>3. uploads' = <<>> /\ uploadResults' = <<>> /\ downloads' = <<>> /\ downloadResults' = <<>>
    BY Zenon DEF Crash
  <2>4. QED
    BY <2>1, <2>2, <2>3, Zenon DEF UploadsOK, UploadResultsOK, DownloadsOK, DownloadResultsOK
<1>7. TimersOK'
  BY FS_EmptySet, Zenon DEF Crash, TimersOK
<1>8. LoopOK' /\ UpOK' /\ DownOK' /\ SweepOK'
  BY IdleTypes, Zenon DEF Crash, LoopOK, UpOK, DownOK, SweepOK, AnyOp, Based
<1>9. QED
  BY <1>1, <1>2, <1>3, <1>4, <1>5, <1>6, <1>7, <1>8, Zenon DEF AgreedInv

-----------------------------------------------------------------------------
(* The event loop.                                                         *)

LEMMA LocalEventStep ==
    ASSUME AgreedInv, handleLocalEvent
    PROVE  AgreedInv'
<1>0. FolderOK /\ RestOK /\ EntryOK /\ UploadsOK /\ TimersOK /\ UploadResultsOK /\ DownloadsOK
  BY Zenon DEF AgreedInv
<1>1. UNCHANGED <<folder, server, watch, remoteEvents, uploadResults, downloads, downloadResults, status, saved,
                  loop, up, down, sweep, people>>
  BY Zenon DEF handleLocalEvent
<1>2. FolderOK' /\ ServerOK' /\ Grow
  BY <1>1, FolderKept, ServerKept, Zenon DEF Grow
<1>3. nextVersion \in Nat
  BY <1>0, NextVersion, Zenon DEF UploadsOK, TimersOK, UploadResultsOK, DownloadsOK
<1>4. localEvents' \in 0 .. QueueCap /\ echo' \in [kind: {"none", "file", "delete"}, hash: Maybe]
  BY <1>0, BoundsAssumption, SMTT(60) DEF handleLocalEvent, RestOK, NoEcho, Maybe
<1>5. CASE local = None /\ handleLocalDelete /\ UNCHANGED <<uploads, pending, sweepReq>>
  <2>1. RestOK'
    BY <1>0, <1>1, <1>4, <1>5, Zenon DEF RestOK, people
  <2>2. EntryOK' /\ TimersOK'
    <3>1. CASE UNCHANGED <<entry, timers>>
      BY <1>0, <1>1, <1>2, <3>1, Zenon DEF EntryOK, TimersOK, GoodOp, AnyOp, Based, Both, Grow
    <3>2. CASE Live(entry) /\ entry' = [entry EXCEPT !.deleted = TRUE, !.ver = nextVersion]
                 /\ timers' = timers \cup {[kind |-> "delete", hash |-> None, stored |-> entry,
                                            ver |-> nextVersion]}
      <4>1. entry' \in SyncEntry /\ entry'.hash = entry.hash
        BY <1>0, <1>3, <3>2, Zenon DEF EntryOK, SyncEntry
      <4>2. EntryOK'
        BY <1>0, <1>1, <1>2, <4>1, EntryStep, Zenon DEF EntryOK, Based
      <4>3. GoodOp([kind |-> "delete", hash |-> None, stored |-> entry, ver |-> nextVersion])
        BY <1>0, <1>3, Zenon DEF GoodOp, AnyOp, EntryOK, UploadOp, Maybe, Based
      <4>4. TimersOK'
        BY <1>0, <1>2, <3>2, <4>3, FS_AddElement, Zenon DEF TimersOK, GoodOp, AnyOp, Based, Both, Grow
      <4>5. QED
        BY <4>2, <4>4, Zenon
    <3>3. QED
      BY <1>5, <3>1, <3>2, Zenon DEF handleLocalDelete
  <2>3. QED
    BY <1>1, <1>2, <1>5, <2>1, <2>2, Frame, Zenon DEF people
<1>6. CASE local # None /\ handleLocalFile /\ UNCHANGED <<entry, timers>>
  <2>1. /\ UNCHANGED uploads \/ UploadsOK'
        /\ pending' \in [count: Nat, rescan: BOOLEAN] /\ sweepReq' \in BOOLEAN
    <3>1. CASE pending' = Rescan /\ UNCHANGED <<uploads, sweepReq>>
      BY <1>0, <3>1, Zenon DEF RestOK, Rescan
    <3>2. CASE UNCHANGED <<pending, uploads, sweepReq>>
      BY <1>0, <3>2, Zenon DEF RestOK
    <3>3. CASE enqueueTrackedUpload([kind |-> "file", hash |-> local, stored |-> entry, ver |-> 0])
      <4>1. GoodOp([kind |-> "file", hash |-> local, stored |-> entry, ver |-> 0])
        BY <1>0, <1>6, Zenon DEF GoodOp, AnyOp, EntryOK, UploadOp, FolderOK, Based
      <4>2. UploadsOK' /\ sweepReq' \in BOOLEAN
        BY <1>0, <1>2, <3>3, <4>1, QueueUpload, Zenon DEF enqueueTrackedUpload
      <4>3. pending' \in [count: Nat, rescan: BOOLEAN]
        BY <1>0, <3>3, SMTT(60) DEF enqueueTrackedUpload, RestOK
      <4>4. QED
        BY <4>2, <4>3, Zenon
    <3>4. QED
      BY <1>6, <3>1, <3>2, <3>3, Zenon DEF handleLocalFile
  <2>2. RestOK'
    BY <1>0, <1>1, <1>4, <2>1, Zenon DEF RestOK, people
  <2>3. QED
    BY <1>1, <1>2, <1>6, <2>1, <2>2, Frame, Zenon DEF people
<1>7. CASE UNCHANGED <<entry, timers, uploads, pending, sweepReq>>
  <2>1. RestOK'
    BY <1>0, <1>1, <1>4, <1>7, Zenon DEF RestOK, people
  <2>2. QED
    BY <1>1, <1>2, <1>7, <2>1, Frame, Zenon DEF people
<1>8. QED
  BY <1>5, <1>6, <1>7, Zenon DEF handleLocalEvent

LEMMA RemoteEventStep ==
    ASSUME AgreedInv, handleRemoteEvent
    PROVE  AgreedInv'
<1>0. ServerOK /\ RestOK /\ TallyOK /\ EntryOK /\ LoopOK
  BY Zenon DEF AgreedInv
<1>1. UNCHANGED <<folder, server, daemon, watch, localEvents, queues, sweepReq, up, down, sweep, mine, theirs>>
  BY Zenon DEF handleRemoteEvent
<1>2. FolderOK' /\ ServerOK' /\ Grow
  BY <1>1, FolderKept, ServerKept, Zenon DEF Grow
<1>3. remoteEvents' \in 0 .. QueueCap
  BY <1>0, BoundsAssumption, SMTT(60) DEF handleRemoteEvent, RestOK
<1>4. RestOK'
  BY <1>0, <1>1, <1>3, Zenon DEF RestOK, daemon
<1>5. UNCHANGED tally \/ TallyOK'
  BY <1>0, FaultTally, Zenon DEF handleRemoteEvent, LookRemote
<1>6. LoopOK'
  <2>1. loop' \in {IdleLoop, [pc |-> "act", stored |-> entry, rm |-> Stat]}
    BY Zenon DEF handleRemoteEvent, LookRemote
  <2>2. [pc |-> "act", stored |-> entry, rm |-> Stat] \in LoopState
    BY <1>0, StatType, Zenon DEF LoopState, EntryOK
  <2>3. loop' \in LoopState /\ loop'.stored \in {NoEntry, entry}
    BY <2>1, <2>2, IdleTypes, SMTT(60)
  <2>4. QED
    BY <1>0, <1>2, <2>3, NoEntryType, Zenon DEF LoopOK, EntryOK, Based, Both, Grow
<1>7. QED
  BY <1>1, <1>2, <1>4, <1>5, <1>6, Frame, Zenon DEF daemon, queues

LEMMA ActRemoteStep ==
    ASSUME AgreedInv, ActRemote
    PROVE  AgreedInv'
<1>0. ServerOK /\ RestOK /\ EntryOK /\ LoopOK /\ UploadsOK /\ TimersOK /\ UploadResultsOK /\ DownloadsOK
  BY Zenon DEF AgreedInv
<1>1. /\ UNCHANGED <<folder, server, pending, echo, status, saved, events, uploads, uploadResults,
                     downloadResults, timers, up, down, sweep, people>>
      /\ loop' = IdleLoop
  BY Zenon DEF ActRemote
<1>2. FolderOK' /\ ServerOK' /\ Grow
  BY <1>1, FolderKept, ServerKept, Zenon DEF Grow
<1>3. nextVersion \in Nat
  BY <1>0, NextVersion, Zenon DEF UploadsOK, TimersOK, UploadResultsOK, DownloadsOK
<1>4. LoopOK'
  BY <1>1, IdleTypes, Zenon DEF LoopOK, Based
<1>5. /\ UNCHANGED <<entry, saved>> \/ EntryOK'
      /\ UNCHANGED downloads \/ DownloadsOK'
      /\ sweepReq' \in BOOLEAN
  <2>1. CASE \E c \in BOOLEAN : queueDownload([kind |-> "file", stored |-> loop.stored, conflict |-> c], FALSE)
               /\ UNCHANGED entry
    <3>1. PICK c \in BOOLEAN : queueDownload([kind |-> "file", stored |-> loop.stored, conflict |-> c], FALSE)
      BY <2>1, Zenon
    <3>2. [kind |-> "file", stored |-> loop.stored, conflict |-> c] \in DownloadOp
      BY <1>0, Zenon DEF LoopOK, LoopState, DownloadOp
    <3>3. DownloadsOK' /\ sweepReq' \in BOOLEAN
      BY <1>0, <1>2, <3>1, <3>2, QueueDownload, Zenon DEF LoopOK, Based
    <3>4. QED
      BY <1>1, <2>1, <3>3, Zenon
  <2>2. CASE requestFullSweep /\ UNCHANGED <<entry, downloads>>
    BY <1>1, <2>2, Zenon DEF requestFullSweep
  <2>3. CASE /\ entry' = [entry EXCEPT !.ver = nextVersion]
             /\ queueDownload([kind |-> "delete", stored |-> entry', conflict |-> FALSE], FALSE)
    <3>1. entry' \in SyncEntry /\ entry'.hash = entry.hash
      BY <1>0, <1>3, <2>3, Zenon DEF EntryOK, SyncEntry
    <3>2. EntryOK'
      BY <1>0, <1>1, <1>2, <3>1, EntryStep, Zenon DEF EntryOK, Based
    <3>3. [kind |-> "delete", stored |-> entry', conflict |-> FALSE] \in DownloadOp
      BY <3>1, Zenon DEF DownloadOp
    <3>4. DownloadsOK' /\ sweepReq' \in BOOLEAN
      BY <1>0, <1>2, <2>3, <3>1, <3>3, QueueDownload, Zenon DEF EntryOK, Based
    <3>5. QED
      BY <3>2, <3>4, Zenon
  <2>4. CASE UNCHANGED <<entry, downloads, sweepReq>>
    BY <1>0, <1>1, <2>4, Zenon DEF RestOK
  <2>5. detectConflict(loop.stored) \in BOOLEAN
    BY Zenon DEF detectConflict
  <2>6. QED
    BY <2>1, <2>2, <2>3, <2>4, <2>5, Zenon DEF ActRemote
<1>6. RestOK'
  BY <1>0, <1>1, <1>5, Zenon DEF RestOK, events, people
<1>7. QED
  BY <1>1, <1>2, <1>4, <1>5, <1>6, Frame, Zenon DEF people

LEMMA UploadResultStep ==
    ASSUME AgreedInv, handleUploadResult
    PROVE  AgreedInv'
<1>0. ServerOK /\ RestOK /\ EntryOK /\ LoopOK /\ UploadsOK /\ TimersOK /\ UploadResultsOK /\ DownloadsOK
  BY Zenon DEF AgreedInv
<1> DEFINE res == Head(uploadResults)
           op == res.op
<1>1. /\ UNCHANGED <<folder, server, echo, status, saved, events, uploads, downloadResults, timers,
                     up, down, sweep, people>>
      /\ uploadResults # <<>> /\ uploadResults' = Tail(uploadResults)
      /\ finishPendingUpload(op)
  BY Zenon DEF handleUploadResult
<1>2. FolderOK' /\ ServerOK' /\ Grow
  BY <1>1, FolderKept, ServerKept, Zenon DEF Grow
<1>3. nextVersion \in Nat
  BY <1>0, NextVersion, Zenon DEF UploadsOK, TimersOK, UploadResultsOK, DownloadsOK
<1>4. /\ uploadResults' \in Seq(UploadResult) /\ Len(uploadResults') <= QueueCap
      /\ Elems(uploadResults') \subseteq Elems(uploadResults)
      /\ res \in UploadResult /\ res \in Elems(uploadResults)
  BY <1>0, <1>1, ElemsTail, BoundsAssumption, SMTT(60) DEF UploadResultsOK
<1>5. UploadResultsOK'
  BY <1>0, <1>2, <1>4, Zenon DEF UploadResultsOK, AnyOp, Based, Both, Grow
<1>6. /\ AnyOp(op) /\ (res.outcome = "done" /\ op.kind = "file" => op.hash \in published)
      /\ res.rm \in Nat /\ op.stored \in SyncEntry
  BY <1>0, <1>4, Zenon DEF UploadResultsOK, UploadResult, UploadOp, AnyOp
<1>7. pending' \in [count: Nat, rescan: BOOLEAN]
  BY <1>0, <1>1, Zenon DEF finishPendingUpload, RestOK
<1> HIDE DEF res, op
<1>8. /\ UNCHANGED <<entry, saved>> \/ EntryOK'
      /\ UNCHANGED downloads \/ DownloadsOK'
      /\ UNCHANGED loop \/ LoopOK'
      /\ sweepReq' \in BOOLEAN
  <2>1. CASE requestFullSweep /\ UNCHANGED <<entry, downloads, loop>>
    BY <1>1, <2>1, Zenon DEF requestFullSweep
  <2>2. CASE /\ entry' = IF Tombstone(entry) THEN NoEntry ELSE entry
             /\ loop' = [IdleLoop EXCEPT !.pc = "look"]
             /\ UNCHANGED <<downloads, sweepReq>>
    <3>1. entry' \in SyncEntry /\ entry'.hash \in {None, entry.hash}
      BY <1>0, <2>2, NoEntryType, Zenon DEF EntryOK
    <3>2. EntryOK'
      BY <1>0, <1>1, <1>2, <3>1, EntryStep, Zenon DEF EntryOK, Based
    <3>3. loop' \in LoopState /\ loop'.stored = NoEntry
      BY <2>2, NoEntryType, Zenon DEF IdleLoop, LoopState
    <3>4. QED
      BY <1>0, <2>2, <3>2, <3>3, NoEntryType, Zenon DEF LoopOK, Based, RestOK
  <2>3. CASE /\ queueDownload([kind |-> "file", stored |-> op.stored, conflict |-> TRUE], pending.rescan)
             /\ UNCHANGED <<entry, loop>>
    <3>1. [kind |-> "file", stored |-> op.stored, conflict |-> TRUE] \in DownloadOp /\ pending.rescan \in BOOLEAN
      BY <1>0, <1>6, Zenon DEF DownloadOp, RestOK
    <3>2. DownloadsOK' /\ sweepReq' \in BOOLEAN
      BY <1>0, <1>2, <1>6, <2>3, <3>1, QueueDownload, Zenon DEF AnyOp, Based
    <3>3. QED
      BY <1>1, <2>3, <3>2, Zenon
  <2>4. CASE res.outcome = "done" /\ UploadDone(op, res.rm) /\ UNCHANGED <<downloads, loop>>
    <3>1. CASE /\ op.kind = "file"
               /\ entry' = [hash |-> op.hash, lm |-> IF res.rm = 0 THEN None ELSE op.hash, rm |-> res.rm,
                            ver |-> nextVersion, deleted |-> FALSE]
               /\ sweepReq' = (sweepReq \/ pending.rescan)
      <4>1. entry' \in SyncEntry /\ entry'.hash = op.hash
        BY <1>3, <1>6, <3>1, Zenon DEF SyncEntry, AnyOp, UploadOp, Maybe
      <4>2. op.hash \in Both \cup {None}
        BY <1>6, <2>4, <3>1, Zenon DEF AnyOp, Both
      <4>3. EntryOK'
        BY <1>0, <1>1, <1>2, <4>1, <4>2, EntryStep, Zenon
      <4>4. QED
        BY <1>0, <2>4, <3>1, <4>3, Zenon DEF RestOK
    <3>2. CASE /\ entry' = IF Tombstone(entry) /\ entry.ver = op.ver THEN NoEntry ELSE entry
               /\ requestFullSweep
      <4>1. entry' \in SyncEntry /\ entry'.hash \in {None, entry.hash}
        BY <1>0, <3>2, NoEntryType, Zenon DEF EntryOK
      <4>2. EntryOK'
        BY <1>0, <1>1, <1>2, <4>1, EntryStep, Zenon DEF EntryOK, Based
      <4>3. QED
        BY <2>4, <3>2, <4>2, Zenon DEF requestFullSweep
    <3>3. QED
      BY <2>4, <3>1, <3>2, Zenon DEF UploadDone
  <2>5. QED
    BY <2>1, <2>2, <2>3, <2>4, Zenon DEF handleUploadResult, res, op
<1>9. RestOK'
  BY <1>0, <1>1, <1>7, <1>8, Zenon DEF RestOK, events, people
<1>10. QED
  BY <1>1, <1>2, <1>5, <1>8, <1>9, Frame, Zenon DEF people

LEMMA DownloadResultStep ==
    ASSUME AgreedInv, handleDownloadResult
    PROVE  AgreedInv'
<1>0. /\ FolderOK /\ ServerOK /\ RestOK /\ EntryOK /\ UploadsOK /\ TimersOK /\ UploadResultsOK /\ DownloadsOK
      /\ DownloadResultsOK
  BY Zenon DEF AgreedInv
<1> DEFINE res == Head(downloadResults)
           file == res.outcome = "done" /\ res.kind = "file"
<1>1. /\ UNCHANGED <<server, pending, echo, status, saved, localEvents, remoteEvents, uploads,
                     uploadResults, downloads, timers, loop, up, down, sweep, people>>
      /\ downloadResults # <<>> /\ downloadResults' = Tail(downloadResults)
      /\ sweepReq' = (sweepReq \/ res.copy \/ res.outcome = "skipped" \/ (file /\ Tombstone(entry)))
      /\ \/ ~file /\ UNCHANGED <<folder, watch, entry>>
         \/ /\ file /\ Tombstone(entry)
            /\ IF localCandidateUnchanged(res) THEN Local(None) ELSE UNCHANGED <<local, seen, watch>>
            /\ UNCHANGED <<copies, entry>>
         \/ /\ file /\ ~Tombstone(entry)
            /\ entry' = [hash |-> res.hash, lm |-> res.lm, rm |-> res.rm,
                         ver |-> nextVersion, deleted |-> FALSE]
            /\ UNCHANGED <<folder, watch>>
  BY Zenon DEF handleDownloadResult
<1>2. nextVersion \in Nat
  BY <1>0, NextVersion, Zenon DEF UploadsOK, TimersOK, UploadResultsOK, DownloadsOK
<1>3. /\ downloadResults' \in Seq(DownloadResult) /\ Len(downloadResults') <= QueueCap
      /\ Elems(downloadResults') \subseteq Elems(downloadResults)
      /\ res \in DownloadResult /\ res \in Elems(downloadResults)
  BY <1>0, <1>1, ElemsTail, BoundsAssumption, SMTT(60) DEF DownloadResultsOK
<1>4. file => res.hash \in Both
  BY <1>0, <1>3, Zenon DEF DownloadResultsOK
<1>5. FolderOK' /\ seen \subseteq seen' /\ watch' \in BOOLEAN
  <2>1. CASE Local(None) /\ UNCHANGED copies
    BY <1>0, <2>1, LocalStep, Zenon DEF FolderOK, Maybe
  <2>2. CASE UNCHANGED <<folder, watch>>
    BY <1>0, <2>2, FolderKept, Zenon DEF RestOK
  <2>3. QED
    BY <1>1, <2>1, <2>2, Zenon DEF folder
<1>6. ServerOK' /\ Grow
  BY <1>1, <1>5, ServerKept, Zenon DEF Grow
<1>7. DownloadResultsOK'
  BY <1>0, <1>3, <1>6, Zenon DEF DownloadResultsOK, Both, Grow
<1>8. UNCHANGED <<entry, saved>> \/ EntryOK'
  <2>1. CASE /\ file
             /\ entry' = [hash |-> res.hash, lm |-> res.lm, rm |-> res.rm, ver |-> nextVersion, deleted |-> FALSE]
    <3>1. entry' \in SyncEntry /\ entry'.hash = res.hash
      BY <1>2, <1>3, <2>1, Zenon DEF SyncEntry, DownloadResult
    <3>2. QED
      BY <1>0, <1>1, <1>4, <1>6, <2>1, <3>1, EntryStep, Zenon
  <2>2. QED
    BY <1>1, <2>1, Zenon
<1>9. sweepReq' \in BOOLEAN
  BY <1>0, <1>1, <1>3, Zenon DEF RestOK, DownloadResult
<1>10. RestOK'
  BY <1>0, <1>1, <1>5, <1>9, Zenon DEF RestOK, people
<1>11. QED
  BY <1>1, <1>5, <1>6, <1>7, <1>8, <1>10, Frame, Zenon DEF people

-----------------------------------------------------------------------------
(* The uploader.                                                           *)

LEMMA SendStep ==
    ASSUME AgreedInv, Grow, NEW o, AnyOp(o), NEW outcome \in Outcome, NEW rm \in Nat, send(o, outcome, rm),
           outcome = "done" /\ o.kind = "file" => o.hash \in published
    PROVE  UploadResultsOK' /\ UpOK'
<1> DEFINE sent == IF outcome \in {"skipped", "error"} THEN [NoUpload EXCEPT !.kind = o.kind] ELSE o
           res == [op |-> sent, outcome |-> outcome, rm |-> rm]
<1>0. UploadResultsOK /\ o \in UploadOp
  BY Zenon DEF AgreedInv, AnyOp
<1>1. /\ uploadResults' = Append(uploadResults, res) /\ up' = IdleUp
      /\ Len(uploadResults) < QueueCap
  BY Zenon DEF send, Room
<1>2. sent \in UploadOp /\ AnyOp(sent) /\ (outcome = "done" => sent = o)
  <2>1. [NoUpload EXCEPT !.kind = o.kind] \in UploadOp
    BY <1>0, NoEntryType, Zenon DEF NoUpload, UploadOp, Maybe
  <2>2. AnyOp([NoUpload EXCEPT !.kind = o.kind])
    BY <2>1, NoEntryType, Zenon DEF NoUpload, AnyOp, Based
  <2>3. QED
    BY <1>0, <2>1, <2>2, Zenon
<1> HIDE DEF sent
<1>3. res \in UploadResult
  BY <1>2, Zenon DEF UploadResult
<1>4. /\ uploadResults' \in Seq(UploadResult) /\ Len(uploadResults') <= QueueCap
      /\ Elems(uploadResults') = Elems(uploadResults) \cup {res}
  BY <1>0, <1>1, <1>3, ElemsAppend, BoundsAssumption, SMTT(60) DEF UploadResultsOK
<1>5. \A r \in Elems(uploadResults') :
         AnyOp(r.op) /\ (r.outcome = "done" /\ r.op.kind = "file" => r.op.hash \in published)
  BY <1>0, <1>2, <1>4, SMTT(60) DEF UploadResultsOK
<1>6. UploadResultsOK'
  BY <1>4, <1>5, Zenon DEF UploadResultsOK, AnyOp, Based, Both, Grow
<1>7. UpOK'
  BY <1>1, IdleTypes, NoEntryType, Zenon DEF UpOK, AnyOp, Based, IdleUp, NoUpload, UpState
<1>8. QED
  BY <1>6, <1>7, Zenon

(* A good operation in hand, at a later step of its own.                   *)
LEMMA UpStep ==
    ASSUME AgreedInv, Grow, up' \in UpState, GoodOp(up'.op),
           up'.pc \in {"match", "finish"} => up'.op.kind = "file" /\ up'.op.hash \in published'
    PROVE  UpOK'
BY Zenon DEF UpOK, GoodOp, AnyOp, Based, Both, Grow

(* What the uploader leaves alone.                                         *)
LEMMA UploaderFrame ==
    ASSUME AgreedInv, UNCHANGED uploaderFrame, published \subseteq published', ServerOK',
           UNCHANGED uploads \/ UploadsOK',
           UNCHANGED uploadResults \/ UploadResultsOK',
           UpOK', UNCHANGED tally \/ TallyOK'
    PROVE  AgreedInv'
<1>1. FolderOK' /\ Grow
  BY FolderKept, Zenon DEF uploaderFrame, Grow
<1>2. RestOK'
  BY Zenon DEF AgreedInv, RestOK, uploaderFrame, daemon, events
<1>3. QED
  BY <1>1, <1>2, Frame, Zenon DEF uploaderFrame, daemon

LEMMA TakeUploadStep ==
    ASSUME AgreedInv, TakeUpload
    PROVE  AgreedInv'
<1>0. UploadsOK /\ ServerOK /\ uploads # <<>>
  BY Zenon DEF AgreedInv, TakeUpload
<1> DEFINE op == Head(uploads)
<1>1. UNCHANGED <<uploaderFrame, server, tally>> /\ uploads' = Tail(uploads)
  BY Zenon DEF TakeUpload
<1>2. Grow /\ ServerOK'
  BY <1>1, ServerKept, FolderKept, Zenon DEF Grow, uploaderFrame
<1>3. /\ uploads' \in Seq(UploadOp) /\ Len(uploads') <= QueueCap
      /\ Elems(uploads') \subseteq Elems(uploads) /\ op \in Elems(uploads)
  BY <1>0, <1>1, ElemsTail, BoundsAssumption, SMTT(60) DEF UploadsOK
<1>4. UploadsOK'
  BY <1>0, <1>2, <1>3, Zenon DEF UploadsOK, GoodOp, AnyOp, Based, Both, Grow
<1>5. GoodOp(op)
  BY <1>0, <1>3, Zenon DEF UploadsOK
<1>6. Stat \in Nat
  BY <1>0, StatType, Zenon
<1> HIDE DEF op
<1>7. (UNCHANGED uploadResults \/ UploadResultsOK') /\ UpOK'
  <2>1. CASE send(op, "skipped", 0) \/ send(op, "conflict", Stat)
    BY <1>2, <1>5, <1>6, <2>1, SendStep, Zenon DEF GoodOp, Outcome
  <2>2. CASE /\ up' = [pc |-> IF op.kind = "file" /\ remote.data = op.hash THEN "match" ELSE "publish",
                       op |-> op, rm |-> Stat]
             /\ UNCHANGED uploadResults
    <3>1. up' \in UpState /\ up'.op = op /\ up'.pc \in {"match", "publish"}
      BY <1>5, <1>6, <2>2, Zenon DEF UpState, GoodOp, AnyOp
    <3>2. up'.pc = "match" => op.kind = "file" /\ op.hash \in published
      BY <1>0, <1>5, <2>2, Zenon DEF GoodOp, ServerOK
    <3>3. QED
      BY <1>2, <1>5, <2>2, <3>1, <3>2, UpStep, Zenon DEF Grow
  <2>3. QED
    BY <2>1, <2>2, Zenon DEF TakeUpload, op
<1>8. QED
  BY <1>1, <1>2, <1>4, <1>7, UploaderFrame, Zenon DEF Grow

LEMMA MatchStep ==
    ASSUME AgreedInv, Match
    PROVE  AgreedInv'
<1>0. UpOK /\ up.pc = "match" /\ UNCHANGED <<uploaderFrame, server, uploads, tally>>
  BY Zenon DEF AgreedInv, Match
<1>1. Grow /\ ServerOK'
  BY <1>0, ServerKept, FolderKept, Zenon DEF Grow, uploaderFrame
<1>2. (UNCHANGED uploadResults \/ UploadResultsOK') /\ UpOK'
  <2>1. CASE send(up.op, "skipped", 0)
    BY <1>0, <1>1, <2>1, SendStep, Zenon DEF UpOK, Outcome
  <2>2. CASE up' = [up EXCEPT !.pc = "finish"] /\ UNCHANGED uploadResults
    <3>1. up' \in UpState /\ up'.op = up.op
      BY <1>0, <2>2, Zenon DEF UpOK, UpState
    <3>2. QED
      BY <1>0, <1>1, <2>2, <3>1, UpStep, Zenon DEF UpOK, Grow
  <2>3. QED
    BY <2>1, <2>2, Zenon DEF Match
<1>3. QED
  BY <1>0, <1>1, <1>2, UploaderFrame, Zenon DEF Grow

LEMMA PublishFileStep ==
    ASSUME AgreedInv, PublishFile
    PROVE  AgreedInv'
<1>0. UpOK /\ ServerOK /\ up.pc = "publish" /\ up.op.kind = "file" /\ UNCHANGED <<uploaderFrame, uploads, tally>>
  BY Zenon DEF AgreedInv, PublishFile
<1>1. CASE send(up.op, "conflict", 0) /\ UNCHANGED server
  <2>1. Grow /\ ServerOK'
    BY <1>0, <1>1, ServerKept, FolderKept, Zenon DEF Grow, uploaderFrame
  <2>2. UploadResultsOK' /\ UpOK'
    BY <1>0, <1>1, <2>1, SendStep, Zenon DEF UpOK, Outcome
  <2>3. QED
    BY <1>0, <2>1, <2>2, UploaderFrame, Zenon DEF Grow
<1>2. CASE Publish(up.op.hash) /\ up' = [up EXCEPT !.pc = "finish"] /\ UNCHANGED uploadResults
  <2>1. up.op.hash \in Version
    BY <1>0, Zenon DEF UpOK, GoodOp, AnyOp, UploadOp, Maybe
  <2>2. ServerOK' /\ Grow /\ up.op.hash \in published'
    BY <1>0, <1>2, <2>1, PublishStep, FolderKept, Zenon DEF Grow, uploaderFrame
  <2>3. up' \in UpState /\ up'.op = up.op
    BY <1>0, <1>2, Zenon DEF UpOK, UpState
  <2>4. UpOK'
    BY <1>0, <2>2, <2>3, UpStep, Zenon DEF UpOK
  <2>5. QED
    BY <1>0, <1>2, <2>2, <2>4, UploaderFrame, Zenon DEF Grow
<1>3. QED
  BY <1>1, <1>2, Zenon DEF PublishFile

LEMMA PublishDeleteStep ==
    ASSUME AgreedInv, PublishDelete
    PROVE  AgreedInv'
<1>0. /\ UpOK /\ ServerOK /\ up.pc = "publish" /\ up.op.kind = "delete"
      /\ UNCHANGED <<uploaderFrame, published, uploads, tally>>
  BY Zenon DEF AgreedInv, PublishDelete
<1>1. remote' = remote \/ remote' = [remote EXCEPT !.data = None]
  BY Zenon DEF PublishDelete
<1>2. ServerOK' /\ Grow
  BY <1>0, <1>1, FolderKept, Zenon DEF ServerOK, Maybe, Grow, uploaderFrame
<1>3. UploadResultsOK' /\ UpOK'
  BY <1>0, <1>2, SendStep, Zenon DEF UpOK, PublishDelete, Outcome
<1>4. QED
  BY <1>0, <1>2, <1>3, UploaderFrame, Zenon DEF Grow

LEMMA FinishUploadStep ==
    ASSUME AgreedInv, FinishUpload
    PROVE  AgreedInv'
<1>0. UpOK /\ ServerOK /\ up.pc = "finish" /\ UNCHANGED <<uploaderFrame, server, uploads, tally>>
  BY Zenon DEF AgreedInv, FinishUpload
<1>1. Grow /\ ServerOK'
  BY <1>0, ServerKept, FolderKept, Zenon DEF Grow, uploaderFrame
<1>2. UploadResultsOK' /\ UpOK'
  BY <1>0, <1>1, SendStep, StatType, Zenon DEF UpOK, FinishUpload, Outcome
<1>3. QED
  BY <1>0, <1>1, <1>2, UploaderFrame, Zenon DEF Grow

LEMMA UploadFailsStep ==
    ASSUME AgreedInv, UploadFails
    PROVE  AgreedInv'
<1>0. UpOK /\ UploadsOK /\ TallyOK /\ UNCHANGED <<uploaderFrame, server>>
  BY Zenon DEF AgreedInv, UploadFails
<1>1. Grow /\ ServerOK'
  BY <1>0, ServerKept, FolderKept, Zenon DEF Grow, uploaderFrame
<1>2. TallyOK'
  BY <1>0, FaultTally, Zenon DEF UploadFails
<1>3. CASE uploads # <<>> /\ uploads' = Tail(uploads) /\ send(Head(uploads), "error", 0)
  <2>1. /\ uploads' \in Seq(UploadOp) /\ Len(uploads') <= QueueCap
        /\ Elems(uploads') \subseteq Elems(uploads) /\ Head(uploads) \in Elems(uploads)
    BY <1>0, <1>3, ElemsTail, BoundsAssumption, SMTT(60) DEF UploadsOK
  <2>2. UploadsOK'
    BY <1>0, <1>1, <2>1, Zenon DEF UploadsOK, GoodOp, AnyOp, Based, Both, Grow
  <2>3. UploadResultsOK' /\ UpOK'
    BY <1>0, <1>1, <1>3, <2>1, SendStep, Zenon DEF UploadsOK, GoodOp, Outcome
  <2>4. QED
    BY <1>0, <1>1, <1>2, <2>2, <2>3, UploaderFrame, Zenon DEF Grow
<1>4. CASE send(up.op, "error", 0) /\ UNCHANGED uploads
  <2>1. UploadResultsOK' /\ UpOK'
    BY <1>0, <1>1, <1>4, SendStep, Zenon DEF UpOK, Outcome
  <2>2. QED
    BY <1>0, <1>1, <1>2, <1>4, <2>1, UploaderFrame, Zenon DEF Grow
<1>5. QED
  BY <1>3, <1>4, Zenon DEF UploadFails

-----------------------------------------------------------------------------
(* The downloader.                                                         *)

LEMMA DownloadedStep ==
    ASSUME AgreedInv, Grow, NEW outcome \in Outcome, NEW lm \in Maybe, NEW copy \in BOOLEAN,
           Downloaded(outcome, lm, copy),
           outcome = "done" /\ down.op.kind = "file" => down.hash \in Both
    PROVE  DownloadResultsOK' /\ DownOK'
<1> DEFINE res == [kind |-> down.op.kind, outcome |-> outcome, lm |-> lm, copy |-> copy,
                   hash |-> IF outcome = "done" THEN down.hash ELSE None,
                   rm |-> IF outcome = "done" THEN down.rm ELSE 0]
<1>0. DownloadResultsOK /\ DownOK
  BY Zenon DEF AgreedInv
<1>1. downloadResults' = Append(downloadResults, res) /\ Len(downloadResults) < QueueCap /\ down' = IdleDown
  BY Zenon DEF Downloaded, Room
<1>2. res \in DownloadResult
  <2>1. down.op.kind \in {"file", "delete"} /\ down.hash \in Maybe /\ down.rm \in Nat
    BY <1>0, Zenon DEF DownOK, DownState, DownloadOp
  <2>2. QED
    BY <2>1, Zenon DEF DownloadResult, Maybe
<1>3. /\ downloadResults' \in Seq(DownloadResult) /\ Len(downloadResults') <= QueueCap
      /\ Elems(downloadResults') = Elems(downloadResults) \cup {res}
  BY <1>0, <1>1, <1>2, ElemsAppend, BoundsAssumption, SMTT(60) DEF DownloadResultsOK
<1>4. \A r \in Elems(downloadResults') : r.outcome = "done" /\ r.kind = "file" => r.hash \in Both
  BY <1>0, <1>3, SMTT(60) DEF DownloadResultsOK
<1>5. DownloadResultsOK'
  BY <1>3, <1>4, Zenon DEF DownloadResultsOK, Both, Grow
<1>6. DownOK'
  BY <1>1, IdleTypes, Zenon DEF DownOK, Based
<1>7. QED
  BY <1>5, <1>6, Zenon

LEMMA NothingDownloaded ==
    ASSUME AgreedInv, Grow, Downloaded("skipped", None, FALSE) \/ Downloaded("error", None, FALSE)
    PROVE  DownloadResultsOK' /\ DownOK'
<1>1. "skipped" \in Outcome /\ "error" \in Outcome /\ None \in Maybe /\ FALSE \in BOOLEAN
  BY Zenon DEF Outcome, Maybe
<1>2. CASE Downloaded("skipped", None, FALSE)
  BY <1>1, <1>2, DownloadedStep, Zenon
<1>3. CASE Downloaded("error", None, FALSE)
  BY <1>1, <1>3, DownloadedStep, Zenon
<1>4. QED
  BY <1>2, <1>3, Zenon

(* What the downloader leaves alone.                                       *)
LEMMA DownloaderFrame ==
    ASSUME AgreedInv, UNCHANGED downloaderFrame,
           FolderOK', seen \subseteq seen', watch' \in BOOLEAN,
           echo' \in [kind: {"none", "file", "delete"}, hash: Maybe],
           UNCHANGED entry \/ EntryOK',
           UNCHANGED downloads \/ DownloadsOK',
           UNCHANGED downloadResults \/ DownloadResultsOK',
           DownOK', UNCHANGED tally \/ TallyOK'
    PROVE  AgreedInv'
<1>1. ServerOK' /\ Grow
  BY ServerKept, Zenon DEF downloaderFrame, Grow
<1>2. RestOK'
  BY Zenon DEF AgreedInv, RestOK, downloaderFrame
<1>3. QED
  BY <1>1, <1>2, Frame, Zenon DEF downloaderFrame

(* The steps that only look.                                               *)
LEMMA DownloaderLooks ==
    ASSUME AgreedInv, UNCHANGED <<downloaderFrame, folder, watch, entry, echo>>,
           UNCHANGED downloads \/ DownloadsOK',
           UNCHANGED downloadResults \/ DownloadResultsOK',
           DownOK', UNCHANGED tally \/ TallyOK'
    PROVE  AgreedInv'
<1>1. FolderOK' /\ seen \subseteq seen'
  BY FolderKept, Zenon
<1>2. watch' \in BOOLEAN /\ echo' \in [kind: {"none", "file", "delete"}, hash: Maybe]
  BY Zenon DEF AgreedInv, RestOK
<1>3. QED
  BY <1>1, <1>2, DownloaderFrame, Zenon

LEMMA LookingGrows ==
    ASSUME AgreedInv, UNCHANGED <<downloaderFrame, folder>>
    PROVE  Grow /\ local' = local /\ UNCHANGED server
BY Zenon DEF Grow, downloaderFrame, folder, server

LEMMA TakeDownloadStep ==
    ASSUME AgreedInv, TakeDownload
    PROVE  AgreedInv'
<1>0. DownloadsOK /\ FolderOK /\ downloads # <<>> /\ downloads' = Tail(downloads)
  BY Zenon DEF AgreedInv, TakeDownload
<1>1. UNCHANGED <<downloaderFrame, folder, watch, entry, echo, downloadResults, tally>>
  BY Zenon DEF TakeDownload
<1>2. Grow
  BY <1>1, LookingGrows, Zenon
<1>3. /\ downloads' \in Seq(DownloadOp) /\ Len(downloads') <= QueueCap
      /\ Elems(downloads') \subseteq Elems(downloads)
      /\ Head(downloads) \in Elems(downloads) /\ Head(downloads) \in DownloadOp
  BY <1>0, ElemsTail, BoundsAssumption, SMTT(60) DEF DownloadsOK
<1>4. DownloadsOK'
  BY <1>0, <1>2, <1>3, Zenon DEF DownloadsOK, Based, Both, Grow
<1>5. /\ down' \in DownState /\ down'.op = Head(downloads) /\ down'.pc \in {"stat", "confirm"}
      /\ down'.pc = "confirm" => down'.op.kind = "delete"
  <2>1. down' = [IdleDown EXCEPT !.op = Head(downloads), !.snap = local,
                   !.pc = IF Head(downloads).kind = "file" THEN "stat" ELSE "confirm"]
    BY Zenon DEF TakeDownload
  <2>2. local \in Maybe /\ Head(downloads).kind \in {"file", "delete"}
    BY <1>0, <1>3, Zenon DEF FolderOK, DownloadOp
  <2>3. QED
    BY <1>3, <2>1, <2>2, IdleTypes, Zenon DEF DownState, IdleDown
<1>6. DownOK'
  BY <1>0, <1>2, <1>3, <1>5, Zenon DEF DownOK, DownloadsOK, Based, Both, Grow
<1>7. QED
  BY <1>1, <1>4, <1>6, DownloaderLooks, Zenon

LEMMA DownloadStatStep ==
    ASSUME AgreedInv, DownloadStat
    PROVE  AgreedInv'
<1>0. DownOK /\ ServerOK /\ down.pc = "stat"
  BY Zenon DEF AgreedInv, DownloadStat
<1>1. UNCHANGED <<downloaderFrame, folder, watch, entry, echo, downloads, tally>>
  BY Zenon DEF DownloadStat
<1>2. Grow /\ Stat \in Nat
  BY <1>0, <1>1, LookingGrows, StatType, Zenon
<1>3. CASE down' = [down EXCEPT !.pc = "cat", !.rm = Stat] /\ UNCHANGED downloadResults
  <2>1. down' \in DownState /\ down'.op = down.op /\ down'.pc = "cat"
    BY <1>0, <1>2, <1>3, Zenon DEF DownOK, DownState
  <2>2. DownOK'
    BY <1>0, <1>2, <2>1, Zenon DEF DownOK, Based, Both, Grow
  <2>3. QED
    BY <1>1, <1>3, <2>2, DownloaderLooks, Zenon
<1>4. CASE down' = [down EXCEPT !.pc = "confirm", !.op.kind = "delete"] /\ UNCHANGED downloadResults
  <2>1. down.op \in DownloadOp
    BY <1>0, Zenon DEF DownOK, DownState
  <2>2. [down.op EXCEPT !.kind = "delete"] \in DownloadOp
    BY <2>1, Zenon DEF DownloadOp
  <2>3. down' = [down EXCEPT !.pc = "confirm", !.op = [down.op EXCEPT !.kind = "delete"]]
    BY <1>0, <1>4, Zenon DEF DownOK, DownState, DownloadOp
  <2>4. /\ down' \in DownState /\ down'.op.stored = down.op.stored /\ down'.op.kind = "delete"
        /\ down'.pc = "confirm"
    BY <1>0, <2>1, <2>2, <2>3, Zenon DEF DownOK, DownState, DownloadOp
  <2>5. DownOK'
    BY <1>0, <1>2, <2>4, Zenon DEF DownOK, Based, Both, Grow
  <2>6. QED
    BY <1>1, <1>4, <2>5, DownloaderLooks, Zenon
<1>5. CASE Downloaded("skipped", None, FALSE)
  <2>1. DownloadResultsOK' /\ DownOK'
    BY <1>2, <1>5, NothingDownloaded, Zenon
  <2>2. QED
    BY <1>1, <2>1, DownloaderLooks, Zenon
<1>6. QED
  BY <1>3, <1>4, <1>5, Zenon DEF DownloadStat

LEMMA DownloadCatStep ==
    ASSUME AgreedInv, DownloadCat
    PROVE  AgreedInv'
<1>0. DownOK /\ ServerOK /\ FolderOK /\ down.pc = "cat"
  BY Zenon DEF AgreedInv, DownloadCat
<1>1. UNCHANGED <<downloaderFrame, folder, watch, entry, echo, downloads, tally>>
  BY Zenon DEF DownloadCat
<1>2. Grow
  BY <1>1, LookingGrows, Zenon
<1>3. CASE Downloaded("error", None, FALSE) \/ Downloaded("skipped", None, FALSE)
  <2>1. DownloadResultsOK' /\ DownOK'
    BY <1>2, <1>3, NothingDownloaded, Zenon
  <2>2. QED
    BY <1>1, <2>1, DownloaderLooks, Zenon
<1>4. CASE /\ remote.data # None /\ UNCHANGED downloadResults
           /\ down' = [down EXCEPT !.hash = remote.data,
                             !.pc = IF local = remote.data THEN "record" ELSE "stage"]
  <2>1. /\ down' \in DownState /\ down'.op = down.op /\ down'.hash = remote.data
        /\ down'.pc = IF local = remote.data THEN "record" ELSE "stage"
    BY <1>0, <1>4, Zenon DEF DownOK, DownState, ServerOK
  <2>2. remote.data \in published /\ (local = remote.data => remote.data \in Both)
    BY <1>0, <1>4, Zenon DEF ServerOK, FolderOK, Both
  <2>3. DownOK'
    BY <1>0, <1>2, <2>1, <2>2, Zenon DEF DownOK, Based, Both, Grow
  <2>4. QED
    BY <1>1, <1>4, <2>3, DownloaderLooks, Zenon
<1>5. QED
  BY <1>3, <1>4, Zenon DEF DownloadCat

LEMMA StageDownloadStep ==
    ASSUME AgreedInv, StageDownload
    PROVE  AgreedInv'
<1>0. DownOK /\ FolderOK /\ down.pc = "stage" /\ down' = [down EXCEPT !.pc = "commit", !.snap = local]
  BY Zenon DEF AgreedInv, StageDownload
<1>1. UNCHANGED <<downloaderFrame, folder, watch, entry, echo, downloads, downloadResults, tally>>
  BY Zenon DEF StageDownload
<1>2. Grow
  BY <1>1, LookingGrows, Zenon
<1>3. down' \in DownState /\ down'.op = down.op /\ down'.hash = down.hash /\ down'.pc = "commit"
  BY <1>0, Zenon DEF DownOK, DownState, FolderOK
<1>4. DownOK'
  BY <1>0, <1>2, <1>3, Zenon DEF DownOK, Based, Both, Grow
<1>5. QED
  BY <1>1, <1>4, DownloaderLooks, Zenon

LEMMA CommitDownloadStep ==
    ASSUME AgreedInv, CommitDownload
    PROVE  AgreedInv'
<1>0. DownOK /\ FolderOK /\ ServerOK /\ RestOK /\ down.pc = "commit"
  BY Zenon DEF AgreedInv, CommitDownload
<1>1. UNCHANGED <<downloaderFrame, entry, echo, downloads, tally>>
  BY Zenon DEF CommitDownload
<1>2. CASE Downloaded("skipped", None, FALSE) /\ UNCHANGED <<folder, watch>>
  <2>1. Grow
    BY <1>1, <1>2, LookingGrows, Zenon
  <2>2. DownloadResultsOK' /\ DownOK'
    BY <1>2, <2>1, NothingDownloaded, Zenon
  <2>3. QED
    BY <1>1, <1>2, <2>2, DownloaderLooks, Zenon
<1>3. CASE /\ Replace(down.hash, down.op.conflict) /\ UNCHANGED downloadResults
           /\ down' = [down EXCEPT !.pc = "mark", !.copy = down.op.conflict /\ local # None]
  <2>1. down.hash \in published /\ down.hash \in Maybe /\ down.hash # None
    <3>1. down.hash \in published /\ down.hash \in Maybe
      BY <1>0, Zenon DEF DownOK, DownState
    <3>2. QED
      BY <1>0, <3>1, VersionType, Zenon DEF ServerOK
  <2>2. FolderOK' /\ seen \subseteq seen' /\ watch' \in BOOLEAN /\ down.hash \in seen'
    BY <1>0, <1>3, <2>1, ReplaceStep, Zenon
  <2>3. (down.op.conflict /\ local # None) \in BOOLEAN
    BY <1>0, Zenon DEF DownOK, DownState, DownloadOp
  <2>4. down' \in DownState /\ down'.op = down.op /\ down'.hash = down.hash /\ down'.pc = "mark"
    BY <1>0, <1>3, <2>3, Zenon DEF DownOK, DownState
  <2>5. Grow /\ published' = published
    BY <1>1, <2>2, Zenon DEF Grow, downloaderFrame, server
  <2>6. DownOK'
    BY <1>0, <2>1, <2>2, <2>4, <2>5, Zenon DEF DownOK, Based, Both, Grow
  <2>7. echo' \in [kind: {"none", "file", "delete"}, hash: Maybe]
    BY <1>0, <1>1, Zenon DEF RestOK
  <2>8. QED
    BY <1>1, <1>3, <2>2, <2>6, <2>7, DownloaderFrame, Zenon
<1>4. QED
  BY <1>2, <1>3, Zenon DEF CommitDownload

LEMMA RecordDownloadStep ==
    ASSUME AgreedInv, RecordDownload
    PROVE  AgreedInv'
<1>0. DownOK /\ FolderOK /\ RestOK /\ down.pc \in {"mark", "record"}
  BY Zenon DEF AgreedInv, RecordDownload
<1>1. UNCHANGED <<downloaderFrame, folder, watch, entry, downloads, tally>>
  BY Zenon DEF RecordDownload
<1>2. Grow
  BY <1>1, LookingGrows, Zenon
<1>3. down.hash \in Both /\ down.hash \in Maybe /\ down.copy \in BOOLEAN
  BY <1>0, Zenon DEF DownOK, DownState
<1>4. DownloadResultsOK' /\ DownOK'
  BY <1>0, <1>2, <1>3, DownloadedStep, Zenon DEF RecordDownload, Outcome, FolderOK
<1>5. echo' \in [kind: {"none", "file", "delete"}, hash: Maybe]
  BY <1>0, <1>3, Zenon DEF RecordDownload, RestOK, FileEcho
<1>6. FolderOK' /\ seen \subseteq seen' /\ watch' \in BOOLEAN
  BY <1>0, <1>1, FolderKept, Zenon DEF RestOK
<1>7. QED
  BY <1>1, <1>4, <1>5, <1>6, DownloaderFrame, Zenon

LEMMA ConfirmDeleteStep ==
    ASSUME AgreedInv, ConfirmDelete
    PROVE  AgreedInv'
<1>0. DownOK /\ down.pc = "confirm"
  BY Zenon DEF AgreedInv, ConfirmDelete
<1>1. UNCHANGED <<downloaderFrame, folder, watch, entry, echo, downloads, tally>>
  BY Zenon DEF ConfirmDelete
<1>2. Grow
  BY <1>1, LookingGrows, Zenon
<1>3. CASE Downloaded("skipped", None, FALSE)
  <2>1. DownloadResultsOK' /\ DownOK'
    BY <1>2, <1>3, NothingDownloaded, Zenon
  <2>2. QED
    BY <1>1, <2>1, DownloaderLooks, Zenon
<1>4. CASE down' = [down EXCEPT !.pc = "remove"] /\ UNCHANGED downloadResults
  <2>1. down' \in DownState /\ down'.op = down.op /\ down'.pc = "remove"
    BY <1>0, <1>4, Zenon DEF DownOK, DownState
  <2>2. DownOK'
    BY <1>0, <1>2, <2>1, Zenon DEF DownOK, Based, Both, Grow
  <2>3. QED
    BY <1>1, <1>4, <2>2, DownloaderLooks, Zenon
<1>5. QED
  BY <1>3, <1>4, Zenon DEF ConfirmDelete

LEMMA DeleteLocalStep ==
    ASSUME AgreedInv, DeleteLocal
    PROVE  AgreedInv'
<1>0. DownOK /\ FolderOK /\ RestOK /\ EntryOK /\ down.pc = "remove"
  BY Zenon DEF AgreedInv, DeleteLocal
<1>1. UNCHANGED <<downloaderFrame, downloads, tally>>
  BY Zenon DEF DeleteLocal
<1>2. CASE Downloaded("skipped", None, FALSE) /\ UNCHANGED <<folder, watch, entry, echo>>
  <2>1. Grow
    BY <1>1, <1>2, LookingGrows, Zenon
  <2>2. DownloadResultsOK' /\ DownOK'
    BY <1>2, <2>1, NothingDownloaded, Zenon
  <2>3. QED
    BY <1>1, <1>2, <2>2, DownloaderLooks, Zenon
<1>3. CASE RemoveLocal(down.op.stored) /\ Downloaded("done", None, Changed(down.op.stored))
  <2>1. /\ FolderOK' /\ seen \subseteq seen' /\ watch' \in BOOLEAN /\ entry' = NoEntry
        /\ echo' \in [kind: {"none", "file", "delete"}, hash: Maybe]
    BY <1>0, <1>1, <1>3, RemoveStep, Zenon DEF downloaderFrame
  <2>2. Grow
    BY <1>1, <2>1, Zenon DEF Grow, downloaderFrame, server
  <2>3. Changed(down.op.stored) \in BOOLEAN
    BY Zenon DEF Changed
  <2>4. DownloadResultsOK' /\ DownOK'
    BY <1>0, <1>3, <2>2, <2>3, DownloadedStep, Zenon DEF DownOK, Outcome, Maybe
  <2>5. EntryOK'
    BY <1>0, <1>1, <2>1, <2>2, EntryStep, NoEntryType, Zenon DEF downloaderFrame
  <2>6. QED
    BY <1>1, <2>1, <2>4, <2>5, DownloaderFrame, Zenon
<1>4. QED
  BY <1>2, <1>3, Zenon DEF DeleteLocal

LEMMA DownloadFailsStep ==
    ASSUME AgreedInv, DownloadFails
    PROVE  AgreedInv'
<1>1. UNCHANGED <<downloaderFrame, folder, watch, entry, echo, downloads>>
  BY Zenon DEF DownloadFails
<1>2. Grow
  BY <1>1, LookingGrows, Zenon
<1>3. DownloadResultsOK' /\ DownOK'
  BY <1>2, NothingDownloaded, Zenon DEF DownloadFails
<1>4. TallyOK'
  BY FaultTally, Zenon DEF AgreedInv, DownloadFails
<1>5. QED
  BY <1>1, <1>3, <1>4, DownloaderLooks, Zenon

-----------------------------------------------------------------------------
(* The full sweep.                                                         *)

SweepPc == {"idle", "offline", "remote", "plan", "upload", "echo", "uploaded", "download",
            "write", "mark", "adopt", "delete-local", "remove", "delete-remote", "rm",
            "removed", "clean"}
EchoType == [kind: {"none", "file", "delete"}, hash: Maybe]

LEMMA SweepToFields ==
    ASSUME sweep \in SweepState, NEW p \in SweepPc, SweepTo(p)
    PROVE  /\ sweep' \in SweepState /\ sweep'.pc = p /\ sweep'.l = sweep.l /\ sweep'.r = sweep.r
           /\ sweep'.rm = sweep.rm /\ sweep'.base = sweep.base /\ sweep'.conflict = sweep.conflict
           /\ sweep'.hash = sweep.hash
BY Zenon DEF SweepState, SweepTo, SweepPc

LEMMA SweepFields ==
    ASSUME SweepOK
    PROVE  /\ sweep.l \in Maybe /\ sweep.r \in Maybe /\ sweep.rm \in Nat /\ sweep.base \in SyncEntry
           /\ sweep.conflict \in BOOLEAN /\ sweep.hash \in Maybe /\ sweep.pc \in SweepPc
BY Zenon DEF SweepOK, SweepState, SweepPc

(* To a step that asks for nothing but what every step has.                *)
LEMMA SweepMoves ==
    ASSUME SweepOK, Grow,
           NEW p \in {"remote", "plan", "download", "delete-local", "remove", "delete-remote", "rm", "removed", "clean"},
           SweepTo(p)
    PROVE  SweepOK'
<1>1. sweep' \in SweepState /\ sweep'.pc = p /\ sweep'.l = sweep.l /\ sweep'.base = sweep.base
  BY SweepToFields, Zenon DEF SweepOK, SweepPc
<1>2. Based(sweep.base)' /\ sweep.l \in seen' \cup {None}
  BY <1>1, Zenon DEF SweepOK, Based, Both, Grow
<1>3. QED
  BY <1>1, <1>2, Zenon DEF SweepOK, Based

(* What the sweep leaves alone.                                            *)
LEMMA SweepFrame ==
    ASSUME AgreedInv, UNCHANGED sweepFrame, Grow, FolderOK', ServerOK', SweepOK',
           UNCHANGED entry \/ EntryOK',
           UNCHANGED pending \/ pending' = Rescan,
           UNCHANGED echo \/ echo' \in EchoType,
           UNCHANGED watch \/ watch' \in BOOLEAN,
           UNCHANGED sweepReq \/ sweepReq' \in BOOLEAN,
           UNCHANGED tally \/ TallyOK'
    PROVE  AgreedInv'
<1>0. RestOK
  BY Zenon DEF AgreedInv
<1>1. pending' \in [count: Nat, rescan: BOOLEAN]
  BY <1>0, Zenon DEF RestOK, Rescan
<1>2. echo' \in EchoType /\ watch' \in BOOLEAN /\ sweepReq' \in BOOLEAN
  BY <1>0, Zenon DEF RestOK, EchoType
<1>3. UNCHANGED <<localEvents, remoteEvents, status, mine, theirs>>
  BY Zenon DEF sweepFrame
<1>4. RestOK'
  BY <1>0, <1>1, <1>2, <1>3, Zenon DEF RestOK, EchoType
<1>5. QED
  BY <1>4, Frame, Zenon DEF sweepFrame, queues

(* The same for a step that changes neither side.                          *)
LEMMA SweepLooks ==
    ASSUME AgreedInv, UNCHANGED <<sweepFrame, folder, server>>, SweepOK',
           UNCHANGED entry \/ EntryOK',
           UNCHANGED pending \/ pending' = Rescan,
           UNCHANGED echo \/ echo' \in EchoType, UNCHANGED watch,
           UNCHANGED sweepReq \/ sweepReq' \in BOOLEAN,
           UNCHANGED tally \/ TallyOK'
    PROVE  AgreedInv'
<1>1. FolderOK' /\ ServerOK' /\ Grow
  BY FolderKept, ServerKept, Zenon DEF Grow
<1>2. QED
  BY <1>1, SweepFrame, Zenon

LEMMA SweepSeesSame ==
    ASSUME UNCHANGED <<folder, server>>
    PROVE  Grow /\ local' = local /\ seen' = seen /\ published' = published
BY Zenon DEF Grow, folder, server

(* An entry under a new version that keeps its hash.                       *)
LEMMA Reversioned ==
    ASSUME AgreedInv, Grow, UNCHANGED saved,
           NEW d \in BOOLEAN, NEW lm \in Maybe, NEW rm \in Nat,
           entry' = [hash |-> entry.hash, lm |-> lm, rm |-> rm, ver |-> nextVersion, deleted |-> d]
    PROVE  EntryOK'
<1>0. EntryOK /\ UploadsOK /\ TimersOK /\ UploadResultsOK /\ DownloadsOK
  BY Zenon DEF AgreedInv
<1>1. nextVersion \in Nat
  BY <1>0, NextVersion, Zenon DEF UploadsOK, TimersOK, UploadResultsOK, DownloadsOK
<1>2. entry' \in SyncEntry /\ entry'.hash = entry.hash
  BY <1>0, <1>1, Zenon DEF EntryOK, SyncEntry
<1>3. QED
  BY <1>0, <1>2, EntryStep, Zenon DEF EntryOK, Based

LEMMA EntryFields ==
    ASSUME AgreedInv
    PROVE  /\ entry = [hash |-> entry.hash, lm |-> entry.lm, rm |-> entry.rm, ver |-> entry.ver,
                       deleted |-> entry.deleted]
           /\ entry.hash \in Maybe /\ entry.lm \in Maybe /\ entry.rm \in Nat /\ entry.ver \in Nat
           /\ entry.deleted \in BOOLEAN /\ entry \in SyncEntry
BY Zenon DEF AgreedInv, EntryOK, SyncEntry

LEMMA ScanLocalStep ==
    ASSUME AgreedInv, ScanLocal
    PROVE  AgreedInv'
<1>0. FolderOK /\ TallyOK /\ SweepOK
  BY Zenon DEF AgreedInv
<1>1. UNCHANGED <<sweepFrame, folder, server, daemon, watch>> /\ sweepReq' = FALSE
  BY Zenon DEF ScanLocal
<1>2. sweep' \in SweepState /\ sweep'.pc = "offline" /\ sweep'.l = local /\ sweep'.base = NoEntry
  <2>1. sweep' = [IdleSweep EXCEPT !.pc = "offline", !.l = local] /\ local \in Maybe
    BY <1>0, Zenon DEF ScanLocal, FolderOK
  <2>2. QED
    BY <2>1, IdleTypes, Zenon DEF SweepState, IdleSweep
<1>3. SweepOK'
  BY <1>0, <1>1, <1>2, SweepSeesSame, NoEntryType, Zenon DEF SweepOK, Based, FolderOK
<1>4. TallyOK'
  BY <1>0, Zenon DEF ScanLocal, TallyOK
<1>5. UNCHANGED <<entry, pending, echo, watch>> /\ sweepReq' \in BOOLEAN
  BY <1>1, Zenon DEF daemon
<1>6. QED
  BY <1>1, <1>3, <1>4, <1>5, SweepLooks, Zenon

LEMMA OfflineDeletesStep ==
    ASSUME AgreedInv, detectOfflineDeletes
    PROVE  AgreedInv'
<1>0. SweepOK
  BY Zenon DEF AgreedInv
<1>1. UNCHANGED <<sweepFrame, folder, server, pending, echo, watch, sweepReq, tally>> /\ SweepTo("remote")
  BY Zenon DEF detectOfflineDeletes
<1>2. Grow /\ UNCHANGED saved
  BY <1>1, SweepSeesSame, Zenon DEF sweepFrame
<1>3. SweepOK'
  BY <1>0, <1>1, <1>2, SweepMoves, Zenon
<1>4. UNCHANGED entry \/ EntryOK'
  <2>1. CASE entry' = [entry EXCEPT !.deleted = TRUE, !.ver = nextVersion]
    <3>1. entry' = [hash |-> entry.hash, lm |-> entry.lm, rm |-> entry.rm, ver |-> nextVersion, deleted |-> TRUE]
      BY <2>1, EntryFields, Zenon DEF SyncEntry
    <3>2. QED
      BY <1>2, <3>1, Reversioned, EntryFields, Zenon
  <2>2. QED
    BY <2>1, Zenon DEF detectOfflineDeletes
<1>5. QED
  BY <1>1, <1>3, <1>4, SweepLooks, Zenon

LEMMA ScanRemoteStep ==
    ASSUME AgreedInv, ScanRemote
    PROVE  AgreedInv'
<1>0. SweepOK /\ ServerOK
  BY Zenon DEF AgreedInv
<1>1. UNCHANGED <<sweepFrame, folder, server, daemon, watch, sweepReq, tally>>
  BY Zenon DEF ScanRemote
<1>2. sweep' \in SweepState /\ sweep'.pc = "plan" /\ sweep'.l = sweep.l /\ sweep'.base = sweep.base
  <2>1. sweep' = [sweep EXCEPT !.pc = "plan", !.r = remote.data, !.rm = Stat]
    BY Zenon DEF ScanRemote
  <2>2. remote.data \in Maybe /\ Stat \in Nat
    BY <1>0, StatType, Zenon DEF ServerOK
  <2>3. QED
    BY <1>0, <2>1, <2>2, Zenon DEF SweepOK, SweepState
<1>3. SweepOK'
  BY <1>0, <1>1, <1>2, SweepSeesSame, Zenon DEF SweepOK, Based, Both
<1>4. UNCHANGED <<entry, pending, echo>>
  BY <1>1, Zenon DEF daemon
<1>5. QED
  BY <1>1, <1>3, <1>4, SweepLooks, Zenon

LEMMA PlanForm ==
    /\ PlannedAction \in {"none", "refresh", "upload", "download", "delete-local", "delete-remote"}
    /\ PlannedAction = "upload" => sweep.l # None
BY Zenon DEF PlannedAction

LEMMA BuildPlanStep ==
    ASSUME AgreedInv, buildPlan
    PROVE  AgreedInv'
<1>0. SweepOK /\ EntryOK
  BY Zenon DEF AgreedInv
<1>1. UNCHANGED <<sweepFrame, folder, server, echo, watch, sweepReq, tally>>
  BY Zenon DEF buildPlan
<1>2. Grow /\ UNCHANGED saved
  BY <1>1, SweepSeesSame, Zenon DEF sweepFrame
<1>3. CASE pending' = Rescan /\ SweepTo("clean") /\ UNCHANGED entry
  <2>1. SweepOK'
    BY <1>0, <1>2, <1>3, SweepMoves, Zenon
  <2>2. QED
    BY <1>1, <1>3, <2>1, SweepLooks, Zenon
<1>4. CASE /\ entry' = IF PlannedAction = "none" THEN entry
                       ELSE [entry EXCEPT !.lm = sweep.l, !.rm = sweep.rm, !.deleted = FALSE,
                                 !.ver = nextVersion]
           /\ SweepTo("clean") /\ UNCHANGED pending
  <2>1. SweepOK'
    BY <1>0, <1>2, <1>4, SweepMoves, Zenon
  <2>2. UNCHANGED entry \/ EntryOK'
    <3>1. CASE entry' = [entry EXCEPT !.lm = sweep.l, !.rm = sweep.rm, !.deleted = FALSE, !.ver = nextVersion]
      <4>1. entry' = [hash |-> entry.hash, lm |-> sweep.l, rm |-> sweep.rm, ver |-> nextVersion, deleted |-> FALSE]
        BY <3>1, EntryFields, Zenon DEF SyncEntry
      <4>2. sweep.l \in Maybe /\ sweep.rm \in Nat /\ FALSE \in BOOLEAN
        BY <1>0, SweepFields, Zenon
      <4>3. QED
        BY <1>2, <4>1, <4>2, Reversioned, Zenon
    <3>2. QED
      BY <1>4, <3>1, Zenon
  <2>3. QED
    BY <1>1, <1>4, <2>1, <2>2, SweepLooks, Zenon
<1>5. CASE /\ PlannedAction \notin {"none", "refresh"}
           /\ sweep' = [sweep EXCEPT !.pc = PlannedAction, !.base = entry,
                           !.conflict = sweep.l # None /\ (LocalChanged \/ ~Live(entry))]
           /\ UNCHANGED <<entry, pending>>
  <2>1. PlannedAction \in {"upload", "download", "delete-local", "delete-remote"}
    BY <1>5, PlanForm, Zenon
  <2>2. (sweep.l # None /\ (LocalChanged \/ ~Live(entry))) \in BOOLEAN
    OBVIOUS
  <2>3. sweep' \in SweepState /\ sweep'.pc = PlannedAction /\ sweep'.l = sweep.l /\ sweep'.base = entry
    BY <1>0, <1>5, <2>1, <2>2, Zenon DEF SweepOK, SweepState, EntryOK
  <2>4. entry.hash \in Both' \cup {None} /\ sweep.l \in seen' \cup {None}
    BY <1>0, <1>2, Zenon DEF EntryOK, SweepOK, Based, Both, Grow
  <2>5. SweepOK'
    BY <2>1, <2>3, <2>4, PlanForm, Zenon DEF SweepOK, Based
  <2>6. QED
    BY <1>1, <1>5, <2>5, SweepLooks, Zenon
<1>6. QED
  BY <1>3, <1>4, <1>5, Zenon DEF buildPlan

LEMMA DropSteps ==
    ASSUME AgreedInv, DropAction \/ DropRemoteAction
    PROVE  AgreedInv'
<1>0. SweepOK /\ RestOK
  BY Zenon DEF AgreedInv
<1>1. /\ UNCHANGED <<sweepFrame, folder, server, entry, echo, watch, tally>>
      /\ SweepTo("clean") /\ pending' \in {pending, Rescan}
  BY Zenon DEF DropAction, DropRemoteAction, daemon
<1>2. sweepReq' \in BOOLEAN
  BY <1>0, Zenon DEF DropAction, DropRemoteAction, requestFullSweep, RestOK
<1>3. SweepOK'
  BY <1>0, <1>1, SweepSeesSame, SweepMoves, Zenon
<1>4. QED
  BY <1>1, <1>2, <1>3, SweepLooks, Zenon

LEMMA ExecUploadStep ==
    ASSUME AgreedInv, execUpload
    PROVE  AgreedInv'
<1>0. SweepOK /\ sweep.pc = "upload"
  BY Zenon DEF AgreedInv, execUpload
<1>1. UNCHANGED <<sweepFrame, folder, server, daemon, watch, sweepReq, tally>> /\ SweepTo("echo")
  BY Zenon DEF execUpload
<1>2. sweep' \in SweepState /\ sweep'.pc = "echo" /\ sweep'.l = sweep.l /\ sweep'.base = sweep.base
  BY <1>0, <1>1, SweepToFields, Zenon DEF SweepOK, SweepPc
<1>3. SweepOK'
  BY <1>0, <1>1, <1>2, SweepSeesSame, Zenon DEF SweepOK, Based, Both
<1>4. UNCHANGED <<entry, pending, echo>>
  BY <1>1, Zenon DEF daemon
<1>5. QED
  BY <1>1, <1>3, <1>4, SweepLooks, Zenon

LEMMA SweepEchoStep ==
    ASSUME AgreedInv, SweepEcho
    PROVE  AgreedInv'
<1>0. SweepOK /\ ServerOK /\ FolderOK /\ sweep.pc = "echo"
  BY Zenon DEF AgreedInv, SweepEcho
<1>1. UNCHANGED <<sweepFrame, folder, daemon, watch, tally>> /\ UNCHANGED <<entry, pending, echo>>
  BY Zenon DEF SweepEcho, daemon
<1>2. CASE Publish(sweep.l) /\ SweepTo("uploaded") /\ NoSweep
  <2>1. sweep' \in SweepState /\ sweep'.pc = "uploaded" /\ sweep'.l = sweep.l /\ sweep'.base = sweep.base
    BY <1>0, <1>2, SweepToFields, Zenon DEF SweepOK, SweepPc
  <2>2. sweep.l \in Version
    BY <1>0, SweepFields, Zenon DEF SweepOK, Maybe
  <2>3. ServerOK' /\ Grow /\ sweep.l \in published' /\ FolderOK'
    BY <1>0, <1>1, <1>2, <2>2, PublishStep, FolderKept, Zenon DEF Grow
  <2>4. SweepOK'
    BY <1>0, <2>1, <2>3, Zenon DEF SweepOK, Based, Both, Grow
  <2>5. QED
    BY <1>1, <1>2, <2>3, <2>4, SweepFrame, Zenon DEF NoSweep
<1>3. CASE requestFullSweep /\ SweepTo("clean") /\ UNCHANGED server
  <2>1. SweepOK'
    BY <1>0, <1>1, <1>3, SweepSeesSame, SweepMoves, Zenon
  <2>2. sweepReq' \in BOOLEAN
    BY <1>3, Zenon DEF requestFullSweep
  <2>3. QED
    BY <1>1, <1>3, <2>1, <2>2, SweepLooks, Zenon
<1>4. QED
  BY <1>2, <1>3, Zenon DEF SweepEcho

LEMMA UpdateActionState ==
    ASSUME AgreedInv, Grow, UNCHANGED saved, NEW h \in Both, NEW lm \in Maybe, NEW rm \in Nat,
           updateActionState(h, lm, rm)
    PROVE  (UNCHANGED entry \/ EntryOK') /\ (UNCHANGED sweepReq \/ sweepReq' \in BOOLEAN)
<1>0. EntryOK /\ UploadsOK /\ TimersOK /\ UploadResultsOK /\ DownloadsOK /\ FolderOK
  BY Zenon DEF AgreedInv
<1>1. nextVersion \in Nat
  BY <1>0, NextVersion, Zenon DEF UploadsOK, TimersOK, UploadResultsOK, DownloadsOK
<1>2. CASE /\ entry' = [hash |-> h, lm |-> lm, rm |-> rm, ver |-> nextVersion, deleted |-> FALSE]
           /\ NoSweep
  <2>1. h \in Maybe
    BY <1>0, Zenon DEF Both, FolderOK, Maybe
  <2>2. entry' \in SyncEntry /\ entry'.hash = h
    BY <1>1, <1>2, <2>1, Zenon DEF SyncEntry
  <2>3. EntryOK'
    BY <1>0, <2>2, EntryStep, Zenon
  <2>4. QED
    BY <1>2, <2>3, Zenon DEF NoSweep
<1>3. CASE requestFullSweep /\ UNCHANGED entry
  BY <1>3, Zenon DEF requestFullSweep
<1>4. QED
  BY <1>2, <1>3, Zenon DEF updateActionState

LEMMA RecordSweepUploadStep ==
    ASSUME AgreedInv, RecordSweepUpload
    PROVE  AgreedInv'
<1>0. SweepOK /\ ServerOK /\ sweep.pc = "uploaded"
  BY Zenon DEF AgreedInv, RecordSweepUpload
<1>1. UNCHANGED <<sweepFrame, folder, server, pending, echo, watch, tally>> /\ SweepTo("clean") /\ UNCHANGED saved
  BY Zenon DEF RecordSweepUpload, sweepFrame
<1>2. Grow /\ Stat \in Nat /\ sweep.l \in Maybe
  BY <1>0, <1>1, SweepSeesSame, StatType, SweepFields, Zenon
<1>3. SweepOK'
  BY <1>0, <1>1, <1>2, SweepMoves, Zenon
<1>4. sweep.l \in Both
  BY <1>0, Zenon DEF SweepOK, Both
<1>5. (UNCHANGED entry \/ EntryOK') /\ (UNCHANGED sweepReq \/ sweepReq' \in BOOLEAN)
  <2>1. CASE updateActionState(sweep.l, sweep.l, Stat)
    BY <1>1, <1>2, <1>4, <2>1, UpdateActionState, Zenon
  <2>2. CASE requestFullSweep /\ UNCHANGED entry
    BY <2>2, Zenon DEF requestFullSweep
  <2>3. QED
    BY <2>1, <2>2, Zenon DEF RecordSweepUpload
<1>6. QED
  BY <1>1, <1>3, <1>5, SweepLooks, Zenon

LEMMA ExecDownloadStep ==
    ASSUME AgreedInv, execDownload
    PROVE  AgreedInv'
<1>0. SweepOK /\ ServerOK
  BY Zenon DEF AgreedInv
<1>1. UNCHANGED <<sweepFrame, folder, server, daemon, watch, sweepReq, tally>> /\ UNCHANGED <<entry, pending, echo>>
  BY Zenon DEF execDownload, daemon
<1>2. Grow
  BY <1>1, SweepSeesSame, Zenon
<1>3. CASE SweepTo("clean")
  <2>1. SweepOK'
    BY <1>0, <1>2, <1>3, SweepMoves, Zenon
  <2>2. QED
    BY <1>1, <2>1, SweepLooks, Zenon
<1>4. CASE Stat # 0 /\ sweep' = [sweep EXCEPT !.pc = "write", !.hash = remote.data]
  <2>1. remote.data \in published /\ remote.data \in Maybe
    BY <1>0, <1>4, StatType, Zenon DEF ServerOK
  <2>2. /\ sweep' \in SweepState /\ sweep'.pc = "write" /\ sweep'.l = sweep.l /\ sweep'.base = sweep.base
        /\ sweep'.hash = remote.data
    BY <1>0, <1>4, <2>1, Zenon DEF SweepOK, SweepState
  <2>3. SweepOK'
    BY <1>0, <1>2, <2>1, <2>2, Zenon DEF SweepOK, Based, Both, Grow
  <2>4. QED
    BY <1>1, <2>3, SweepLooks, Zenon
<1>5. QED
  BY <1>3, <1>4, Zenon DEF execDownload

LEMMA SweepWriteStep ==
    ASSUME AgreedInv, SweepWrite
    PROVE  AgreedInv'
<1>0. SweepOK /\ ServerOK /\ FolderOK /\ RestOK /\ sweep.pc = "write"
  BY Zenon DEF AgreedInv, SweepWrite
<1>1. UNCHANGED <<sweepFrame, server, daemon, tally>> /\ UNCHANGED <<entry, pending, echo>>
  BY Zenon DEF SweepWrite, daemon
<1>2. sweep.hash \in published /\ sweep.hash \in Maybe /\ sweep.hash # None
  <2>1. sweep.hash \in published
    BY <1>0, Zenon DEF SweepOK
  <2>2. QED
    BY <1>0, <2>1, SweepFields, VersionType, Zenon DEF ServerOK
<1>3. ServerOK' /\ published' = published
  BY <1>1, ServerKept, Zenon DEF server
<1>4. CASE local = sweep.hash /\ SweepTo("adopt") /\ UNCHANGED <<folder, watch, sweepReq>>
  <2>1. /\ sweep' \in SweepState /\ sweep'.pc = "adopt" /\ sweep'.l = sweep.l /\ sweep'.base = sweep.base
        /\ sweep'.hash = sweep.hash
    BY <1>0, <1>4, SweepToFields, Zenon DEF SweepOK, SweepPc
  <2>2. sweep.hash \in seen
    BY <1>0, <1>2, <1>4, Zenon DEF FolderOK
  <2>3. SweepOK'
    BY <1>0, <1>1, <1>2, <1>4, <2>1, <2>2, SweepSeesSame, ZenonT(60) DEF SweepOK, Based, Both
  <2>4. QED
    BY <1>1, <1>4, <2>3, SweepLooks, Zenon
<1>5. CASE /\ SweepTo("mark") /\ Replace(sweep.hash, sweep.conflict)
           /\ sweepReq' = (sweepReq \/ (sweep.conflict /\ local # None))
  <2>1. /\ sweep' \in SweepState /\ sweep'.pc = "mark" /\ sweep'.l = sweep.l /\ sweep'.base = sweep.base
        /\ sweep'.hash = sweep.hash
    BY <1>0, <1>5, SweepToFields, Zenon DEF SweepOK, SweepPc
  <2>2. FolderOK' /\ seen \subseteq seen' /\ watch' \in BOOLEAN /\ sweep.hash \in seen'
    BY <1>0, <1>2, <1>5, ReplaceStep, Zenon
  <2>3. Grow
    BY <1>3, <2>2, Zenon DEF Grow
  <2>4. SweepOK'
    BY <1>0, <1>2, <1>3, <2>1, <2>2, <2>3, Zenon DEF SweepOK, Based, Both, Grow
  <2>5. sweepReq' \in BOOLEAN
    BY <1>5, Zenon
  <2>6. QED
    BY <1>1, <1>3, <2>2, <2>3, <2>4, <2>5, SweepFrame, ZenonT(60)
<1>6. QED
  BY <1>4, <1>5, Zenon DEF SweepWrite

LEMMA RecordSweepDownloadStep ==
    ASSUME AgreedInv, RecordSweepDownload
    PROVE  AgreedInv'
<1>0. SweepOK /\ FolderOK /\ RestOK /\ sweep.pc \in {"mark", "adopt"}
  BY Zenon DEF AgreedInv, RecordSweepDownload
<1>1. UNCHANGED <<sweepFrame, folder, server, pending, watch, tally>> /\ SweepTo("clean") /\ UNCHANGED saved
  BY Zenon DEF RecordSweepDownload, sweepFrame
<1>2. Grow /\ sweep.rm \in Nat /\ local \in Maybe /\ sweep.hash \in Both /\ sweep.hash \in Maybe
  BY <1>0, <1>1, SweepSeesSame, SweepFields, Zenon DEF FolderOK, SweepOK
<1>3. SweepOK'
  BY <1>0, <1>1, <1>2, SweepMoves, Zenon
<1>4. (UNCHANGED entry \/ EntryOK') /\ (UNCHANGED sweepReq \/ sweepReq' \in BOOLEAN)
  BY <1>1, <1>2, UpdateActionState, Zenon DEF RecordSweepDownload
<1>5. echo' \in EchoType
  <2>1. echo' \in {FileEcho(sweep.hash), echo}
    BY Zenon DEF RecordSweepDownload
  <2>2. QED
    BY <1>0, <1>2, <2>1, SMTT(60) DEF RestOK, FileEcho, EchoType
<1>6. QED
  BY <1>1, <1>3, <1>4, <1>5, SweepLooks, Zenon

LEMMA ExecDeleteLocalStep ==
    ASSUME AgreedInv, execDeleteLocal
    PROVE  AgreedInv'
<1>0. SweepOK
  BY Zenon DEF AgreedInv
<1>1. UNCHANGED <<sweepFrame, folder, server, daemon, watch, tally>> /\ UNCHANGED <<entry, pending, echo>>
  BY Zenon DEF execDeleteLocal, daemon
<1>2. SweepTo("clean") \/ SweepTo("remove")
  BY Zenon DEF execDeleteLocal
<1>3. SweepOK'
  BY <1>0, <1>1, <1>2, SweepSeesSame, SweepMoves, Zenon
<1>4. UNCHANGED sweepReq \/ sweepReq' \in BOOLEAN
  BY Zenon DEF execDeleteLocal, requestFullSweep, NoSweep
<1>5. QED
  BY <1>1, <1>3, <1>4, SweepLooks, ZenonT(60)

LEMMA SweepRemoveStep ==
    ASSUME AgreedInv, SweepRemove
    PROVE  AgreedInv'
<1>0. SweepOK /\ FolderOK /\ EntryOK /\ RestOK
  BY Zenon DEF AgreedInv
<1>1. UNCHANGED <<sweepFrame, server, pending, tally>> /\ SweepTo("clean") /\ UNCHANGED saved
  BY Zenon DEF SweepRemove, sweepFrame
<1>2. ServerOK' /\ published' = published
  BY <1>1, ServerKept, Zenon DEF server
<1>3. CASE requestFullSweep /\ UNCHANGED <<folder, watch, entry, echo>>
  <2>1. SweepOK'
    BY <1>0, <1>1, <1>3, SweepSeesSame, SweepMoves, Zenon
  <2>2. sweepReq' \in BOOLEAN
    BY <1>3, Zenon DEF requestFullSweep
  <2>3. QED
    BY <1>1, <1>3, <2>1, <2>2, SweepLooks, ZenonT(60)
<1>4. CASE RemoveLocal(sweep.base) /\ sweepReq' = (sweepReq \/ Changed(sweep.base))
  <2>1. FolderOK' /\ seen \subseteq seen' /\ watch' \in BOOLEAN /\ entry' = NoEntry /\ echo' \in EchoType
    BY <1>0, <1>1, <1>4, RemoveStep, Zenon DEF EchoType
  <2>2. Grow
    BY <1>2, <2>1, Zenon DEF Grow
  <2>3. EntryOK'
    BY <1>0, <1>1, <2>1, <2>2, EntryStep, NoEntryType, Zenon
  <2>4. SweepOK'
    BY <1>0, <1>1, <2>2, SweepMoves, Zenon
  <2>5. sweepReq' \in BOOLEAN
    BY <1>4, Zenon
  <2>6. QED
    BY <1>1, <1>2, <2>1, <2>2, <2>3, <2>4, <2>5, SweepFrame, ZenonT(60)
<1>5. QED
  BY <1>3, <1>4, Zenon DEF SweepRemove

LEMMA ExecDeleteRemoteStep ==
    ASSUME AgreedInv, execDeleteRemote
    PROVE  AgreedInv'
<1>0. SweepOK /\ EntryOK
  BY Zenon DEF AgreedInv
<1>1. UNCHANGED <<sweepFrame, folder, server, pending, echo, watch, sweepReq, tally>>
  BY Zenon DEF execDeleteRemote
<1>2. Grow /\ UNCHANGED saved
  BY <1>1, SweepSeesSame, Zenon DEF sweepFrame
<1>3. CASE SweepTo("rm") /\ UNCHANGED entry
  <2>1. SweepOK'
    BY <1>0, <1>2, <1>3, SweepMoves, Zenon
  <2>2. QED
    BY <1>1, <1>3, <2>1, SweepLooks, Zenon
<1>4. CASE /\ entry' = [entry EXCEPT !.deleted = FALSE, !.ver = nextVersion]
           /\ sweep' = [sweep EXCEPT !.pc = "download", !.base = entry', !.conflict = FALSE]
  <2>1. entry' = [hash |-> entry.hash, lm |-> entry.lm, rm |-> entry.rm, ver |-> nextVersion, deleted |-> FALSE]
    BY <1>4, EntryFields, Zenon DEF SyncEntry
  <2>2. EntryOK'
    BY <1>2, <2>1, Reversioned, EntryFields, Zenon
  <2>3. entry' \in SyncEntry
    BY <2>2, Zenon DEF EntryOK
  <2>4. sweep' \in SweepState /\ sweep'.pc = "download" /\ sweep'.l = sweep.l /\ sweep'.base = entry'
    BY <1>0, <1>4, <2>3, Zenon DEF SweepOK, SweepState
  <2>5. SweepOK'
    BY <1>0, <1>2, <2>2, <2>4, Zenon DEF SweepOK, EntryOK, Based, Both, Grow
  <2>6. QED
    BY <1>1, <2>2, <2>5, SweepLooks, Zenon
<1>5. QED
  BY <1>3, <1>4, Zenon DEF execDeleteRemote

LEMMA SweepRmStep ==
    ASSUME AgreedInv, SweepRm
    PROVE  AgreedInv'
<1>0. SweepOK /\ ServerOK /\ FolderOK
  BY Zenon DEF AgreedInv
<1>1. /\ UNCHANGED <<sweepFrame, folder, published, daemon, watch, tally>> /\ UNCHANGED <<entry, pending, echo>>
      /\ SweepTo("clean") \/ SweepTo("removed")
  BY Zenon DEF SweepRm, daemon
<1>2. remote' = remote \/ remote' = [remote EXCEPT !.data = None]
  BY Zenon DEF SweepRm
<1>3. ServerOK' /\ FolderOK' /\ Grow
  BY <1>0, <1>1, <1>2, FolderKept, Zenon DEF ServerOK, Maybe, Grow
<1>4. SweepOK'
  BY <1>0, <1>1, <1>3, SweepMoves, ZenonT(60)
<1>5. UNCHANGED sweepReq \/ sweepReq' \in BOOLEAN
  BY Zenon DEF SweepRm, requestFullSweep, NoSweep
<1>6. QED
  BY <1>1, <1>3, <1>4, <1>5, SweepFrame, Zenon

LEMMA RecordSweepDeleteStep ==
    ASSUME AgreedInv, RecordSweepDelete
    PROVE  AgreedInv'
<1>0. SweepOK /\ EntryOK
  BY Zenon DEF AgreedInv
<1>1. UNCHANGED <<sweepFrame, folder, server, pending, echo, watch, tally>> /\ SweepTo("clean") /\ UNCHANGED saved
  BY Zenon DEF RecordSweepDelete, sweepFrame
<1>2. Grow
  BY <1>1, SweepSeesSame, Zenon
<1>3. SweepOK'
  BY <1>0, <1>1, <1>2, SweepMoves, ZenonT(60)
<1>4. UNCHANGED entry \/ EntryOK'
  <2>1. entry' \in {entry, NoEntry}
    BY Zenon DEF RecordSweepDelete
  <2>2. QED
    BY <1>0, <1>1, <1>2, <2>1, EntryStep, NoEntryType, ZenonT(60)
<1>5. sweepReq' \in BOOLEAN
  BY Zenon DEF RecordSweepDelete, requestFullSweep
<1>6. QED
  BY <1>1, <1>3, <1>4, <1>5, SweepLooks, ZenonT(60)

LEMMA CleanupStep ==
    ASSUME AgreedInv, cleanupTombstones
    PROVE  AgreedInv'
<1>0. EntryOK /\ RestOK /\ TallyOK
  BY Zenon DEF AgreedInv
<1>1. UNCHANGED <<folder, server, pending, echo, saved, events, queues, sweepReq, loop, up, down, mine, theirs>>
  BY Zenon DEF cleanupTombstones
<1>2. FolderOK' /\ ServerOK' /\ Grow
  BY <1>1, FolderKept, ServerKept, ZenonT(60) DEF Grow
<1>3. EntryOK'
  <2>1. entry' \in {entry, NoEntry}
    BY Zenon DEF cleanupTombstones
  <2>2. entry' \in SyncEntry /\ entry'.hash \in Both \cup {None}
    BY <1>0, <2>1, NoEntryType, Zenon DEF EntryOK, Based
  <2>3. QED
    BY <1>0, <1>1, <1>2, <2>2, EntryStep, Zenon
<1>4. SweepOK'
  BY IdleTypes, Zenon DEF cleanupTombstones, SweepOK, Based
<1>5. TallyOK'
  BY <1>0, Zenon DEF cleanupTombstones, TallyOK
<1>6. RestOK'
  BY <1>0, <1>1, Zenon DEF RestOK, cleanupTombstones, events
<1>7. QED
  BY <1>1, <1>2, <1>3, <1>4, <1>5, <1>6, Frame, ZenonT(60) DEF queues

LEMMA SweepFailsStep ==
    ASSUME AgreedInv, SweepFails
    PROVE  AgreedInv'
<1>0. SweepOK /\ TallyOK
  BY Zenon DEF AgreedInv
<1>1. UNCHANGED <<sweepFrame, folder, server, daemon, watch>> /\ UNCHANGED <<entry, pending, echo>> /\ SweepTo("clean")
  BY Zenon DEF SweepFails, daemon
<1>2. SweepOK'
  BY <1>0, <1>1, SweepSeesSame, SweepMoves, Zenon
<1>3. TallyOK' /\ sweepReq' \in BOOLEAN
  <2>1. TallyOK'
    BY <1>0, FaultTally, Zenon DEF SweepFails
  <2>2. sweepReq' \in BOOLEAN
    BY Zenon DEF SweepFails, requestFullSweep
  <2>3. QED
    BY <2>1, <2>2, Zenon
<1>4. QED
  BY <1>1, <1>2, <1>3, SweepLooks, ZenonT(60)

-----------------------------------------------------------------------------
LEMMA AgreedInit == ASSUME Init PROVE AgreedInv
<1>1. /\ local \in {0, None} /\ remote = [data |-> local, rev |-> 1] /\ seen = {0} /\ published = {0} /\ copies = {}
      /\ uploads = <<>> /\ uploadResults = <<>> /\ downloads = <<>> /\ downloadResults = <<>> /\ timers = {}
      /\ loop = IdleLoop /\ up = IdleUp /\ down = IdleDown /\ sweep = IdleSweep /\ saved = entry
  BY Zenon DEF Init
<1>2. 0 \in Version /\ 0 \in Maybe /\ None \in Maybe
  BY BoundsAssumption, SMTT(60) DEF Version, Maybe
<1>3. FolderOK /\ ServerOK
  BY <1>1, <1>2, SMTT(60) DEF FolderOK, ServerOK
<1>4. EntryOK
  <2>1. entry \in {NoEntry, [hash |-> 0, lm |-> 0, rm |-> 1, ver |-> 1, deleted |-> FALSE]}
    BY Zenon DEF Init
  <2>2. [hash |-> 0, lm |-> 0, rm |-> 1, ver |-> 1, deleted |-> FALSE] \in SyncEntry
    BY <1>2, Zenon DEF SyncEntry
  <2>3. entry \in SyncEntry /\ entry.hash \in {0, None}
    <3>1. CASE entry = NoEntry
      BY <3>1, NoEntryType, Zenon
    <3>2. CASE entry = [hash |-> 0, lm |-> 0, rm |-> 1, ver |-> 1, deleted |-> FALSE]
      <4>1. entry.hash = 0
        BY <3>2, Zenon
      <4>2. QED
        BY <2>2, <3>2, <4>1, Zenon
    <3>3. QED
      BY <2>1, <3>1, <3>2, Zenon
  <2>4. entry.hash \in Both \cup {None} /\ saved = entry
    BY <1>1, <2>3, Zenon DEF Both
  <2>5. QED
    BY <2>3, <2>4, Zenon DEF EntryOK, Based
<1>5. UploadsOK /\ UploadResultsOK /\ DownloadsOK /\ DownloadResultsOK
  BY <1>1, BoundsAssumption, SMTT(60) DEF UploadsOK, UploadResultsOK, DownloadsOK, DownloadResultsOK, Elems
<1>6. TimersOK
  BY <1>1, FS_EmptySet, Zenon DEF TimersOK
<1>7. LoopOK /\ DownOK /\ SweepOK
  BY <1>1, IdleTypes, Zenon DEF LoopOK, DownOK, SweepOK, Based
<1>8. UpOK
  BY <1>1, IdleTypes, Zenon DEF UpOK, AnyOp, Based
<1>9. RestOK
  <2>1. /\ pending = [count |-> 0, rescan |-> FALSE] /\ echo = NoEcho /\ watch = FALSE /\ localEvents = 0
        /\ remoteEvents = 0 /\ sweepReq = FALSE /\ status = "online" /\ mine = None /\ theirs = None
    BY Zenon DEF Init
  <2>2. 0 \in 0 .. QueueCap
    BY BoundsAssumption, SMTT(60)
  <2>3. NoEcho \in [kind: {"none", "file", "delete"}, hash: Maybe]
    BY <1>2, Zenon DEF NoEcho
  <2>4. QED
    BY <1>2, <2>1, <2>2, <2>3, Zenon DEF RestOK
<1>10. TallyOK
  BY BoundsAssumption, SMTT(60) DEF Init, TallyOK
<1>11. QED
  BY <1>3, <1>4, <1>5, <1>6, <1>7, <1>8, <1>9, <1>10, ZenonT(60) DEF AgreedInv

LEMMA AgreedStep == ASSUME AgreedInv, [Next]_vars PROVE AgreedInv'
<1>1. CASE UNCHANGED vars
  <2>1. FolderOK' /\ ServerOK' /\ Grow
    BY <1>1, FolderKept, ServerKept, Zenon DEF Grow, vars
  <2>2. RestOK'
    BY <1>1, Zenon DEF vars, AgreedInv, RestOK, daemon, events, people
  <2>3. QED
    BY <1>1, <2>1, <2>2, Frame, Zenon DEF vars, daemon, queues, people
<1>2. CASE Environment \/ Reconnect \/ flushNow \/ flush \/ SendDelete
  BY ZenonT(60), <1>2, AppSteps, PeerSteps, WatcherSteps, LinkSteps, CrashStep, UploadFailsStep, DownloadFailsStep,
     SweepFailsStep DEF Environment
<1>3. CASE EventLoop
  BY <1>3, LocalEventStep, RemoteEventStep, ActRemoteStep, UploadResultStep, DownloadResultStep, Zenon DEF EventLoop
<1>4. CASE Uploader
  BY <1>4, TakeUploadStep, MatchStep, PublishFileStep, PublishDeleteStep, FinishUploadStep, Zenon DEF Uploader
<1>5. CASE Downloader
  BY ZenonT(60), <1>5, TakeDownloadStep, DownloadStatStep, DownloadCatStep, StageDownloadStep, CommitDownloadStep,
     RecordDownloadStep, ConfirmDeleteStep, DeleteLocalStep DEF Downloader
<1>6. CASE Sweep
  BY ZenonT(60), <1>6, ScanLocalStep, OfflineDeletesStep, ScanRemoteStep, BuildPlanStep, DropSteps, ExecUploadStep,
     SweepEchoStep, RecordSweepUploadStep, ExecDownloadStep, SweepWriteStep, RecordSweepDownloadStep,
     ExecDeleteLocalStep, SweepRemoveStep, ExecDeleteRemoteStep, SweepRmStep, RecordSweepDeleteStep,
     CleanupStep DEF Sweep
<1>7. QED
  BY <1>1, <1>2, <1>3, <1>4, <1>5, <1>6, ZenonT(60) DEF Next

-----------------------------------------------------------------------------
(* What the state file, the queues, the timers and the workers carry as    *)
(* the agreed version was once both in the folder and published, and       *)
(* every variable keeps its type: recovery, retries, overflowing channels  *)
(* and late results included (sync_state.go, sync_uploader.go,             *)
(* sync_downloader.go, sync_full_reconciler.go).                           *)
THEOREM AgreedInductive == Spec => []AgreedInv
BY AgreedInit, AgreedStep, PTL DEF Spec

(* Every variable keeps its type and no channel exceeds its capacity.      *)
THEOREM TypesKept == Spec => []TypeOK
<1>1. AgreedInv => TypeOK
  <2> SUFFICES ASSUME AgreedInv PROVE TypeOK
    OBVIOUS
  <2>1. /\ local \in Maybe /\ copies \subseteq Version /\ seen \subseteq Version
        /\ remote \in [data: Maybe, rev: Nat] /\ published \subseteq Version
    BY Zenon DEF AgreedInv, FolderOK, ServerOK
  <2>2. entry \in SyncEntry /\ saved \in SyncEntry
    BY Zenon DEF AgreedInv, EntryOK
  <2>3. /\ uploads \in Seq(UploadOp) /\ Len(uploads) <= QueueCap
        /\ uploadResults \in Seq(UploadResult) /\ Len(uploadResults) <= QueueCap
        /\ downloads \in Seq(DownloadOp) /\ Len(downloads) <= QueueCap
        /\ downloadResults \in Seq(DownloadResult) /\ Len(downloadResults) <= QueueCap
    BY Zenon DEF AgreedInv, UploadsOK, UploadResultsOK, DownloadsOK, DownloadResultsOK
  <2>4. timers \subseteq UploadOp /\ IsFiniteSet(timers)
    BY Zenon DEF AgreedInv, TimersOK, GoodOp, AnyOp
  <2>5. loop \in LoopState /\ up \in UpState /\ down \in DownState /\ sweep \in SweepState
    BY Zenon DEF AgreedInv, LoopOK, UpOK, DownOK, SweepOK
  <2>6. TallyOK /\ RestOK
    BY Zenon DEF AgreedInv
  <2>7. QED
    BY <2>1, <2>2, <2>3, <2>4, <2>5, <2>6, ZenonT(60) DEF TypeOK, TallyOK, RestOK
<1>2. QED
  BY <1>1, AgreedInductive, PTL

=============================================================================
