---------------------------- MODULE FileHistory ----------------------------
(***************************************************************************)
(* Per-file history (internal/filehistory): what a publication script adds *)
(* to the history of a workspace (capture.lua), how retention removes      *)
(* records (retention.go) and how hashes are prepared before a publication *)
(* (prepare.go). The operators take the history h of a workspace and       *)
(* return the next one; module Publication calls them from its scripts.    *)
(*                                                                         *)
(* A SHA256 is modelled by the bytes it stands for. The indexes by path    *)
(* and by time are views of the records and are left out.                  *)
(***************************************************************************)
EXTENDS Integers, Sequences, FiniteSets, FiniteSetsExt, SequencesExt, Functions

CONSTANTS EvictPage,     \* records a capture examines to make room (128)
          PrunePage,     \* records one retention sweep examines (64)
          NoHash         \* stands for a hash that is not known

NoLineage == <<>>
NoRecord == <<>>

EmptyHistory(policy) ==
    [policy |-> policy, records |-> {}, files |-> <<>>, refs |-> <<>>, blob |-> <<>>,
     seq |-> 0, bytes |-> 0, physical |-> 0, cursor |-> 0, day |-> 0]

(* A pattern is a sequence of segments: the set of names that a segment    *)
(* with wildcards and classes matches, or AnyDepth for the segment "**".   *)
AnyDepth == {"**"}
history_segment(segment, name) == name \in segment

(* capture.lua: the positions of the path that a pattern reaches.          *)
history_glob(pattern, path) ==
    LET n == Len(path)
        Reached(at, segment) ==
            IF segment = AnyDepth THEN {j \in 0..n : \E i \in at : i <= j}
            ELSE {i + 1 : i \in {j \in at : j < n /\ history_segment(segment, path[j + 1])}}
    IN path # <<>> /\ n \in FoldLeft(Reached, {0}, pattern)

history_matches(policy, path) ==
    /\ policy.mode # "off"
    /\ ~\E rule \in policy.exclude : history_glob(rule, path)
    /\ policy.mode = "all" \/ \E rule \in policy.include : history_glob(rule, path)

(* policy.go: the same question, asked by the client.                      *)
MatchString(pattern, path) ==
    LET n == Len(path)
        Step(positions, segment) ==
            [j \in 0..n |-> IF segment = AnyDepth THEN \E i \in 0..j : positions[i]
                            ELSE j > 0 /\ positions[j - 1] /\ path[j] \in segment]
    IN path # <<>> /\ FoldLeft(Step, [j \in 0..n |-> j = 0], pattern)[n]

Matches(policy, path) ==
    LET match(patterns) == \E p \in patterns : MatchString(p, path)
    IN /\ policy.mode # "off"
       /\ ~match(policy.exclude)
       /\ policy.mode = "all" \/ (policy.mode = "paths" /\ match(policy.include))

Validate(policy) == policy.mode = "paths" => policy.include # {}

HoldsBytes(r) == r.type = "file" /\ ~r.deleted /\ ~r.metaOnly
SizeOf(records) == MapThenSumSet(LAMBDA r : r.size, {r \in records : HoldsBytes(r)})
RecordOf(h, id) == CHOOSE r \in h.records : r.id = id

FileOf(h, lineage) ==
    IF lineage \in DOMAIN h.files THEN h.files[lineage]
    ELSE [next |-> 0, head |-> NoRecord, recoverable |-> NoRecord, inode |-> 0]

---------------------------------------------------------------------------
(* One change of a publication: [id, before, after, oldPath, newPath,      *)
(* body, operation, force, lineage, beforeHash, afterHash]. Absent inodes  *)
(* have type "none"; body is what the content key holds afterwards;        *)
(* staged says that body is the stage; hashes are NoHash unless the caller *)
(* brings them.                                                            *)

(* The hash of one side of a change, NoHash if it must be prepared first.  *)
ContentHash(ch, which, prepared) ==
    LET fields == IF which = "before" THEN ch.before ELSE ch.after
        given == IF which = "before" THEN ch.beforeHash ELSE ch.afterHash
        prep == IF ch.id \in DOMAIN prepared /\ prepared[ch.id].rev = ch.before.rev
                THEN prepared[ch.id][which] ELSE NoHash
        unchanged ==
            /\ which = "after" /\ ~ch.staged
            /\ ch.operation \in {"metadata", "rename"}
            /\ Len(ch.before.data) = Len(ch.after.data)
    IN CASE fields.type = "none" -> <<>>
         [] fields.type = "symlink" -> fields.data
         [] OTHER ->
            IF given # NoHash THEN given
            ELSE IF prep # NoHash THEN prep
            ELSE IF (which = "before" \/ unchanged) /\ ch.before.hrev = ch.before.rev
                 THEN ch.before.hhash ELSE NoHash

Tracked(h, ch) ==
    /\ ch.before.type \in {"file", "symlink"} \/ ch.after.type \in {"file", "symlink"}
    /\ ch.force \/ history_matches(h.policy, ch.oldPath) \/ history_matches(h.policy, ch.newPath)

LineageOf(op, ch) ==
    IF ch.lineage # NoLineage THEN ch.lineage
    ELSE IF ch.before.hid # NoLineage THEN ch.before.hid
    ELSE <<op, ch.id>>

(* A record of the file as fields describe it. The version and sequence    *)
(* numbers are given when the plan is carried out.                         *)
Snapshot(h, op, ch, suffix, fields, body, path, operation, deleted, hash) ==
    LET metaOnly == /\ ~deleted /\ fields.type = "file"
                    /\ h.policy.maxFile > 0 /\ Len(fields.data) > h.policy.maxFile
    IN [id |-> <<op, ch.id, suffix>>, lineage |-> LineageOf(op, ch), path |-> path,
        operation |-> operation, type |-> fields.type, mode |-> fields.mode,
        size |-> IF deleted THEN 0 ELSE Len(fields.data),
        hash |-> IF deleted THEN <<>> ELSE hash, body |-> body,
        deleted |-> deleted, metaOnly |-> metaOnly, day |-> h.day,
        blob |-> fields.type = "file" /\ ~deleted /\ ~metaOnly]

SameVersion(prior, r) ==
    /\ ~prior.deleted /\ ~r.deleted
    /\ prior.path = r.path /\ prior.type = r.type /\ prior.mode = r.mode
    /\ prior.size = r.size /\ prior.hash = r.hash /\ prior.metaOnly = r.metaOnly

(* What the file was is recorded first when its lineage does not hold it:  *)
(* it is new to the history, or was changed while the history was off.     *)
NeedsBaseline_IfKnown(file, before) ==
    before.type # "none" /\ before.hid # NoLineage /\ before.hrev # before.rev
NeedsBaseline(file, before) ==
    /\ before.type # "none"
    /\ before.hid = NoLineage \/ before.hrev # before.rev \/ file.next = 0

(* The records one change adds: what the file was, when that is needed,    *)
(* and what it becomes.                                                    *)
PlanOf(h, op, ch, prepared) ==
    LET file == FileOf(h, LineageOf(op, ch))
        before == ContentHash(ch, "before", prepared)
        after == ContentHash(ch, "after", prepared)
        exists == ch.before.type # "none"
        noop == /\ file.next = 0 /\ ~ch.force /\ exists /\ ch.before.type = ch.after.type
                /\ ch.oldPath = ch.newPath /\ before = after
                /\ ch.before.mode = ch.after.mode
        named == IF /\ ch.operation = "write" /\ ch.before.type = ch.after.type /\ before = after
                    /\ ch.before.mode # ch.after.mode
                 THEN "metadata" ELSE ch.operation
        base == IF NeedsBaseline(file, ch.before)
                THEN <<Snapshot(h, op, ch, "b", ch.before, ch.before.data, ch.oldPath, "baseline", FALSE, before)>>
                ELSE <<>>
        final == IF ch.after.type # "none"
                 THEN <<Snapshot(h, op, ch, "a", ch.after, ch.body, ch.newPath, named, FALSE, after)>>
                 ELSE <<Snapshot(h, op, ch, "a", ch.before, <<>>, ch.oldPath, ch.operation, TRUE, <<>>)>>
        prior == IF file.head = NoRecord THEN <<>> ELSE <<RecordOf(h, file.head)>>
        AddNew(kept, r) ==
            IF kept # <<>> /\ SameVersion(Last(kept), r) /\ ~ch.force THEN kept ELSE Append(kept, r)
        all == FoldLeft(AddNew, prior, base \o final)
    IN CASE ~Tracked(h, ch) -> [need |-> FALSE, bind |-> FALSE, records |-> <<>>, hash |-> <<>>]
         [] before = NoHash \/ after = NoHash ->
              [need |-> TRUE, bind |-> FALSE, records |-> <<>>, hash |-> <<>>]
         [] noop -> [need |-> FALSE, bind |-> FALSE, records |-> <<>>, hash |-> <<>>]
         [] OTHER -> [need |-> FALSE, bind |-> TRUE, hash |-> after,
                      records |-> SubSeq(all, Len(prior) + 1, Len(all))]

---------------------------------------------------------------------------
(* Records and the bytes they refer to.                                    *)

AddRecord(h, r) ==
    LET file == FileOf(h, r.lineage)
        fresh == r.blob /\ r.hash \notin DOMAIN h.refs
        stored == [version |-> file.next + 1, seq |-> h.seq + 1] @@ Restrict(r, DOMAIN r \ {"body"})
    IN [h EXCEPT
         !.records = @ \cup {stored},
         !.seq = @ + 1,
         !.bytes = IF r.blob THEN @ + r.size ELSE @,
         !.refs = IF ~r.blob THEN @
                  ELSE (r.hash :> (IF fresh THEN 1 ELSE @[r.hash] + 1)) @@ @,
         !.blob = IF fresh THEN (r.hash :> r.body) @@ @ ELSE @,
         !.physical = IF fresh THEN @ + r.size ELSE @,
         !.files = (r.lineage :> [file EXCEPT
                      !.next = @ + 1, !.head = r.id,
                      !.recoverable = IF r.deleted \/ r.metaOnly THEN @ ELSE r.id]) @@ @]

DropRecord_KeepsReference(h, r) ==
    [h EXCEPT !.records = @ \ {r}, !.bytes = IF HoldsBytes(r) THEN @ - r.size ELSE @]
DropRecord(h, r) ==
    LET last == r.blob /\ h.refs[r.hash] = 1
    IN [h EXCEPT
         !.records = @ \ {r},
         !.bytes = IF HoldsBytes(r) THEN @ - r.size ELSE @,
         !.refs = IF ~r.blob THEN @
                  ELSE IF last THEN Restrict(@, DOMAIN @ \ {r.hash})
                  ELSE [@ EXCEPT ![r.hash] = @ - 1],
         !.blob = IF last THEN Restrict(@, DOMAIN @ \ {r.hash}) ELSE @,
         !.physical = IF last THEN @ - r.size ELSE @]

BySequence(records) == SetToSortSeq(records, LAMBDA r, s : r.seq < s.seq)
Protected(h, r) == r.id \in {FileOf(h, r.lineage).head, FileOf(h, r.lineage).recoverable}

(* Makes room: the oldest records that hold bytes and are not protected go *)
(* until the limit is kept.                                                *)
OverLimit(h) == h.policy.maxBytes > 0 /\ h.bytes > h.policy.maxBytes

Evict(h, old) ==
    LET page == SubSeq(BySequence(old), 1, IF Cardinality(old) < EvictPage THEN Cardinality(old) ELSE EvictPage)
        DropIf(g, r) ==
            IF OverLimit(g) /\ HoldsBytes(r) /\ ~Protected(g, r) THEN DropRecord(g, r) ELSE g
    IN FoldLeft(DropIf, h, page)

(* history_capture. The verdict is "off" or "same" (nothing recorded),     *)
(* "tracked", "need" (a hash must be prepared) or "full" (the byte limit   *)
(* cannot be kept): the last two abort the script that captures.           *)
Bind(h, op, changes, plans) ==
    LET BindOne(g, i) ==
            IF ~plans[i].bind THEN g
            ELSE [g EXCEPT !.files = (LineageOf(op, changes[i]) :>
                    [FileOf(g, LineageOf(op, changes[i])) EXCEPT
                       !.inode = IF changes[i].after.type = "none" THEN 0 ELSE changes[i].id]) @@ @]
    IN FoldLeft(BindOne, h, [i \in DOMAIN changes |-> i])

(* Carries out the plans, one for each change.                             *)
Carry(h, op, changes, plans) ==
    LET added == FlattenSeq([i \in DOMAIN plans |-> plans[i].records])
        grown == FoldLeft(AddRecord, h, added)
        evicted == Evict(grown, h.records)
        Result(verdict, next) == [verdict |-> verdict, h |-> next, plans |-> plans]
    IN CASE h.policy.mode = "off" /\ ~\E i \in DOMAIN changes : changes[i].force ->
              [verdict |-> "off", h |-> h,
               plans |-> [i \in DOMAIN changes |-> [bind |-> FALSE, hash |-> <<>>]]]
         [] \E i \in DOMAIN plans : plans[i].need -> Result("need", h)
         [] added = <<>> -> Result("same", Bind(h, op, changes, plans))
         [] OverLimit(evicted) -> Result("full", h)
         [] OTHER -> Result("tracked", Bind(evicted, op, changes, plans))

HistoryCapture(h, op, changes, prepared) ==
    Carry(h, op, changes, [i \in DOMAIN changes |-> PlanOf(h, op, changes[i], prepared)])

(* The history fields of the inode a captured change leaves behind.        *)
Bound_KeepsHash(op, ch, plan) ==
    IF plan.bind THEN [ch.after EXCEPT !.hid = LineageOf(op, ch), !.hrev = ch.after.rev] ELSE ch.after
Bound(op, ch, plan) ==
    IF plan.bind
    THEN [ch.after EXCEPT !.hid = LineageOf(op, ch), !.hrev = ch.after.rev, !.hhash = plan.hash]
    ELSE ch.after

---------------------------------------------------------------------------
(* pruneScript: one page of the rotating retention sweep.                  *)
Prune(h) ==
    LET p == h.policy
        later == BySequence({r \in h.records : r.seq > h.cursor})
        page == SubSeq(later, 1, IF Len(later) < PrunePage THEN Len(later) ELSE PrunePage)
        Versions(g, r) == Cardinality({s \in g.records : s.lineage = r.lineage})
        DropIf(g, r) ==
            IF /\ ~Protected(h, r)
               /\ \/ p.maxVersions > 0 /\ Versions(g, r) > p.maxVersions
                  \/ p.maxAge > 0 /\ r.day + p.maxAge <= h.day
                  \/ OverLimit(g)
            THEN DropRecord(g, r) ELSE g
        swept == FoldLeft(DropIf, h, page)
    IN IF p.maxVersions = 0 /\ p.maxAge = 0 /\ p.maxBytes = 0 THEN h
       ELSE [swept EXCEPT !.cursor = IF Len(page) < PrunePage THEN 0 ELSE Last(page).seq]

SetPolicy(h, policy) == [h EXCEPT !.policy = policy, !.cursor = 0]
=============================================================================
