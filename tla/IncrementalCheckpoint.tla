------------------------ MODULE IncrementalCheckpoint ------------------------
(***************************************************************************)
(* The v9 page tier: commits whose physical deltas are applied to cached   *)
(* pages once their WAL record is durable (crud.rs), the dirty-page table  *)
(* (redo.rs), the write-behind pass with its double-write area             *)
(* (checkpoint/write_behind.rs, doublewrite.rs), the incremental           *)
(* checkpoint that cuts the WAL (checkpoint/producer.rs, wal/reclaim.rs)   *)
(* and the recovery that redoes from its floor (wal/replay.rs, redo.rs).   *)
(*                                                                         *)
(* A page's content is its page LSN and the LSNs of the deltas it holds.   *)
(* A WAL record is the set of its deltas, applied in LSN order; it carries *)
(* the commit LSN, which is the highest, and the lowest one.  Which commit *)
(* a checkpoint freeze excludes and the order of Phase 3 are TxnManager's; *)
(* the order of a replay is Replay's.                                      *)
(***************************************************************************)
EXTENDS Integers, Sequences, FiniteSets

CONSTANTS NumPages,    \* pages 1 .. NumPages; page 1 exists from the start
          MaxLsn,      \* bound on delta LSNs
          MaxInflight, \* bound on concurrent commits
          BatchPages,  \* WriteBehindCheckpointer::batch_pages
          Tiers,       \* durability tiers in use
          MaxCk,       \* bound on checkpoint passes
          MaxFaults    \* bound on crashes and I/O errors

Pages == 1 .. NumPages

ASSUME ConstAssumption ==
  /\ {NumPages, MaxLsn, MaxInflight, BatchPages} \subseteq Nat \ {0}
  /\ Tiers \subseteq {"Strict", "Periodic"}
  /\ {MaxCk, MaxFaults} \subseteq Nat

VARIABLES
  clock, visible,  \* last LSN allocated; last commit published
  inflight,        \* commits holding checkpoint_lock.read, in LSN order
  live,            \* pages whose PageAlloc is published
  deferred,        \* deferred_v9_applies: durable only later
  apc, work,       \* drain and apply: where it is, deltas left
  cache, rec,      \* cached pages; DPT recLSNs (0: not dirty)
  wal, synced,     \* records appended, with their segment; how many are fsynced
  seg, oldest,     \* the active segment; the oldest one not deleted
  home, dwb,       \* home pages; the staged double-write batch
  sidecar,         \* the established checkpoint
  cpc, todo, image, stale,  \* the pass: step, pages left, copies, dirtied since
  horizon, meta,   \* preflush horizon; captured metadata
  passes, faults,
  mode, redo,      \* "up", "redo" or "refused"; deltas that recovery has left
  seen             \* history of named events

commitVars == <<clock, visible, inflight, live, deferred, apc, work>>
pageVars == <<cache, rec, stale>>
walVars == <<wal, synced, seg, oldest>>
diskVars == <<home, dwb, sidecar>>
passVars == <<cpc, todo, image, horizon, meta, passes>>
modeVars == <<mode, redo>>
vars == <<commitVars, pageVars, walVars, diskVars, passVars, faults, modeVars, seen>>

NoPage == [lsn |-> -1, has |-> {}]
Torn == [lsn |-> -2, has |-> {}]
Fresh == [lsn |-> 0, has |-> {}]
NoBatch == [p \in {} |-> NoPage]
NoCheckpoint == [lsn |-> 1, redo |-> 1, rec |-> [p \in Pages |-> 0], capture |-> 1]
OnePage == [p \in Pages |-> IF p = 1 THEN [lsn |-> 1, has |-> {1}] ELSE NoPage]

Init ==
  /\ clock = 1 /\ visible = 1 /\ inflight = <<>> /\ live = {1}
  /\ deferred = <<>> /\ apc = "idle" /\ work = {}
  /\ cache = OnePage /\ rec = [p \in Pages |-> 0] /\ stale = {}
  /\ wal = <<>> /\ synced = 0 /\ seg = 1 /\ oldest = 1
  /\ home = OnePage /\ dwb = NoBatch /\ sidecar = NoCheckpoint
  /\ cpc = "idle" /\ todo = {} /\ image = NoBatch /\ horizon = 0
  /\ meta = NoCheckpoint /\ passes = 0
  /\ faults = 0 /\ mode = "up" /\ redo = {} /\ seen = {}

(***************************************************************************)
(* Commit: reserve slots and allocate the LSN range, append, publish.      *)
(***************************************************************************)
Op(n, p, k) == [lsn |-> n, page |-> p, kind |-> k]
Allocated(b) == {op.page : op \in {o \in b.ops : o.kind = "alloc"}}
Pending == UNION {Allocated(inflight[i].bundle) : i \in 1 .. Len(inflight)}

Bundle(last, ops) == [first |-> clock + 1, lsn |-> last, ops |-> ops]

\* A record goes to a fresh page of its own transaction, or to a published one.
Bundles ==
  {Bundle(clock + 2, {Op(clock + 1, p, "alloc"), Op(clock + 2, p, "put")}) :
     p \in Pages \ (live \cup Pending)}
    \cup {Bundle(clock + 1, {Op(clock + 1, p, "put")}) : p \in live}
    \cup {Bundle(clock + 2, {Op(clock + 1, x[1], "put"), Op(clock + 2, x[2], "put")}) :
            x \in {y \in live \X live : y[1] < y[2]}}

\* The drain of a checkpoint holds checkpoint_lock.write.
Freezing == cpc \in {"draining", "draining2"}

Allocate ==
  /\ ~Freezing /\ Len(inflight) < MaxInflight
  /\ \E b \in Bundles, t \in Tiers :
       /\ b.lsn <= MaxLsn
       /\ clock' = b.lsn
       /\ inflight' = Append(inflight, [bundle |-> b, tier |-> t])
  /\ UNCHANGED <<visible, live, deferred, apc, work, pageVars, walVars, diskVars,
                 passVars, faults, modeVars, seen>>

Entry(b, s) == [bundle |-> b, seg |-> s]
Logged == {wal[i].bundle : i \in 1 .. Len(wal)}
Durable == {wal[i].bundle : i \in 1 .. synced}

\* The record joins the active segment, or the next one after a rotation,
\* which leaves the old segment fsynced.
LogAppend ==
  /\ \E i \in 1 .. Len(inflight) :
       /\ inflight[i].bundle \notin Logged
       /\ \/ /\ wal' = Append(wal, Entry(inflight[i].bundle, seg))
             /\ UNCHANGED <<synced, seg>>
          \/ /\ \E j \in 1 .. Len(wal) : wal[j].seg = seg
             /\ wal' = Append(wal, Entry(inflight[i].bundle, seg + 1))
             /\ synced' = Len(wal) /\ seg' = seg + 1
  /\ UNCHANGED <<commitVars, pageVars, oldest, diskVars, passVars, faults, modeVars, seen>>

LogSync ==
  /\ synced < Len(wal)
  /\ synced' = Len(wal)
  /\ UNCHANGED <<commitVars, pageVars, wal, seg, oldest, diskVars, passVars, faults,
                 modeVars, seen>>

(***************************************************************************)
(* DirtyPageTable::mark_dirty keeps the first recLSN and takes a new       *)
(* dirty_gen, which tells a pass that its snapshot of the entry is old.    *)
(***************************************************************************)
MarkedRec(r, op) == [r EXCEPT ![op.page] = IF @ = 0 THEN op.lsn ELSE @]

MarkDirty(op) ==
  /\ rec' = MarkedRec(rec, op)
  /\ stale' = stale \cup ({op.page} \cap (todo \cup DOMAIN image))

\* apply_redo_if_newer
Newer(c, op) ==
  IF c.lsn < op.lsn THEN [lsn |-> op.lsn, has |-> c.has \cup {op.lsn}] ELSE c

IsNext(op, ops) == op \in ops /\ \A o \in ops : op.lsn <= o.lsn

\* One delta of apply_durable_v9_deltas.  A PageAlloc on a page nobody has
\* installs the formatted page and marks it dirty, then pins and stamps it.
ApplyDelta ==
  \E op \in work :
    /\ IsNext(op, work)
    /\ MarkDirty(op)
    /\ IF op.kind = "alloc" /\ cache[op.page] = NoPage
         THEN cache' = [cache EXCEPT ![op.page] = Fresh] /\ UNCHANGED work
         ELSE /\ cache' = [cache EXCEPT ![op.page] = Newer(@, op)]
              /\ work' = work \ {op}

(***************************************************************************)
(* Phase 3: apply_or_defer_v9_deltas, then publication.                    *)
(***************************************************************************)
Ready(c) == c.bundle \in Logged /\ (c.tier = "Strict" => c.bundle \in Durable)

Publish ==
  /\ visible' = inflight[1].bundle.lsn
  /\ live' = live \cup Allocated(inflight[1].bundle)
  /\ inflight' = Tail(inflight)
  /\ apc' = "idle"

FrontDurable == deferred # <<>> /\ deferred[1] \in Durable

Turn ==
  /\ apc = "idle" /\ inflight # <<>> /\ Ready(inflight[1])
  /\ apc' = "drain"
  /\ UNCHANGED <<clock, visible, inflight, live, deferred, work, pageVars, walVars,
                 diskVars, passVars, faults, modeVars, seen>>

DrainFront ==
  /\ apc = "drain" /\ FrontDurable
  /\ work' = deferred[1].ops
  /\ apc' = "front"
  /\ UNCHANGED <<clock, visible, inflight, live, deferred, pageVars, walVars,
                 diskVars, passVars, faults, modeVars, seen>>

DrainStop ==
  /\ apc = "drain" /\ ~FrontDurable /\ ~Freezing
  /\ apc' = "decide"
  /\ UNCHANGED <<clock, visible, inflight, live, deferred, work, pageVars, walVars,
                 diskVars, passVars, faults, modeVars, seen>>

\* Mutant of ApplyOrDefer: a durable commit overtakes the queue.
ApplyOvertaking ==
  /\ apc = "decide"
  /\ IF inflight[1].bundle \in Durable
       THEN /\ work' = inflight[1].bundle.ops /\ apc' = "own"
            /\ UNCHANGED <<visible, live, inflight, deferred>>
       ELSE /\ deferred' = Append(deferred, inflight[1].bundle)
            /\ Publish
            /\ UNCHANGED work
  /\ UNCHANGED <<clock, pageVars, walVars, diskVars, passVars, faults, modeVars, seen>>

\* Mutant of ApplyOrDefer: pages are changed before the record is durable.
ApplyUnproven ==
  /\ apc = "decide"
  /\ work' = inflight[1].bundle.ops /\ apc' = "own"
  /\ UNCHANGED <<visible, live, inflight, deferred>>
  /\ UNCHANGED <<clock, pageVars, walVars, diskVars, passVars, faults, modeVars, seen>>

ApplyOrDefer ==
  /\ apc = "decide"
  /\ IF deferred = <<>> /\ inflight[1].bundle \in Durable
       THEN /\ work' = inflight[1].bundle.ops /\ apc' = "own"
            /\ UNCHANGED <<visible, live, inflight, deferred>>
       ELSE /\ deferred' = Append(deferred, inflight[1].bundle)
            /\ Publish
            /\ UNCHANGED work
  /\ UNCHANGED <<clock, pageVars, walVars, diskVars, passVars, faults, modeVars, seen>>

ApplyFront ==
  /\ apc = "front"
  /\ ApplyDelta
  /\ IF work' = {} THEN deferred' = Tail(deferred) /\ apc' = "drain"
                     ELSE UNCHANGED <<deferred, apc>>
  /\ UNCHANGED <<clock, visible, inflight, live, walVars, diskVars, passVars,
                 faults, modeVars, seen>>

ApplyOwn ==
  /\ apc = "own"
  /\ ApplyDelta
  /\ IF work' = {} THEN Publish ELSE UNCHANGED <<visible, live, inflight, apc>>
  /\ UNCHANGED <<clock, deferred, walVars, diskVars, passVars, faults, modeVars, seen>>

(***************************************************************************)
(* The incremental checkpoint.  establish_durability flushes the WAL, then *)
(* drains the durable front of the queue under the freeze.                 *)
(***************************************************************************)
Frozen == inflight = <<>>

CkGoto(from, to) == cpc = from /\ cpc' = to

CkBegin ==
  /\ Frozen /\ passes < MaxCk
  /\ CkGoto("idle", "flush")
  /\ passes' = passes + 1
  /\ horizon' = visible
  /\ UNCHANGED <<commitVars, pageVars, walVars, diskVars, todo, image, meta,
                 faults, modeVars, seen>>

CkFlush ==
  /\ CkGoto("flush", "drain") \/ CkGoto("flush2", "drain2")
  /\ synced' = Len(wal)
  /\ UNCHANGED <<commitVars, pageVars, wal, seg, oldest, diskVars, todo, image, horizon,
                 meta, passes, faults, modeVars, seen>>

\* Mutant of CkDrain: the first barrier leaves the queue alone.
CkDrainSecondOnly ==
  /\ Frozen
  /\ \/ CkGoto("drain", "snapshot") /\ UNCHANGED apc
     \/ CkGoto("drain2", "draining2") /\ apc' = "drain"
  /\ UNCHANGED <<clock, visible, inflight, live, deferred, work, pageVars, walVars, diskVars,
                 todo, image, horizon, meta, passes, faults, modeVars, seen>>

\* The same drain_deferred_v9_applies as a commit's (DrainFront, ApplyFront).
CkDrain ==
  /\ Frozen
  /\ CkGoto("drain", "draining") \/ CkGoto("drain2", "draining2")
  /\ apc' = "drain"
  /\ UNCHANGED <<clock, visible, inflight, live, deferred, work, pageVars, walVars, diskVars,
                 todo, image, horizon, meta, passes, faults, modeVars, seen>>

CkDrained ==
  /\ apc = "drain" /\ ~FrontDurable
  /\ CkGoto("draining", "snapshot") \/ CkGoto("draining2", "sidecar")
  /\ apc' = "idle"
  /\ UNCHANGED <<clock, visible, inflight, live, deferred, work, pageVars, walVars, diskVars,
                 todo, image, horizon, meta, passes, faults, modeVars, seen>>

(***************************************************************************)
(* flush_pass: snapshot the table, then copy, stage, write home and        *)
(* complete one batch after another.  No commit is held up.                *)
(***************************************************************************)
Dirty == {p \in Pages : rec[p] # 0}

CkSnapshot ==
  /\ CkGoto("snapshot", "copy")
  /\ todo' = Dirty
  /\ UNCHANGED <<commitVars, pageVars, walVars, diskVars, image, horizon, meta, passes,
                 faults, modeVars, seen>>

\* Mutant of BatchFull: the size test comes one page late.
BatchFullLate == Cardinality(DOMAIN image) > BatchPages \/ (todo = {} /\ DOMAIN image # {})

BatchFull == Cardinality(DOMAIN image) = BatchPages \/ (todo = {} /\ DOMAIN image # {})

CkCopy ==
  /\ cpc = "copy" /\ ~BatchFull
  /\ \E p \in todo :
       /\ \A q \in todo : p <= q
       /\ image' = [q \in DOMAIN image \cup {p} |-> IF q = p THEN cache[p] ELSE image[q]]
       /\ todo' = todo \ {p}
       /\ seen' = IF cache[p] = Fresh THEN seen \cup {"unstamped"} ELSE seen
  /\ UNCHANGED <<commitVars, pageVars, walVars, diskVars, cpc, horizon, meta, passes,
                 faults, modeVars>>

CkCopied ==
  /\ \/ CkGoto("copy", "stage") /\ BatchFull
     \/ CkGoto("copy", "capture") /\ todo = {} /\ image = NoBatch
  /\ UNCHANGED <<commitVars, pageVars, walVars, diskVars, todo, image, horizon, meta, passes,
                 faults, modeVars, seen>>

\* Mutant of CkStage: home writes start without the staged copy.
CkStageSkipped ==
  /\ CkGoto("stage", "home")
  /\ UNCHANGED <<commitVars, pageVars, walVars, diskVars, todo, image, horizon, meta,
                 passes, faults, modeVars, seen>>

CkStage ==
  /\ CkGoto("stage", "home")
  /\ dwb' = image
  /\ UNCHANGED <<commitVars, pageVars, walVars, home, sidecar, todo, image, horizon, meta,
                 passes, faults, modeVars, seen>>

CkHome ==
  /\ CkGoto("home", "complete")
  /\ home' = [p \in Pages |-> IF p \in DOMAIN image THEN image[p] ELSE home[p]]
  /\ UNCHANGED <<commitVars, pageVars, walVars, dwb, sidecar, todo, image, horizon, meta,
                 passes, faults, modeVars, seen>>

\* Mutant of CkComplete: the entry goes although the page was dirtied again.
CkCompleteAny ==
  /\ CkGoto("complete", "copy")
  /\ rec' = [p \in Pages |-> IF p \in DOMAIN image THEN 0 ELSE rec[p]]
  /\ image' = NoBatch /\ stale' = stale \ DOMAIN image
  /\ UNCHANGED <<commitVars, cache, walVars, diskVars, todo, horizon, meta, passes,
                 faults, modeVars, seen>>

\* complete_flush removes an entry whose dirty_gen is still the snapshot's.
CkComplete ==
  /\ CkGoto("complete", "copy")
  /\ rec' = [p \in Pages |-> IF p \in DOMAIN image \ stale THEN 0 ELSE rec[p]]
  /\ image' = NoBatch /\ stale' = stale \ DOMAIN image
  /\ UNCHANGED <<commitVars, cache, walVars, diskVars, todo, horizon, meta, passes,
                 faults, modeVars, seen>>

(***************************************************************************)
(* Capture under the freeze, metadata, second barrier, sidecar, reclaim.   *)
(***************************************************************************)
\* deferred_v9_boundary clamps the frontier and the redo floor.
Frontier ==
  IF deferred # <<>> /\ deferred[1].lsn - 1 < visible THEN deferred[1].lsn - 1 ELSE visible

Floors ==
  (IF Dirty = {} THEN {Frontier} ELSE {rec[p] : p \in Dirty})
    \cup (IF deferred = <<>> THEN {} ELSE {deferred[1].first})

CkCapture ==
  /\ Frozen
  /\ CkGoto("capture", "metadata")
  /\ \E r \in Floors :
       /\ \A f \in Floors : r <= f
       /\ meta' = [lsn |-> Frontier, redo |-> r, rec |-> rec, capture |-> 0]
  /\ UNCHANGED <<commitVars, pageVars, walVars, diskVars, todo, image, horizon, passes,
                 faults, modeVars, seen>>

\* The owners are captured while commits run, with whatever their builders
\* have already changed.
CkMetadata ==
  /\ CkGoto("metadata", "horizon2")
  /\ meta' = [meta EXCEPT !.capture = clock]
  /\ UNCHANGED <<commitVars, pageVars, walVars, diskVars, todo, image, horizon, passes,
                 faults, modeVars, seen>>

\* Mutant of CkHorizon: the builders are not waited out.
CkHorizonAtOnce ==
  /\ CkGoto("horizon2", "flush2")
  /\ UNCHANGED <<commitVars, pageVars, walVars, diskVars, todo, image, horizon, meta,
                 passes, faults, modeVars, seen>>

CkHorizon ==
  /\ Frozen
  /\ CkGoto("horizon2", "flush2")
  /\ UNCHANGED <<commitVars, pageVars, walVars, diskVars, todo, image, horizon, meta,
                 passes, faults, modeVars, seen>>

CkSidecar ==
  /\ CkGoto("sidecar", "reclaim")
  /\ sidecar' = meta
  /\ UNCHANGED <<commitVars, pageVars, walVars, home, dwb, todo, image, horizon, meta,
                 passes, faults, modeVars, seen>>

\* reclaim_segments_below(redo_lsn): closed segments from the oldest, while no
\* commit in them is above.
OldestEntries == {wal[i] : i \in {j \in 1 .. Len(wal) : wal[j].seg = oldest}}
Reclaimable == oldest < seg /\ \A e \in OldestEntries : e.bundle.lsn <= meta.redo

\* The segment holds the delta at the redo floor, and its page is not at home.
AtFloor ==
  \E e \in OldestEntries : \E op \in e.bundle.ops :
    op.lsn = meta.redo /\ meta.rec[op.page] = op.lsn

CkReclaim ==
  /\ cpc = "reclaim" /\ Reclaimable
  /\ oldest' = oldest + 1
  /\ seen' = IF AtFloor THEN seen \cup {"floor deleted"} ELSE seen
  /\ UNCHANGED <<commitVars, pageVars, wal, synced, seg, diskVars, passVars, faults, modeVars>>

CkDone ==
  /\ CkGoto("reclaim", "idle") /\ ~Reclaimable
  /\ horizon' = 0 /\ meta' = NoCheckpoint
  /\ UNCHANGED <<commitVars, pageVars, walVars, diskVars, todo, image, passes,
                 faults, modeVars, seen>>

(***************************************************************************)
(* An interrupted stage_batch leaves the old batch, none or the new one;   *)
(* an interrupted home write leaves each page old, new or torn.            *)
(***************************************************************************)
StageLeft == IF cpc = "stage" THEN {dwb, NoBatch, image} ELSE {dwb}
HomeLeft ==
  IF cpc # "home" THEN {home}
  ELSE {[p \in Pages |-> IF p \notin DOMAIN image \/ o[p] = "old" THEN home[p]
                         ELSE IF o[p] = "new" THEN image[p] ELSE Torn] :
          o \in [DOMAIN image -> {"old", "new", "torn"}]}

PassOver ==
  /\ cpc' = "idle" /\ todo' = {} /\ image' = NoBatch /\ stale' = {}
  /\ horizon' = 0 /\ meta' = NoCheckpoint

\* The pass fails with an I/O error and the process goes on.
CkIoError ==
  /\ faults < MaxFaults /\ cpc \in {"stage", "home"}
  /\ faults' = faults + 1
  /\ dwb' \in StageLeft /\ home' \in HomeLeft
  /\ seen' = IF cpc = "home" THEN seen \cup {"home error"} ELSE seen
  /\ PassOver
  /\ UNCHANGED <<commitVars, cache, rec, walVars, sidecar, passes, modeVars>>

(***************************************************************************)
(* Recovery: restore the double-write batch, load the home pages, redo in  *)
(* LSN order.                                                              *)
(***************************************************************************)
Restored(h, d) ==
  [p \in Pages |->
     IF p \in DOMAIN d /\ (h[p] \in {NoPage, Torn} \/ h[p].lsn < d[p].lsn)
     THEN d[p] ELSE h[p]]

OnDisk(w) == {w[i].bundle : i \in {j \in 1 .. Len(w) : w[j].seg >= oldest}}

\* Replay keeps what is above the frontier, and below it what reaches the floor.
RedoOps(w) ==
  UNION {{op \in b.ops : b.lsn > sidecar.lsn \/ op.lsn >= sidecar.redo} : b \in OnDisk(w)}

\* Some of the records after the last fsync survive, in order; a page that is
\* torn after the restore is refused when the base is loaded.
Crash ==
  /\ mode # "refused" /\ faults < MaxFaults
  /\ faults' = faults + 1
  /\ \E n \in synced .. Len(wal), h \in HomeLeft, d \in StageLeft :
       /\ wal' = SubSeq(wal, 1, n) /\ synced' = n
       /\ redo' = RedoOps(SubSeq(wal, 1, n))
       /\ home' = Restored(h, d) /\ dwb' = d
  /\ cache' = home' /\ rec' = sidecar.rec
  /\ mode' = IF \E p \in Pages : home'[p] = Torn THEN "refused" ELSE "redo"
  /\ inflight' = <<>> /\ deferred' = <<>> /\ apc' = "idle" /\ work' = {}
  /\ PassOver
  /\ UNCHANGED <<clock, visible, live, seg, oldest, sidecar, passes, seen>>

\* apply_recovery_delta formats the page, skips what the page has, applies what
\* it lacks, or refuses.
RedoPage(op, c) ==
  /\ cache' = [cache EXCEPT ![op.page] = c]
  /\ rec' = MarkedRec(rec, op)
  /\ redo' = redo \ {op}
  /\ UNCHANGED mode

RedoDelta ==
  /\ mode = "redo"
  /\ \E op \in redo :
       LET c == cache[op.page] IN
         /\ IsNext(op, redo)
         /\ \/ /\ c = NoPage /\ op.kind = "alloc"
               /\ RedoPage(op, [lsn |-> op.lsn, has |-> {op.lsn}])
            \/ /\ c # NoPage /\ c.lsn >= op.lsn
               /\ redo' = redo \ {op}
               /\ UNCHANGED <<cache, rec, mode>>
            \/ /\ c # NoPage /\ c.lsn < op.lsn /\ op.kind = "put"
               /\ RedoPage(op, Newer(c, op))
            \/ /\ IF c = NoPage THEN op.kind = "put" ELSE c.lsn < op.lsn /\ op.kind = "alloc"
               /\ mode' = "refused"
               /\ UNCHANGED <<cache, rec, redo>>
  /\ UNCHANGED <<commitVars, stale, walVars, diskVars, passVars, faults, seen>>

\* seed_after_replay
RedoDone ==
  /\ mode = "redo" /\ redo = {}
  /\ mode' = "up"
  /\ live' = {p \in Pages : cache[p] # NoPage}
  /\ \E n \in {sidecar.lsn} \cup {b.lsn : b \in OnDisk(wal)} :
       /\ sidecar.lsn <= n /\ \A b \in OnDisk(wal) : b.lsn <= n
       /\ visible' = n /\ clock' = n
  /\ UNCHANGED <<inflight, deferred, apc, work, pageVars, walVars, diskVars, passVars,
                 faults, redo, seen>>
-----------------------------------------------------------------------------
CommitStep ==
  \/ Allocate \/ LogAppend \/ LogSync
  \/ Turn \/ DrainFront \/ DrainStop \/ ApplyOrDefer \/ ApplyFront \/ ApplyOwn

CheckpointStep ==
  \/ CkBegin \/ CkFlush \/ CkDrain \/ CkDrained \/ CkSnapshot \/ CkCopy \/ CkCopied
  \/ CkStage \/ CkHome \/ CkComplete \/ CkCapture \/ CkMetadata \/ CkHorizon
  \/ CkSidecar \/ CkReclaim \/ CkDone \/ CkIoError

Next ==
  \/ mode = "up" /\ (CommitStep \/ CheckpointStep)
  \/ Crash \/ RedoDelta \/ RedoDone
Spec == Init /\ [][Next]_vars
-----------------------------------------------------------------------------
Lsns == 1 .. MaxLsn
Ops == [lsn : Lsns, page : Pages, kind : {"alloc", "put"}]
Records == [first : Lsns, lsn : Lsns, ops : SUBSET Ops]
Contents == [lsn : -2 .. MaxLsn, has : SUBSET Lsns]

\* Pages hold LSNs that were handed out, batches are of dirty pages and no
\* larger than batch_pages, and the queue and the log hold whole records.
TypeOK ==
  /\ clock \in Lsns /\ visible \in 1 .. clock /\ live \subseteq Pages
  /\ inflight \in Seq([bundle : Records, tier : Tiers])
  /\ Len(inflight) <= MaxInflight
  /\ deferred \in Seq(Records) /\ work \subseteq Ops
  /\ apc \in {"idle", "drain", "front", "decide", "own"}
  /\ wal \in Seq([bundle : Records, seg : Nat]) /\ synced \in 0 .. Len(wal)
  /\ seg \in Nat /\ oldest \in 1 .. seg
  /\ cache \in [Pages -> Contents] /\ home \in [Pages -> Contents]
  /\ rec \in [Pages -> 0 .. clock] /\ stale \subseteq Pages /\ todo \subseteq Pages
  /\ DOMAIN image \subseteq Dirty
  /\ image \in [DOMAIN image -> Contents] /\ dwb \in [DOMAIN dwb -> Contents]
  /\ Cardinality(DOMAIN image) <= BatchPages /\ Cardinality(DOMAIN dwb) <= BatchPages
  /\ mode \in {"up", "redo", "refused"} /\ redo \subseteq Ops

InFlight == {inflight[i].bundle : i \in 1 .. Len(inflight)}
Queued == {deferred[i] : i \in 1 .. Len(deferred)}
Unsettled == InFlight \cup Queued
Kept == \A b \in Durable \ Unsettled : \A op \in b.ops : op.lsn \in cache[op.page].has

\* No durable commit loses a page change, across flushes, checkpoints, segment
\* reclamation and recoveries (reclaim.rs: never delete a segment whose effects
\* the checkpoint has not captured).
DurableKept == mode = "up" => Kept

\* The same as long as no reclamation deleted the delta at the redo floor.
KeptAboveFloor == (mode = "up" /\ "floor deleted" \notin seen) => Kept

\* Recovery refuses the directory only over a page that was copied before its
\* PageAlloc was stamped or torn by a failed home write; no crash alone, and no
\* crash inside the double-write protocol, makes it refuse.
RefusalExplained == mode = "refused" => seen \cap {"unstamped", "home error"} # {}

\* Recovery never refuses what the running system left on disk.
NeverRefused == mode # "refused"

\* Write-ahead: home pages and staged batches hold deltas of durable commits only.
DurableOn(p) == {op.lsn : op \in {o \in UNION {b.ops : b \in Durable} : o.page = p}}

HomeBehindWal ==
  \A p \in Pages :
    /\ home[p].has \ {1} \subseteq DurableOn(p)
    /\ p \in DOMAIN dwb => dwb[p].has \ {1} \subseteq DurableOn(p)

\* The table's recLSN of a page is at or below every delta that the home page
\* lacks, whatever the pass and the appliers did to it in between.
RecLsnCovers ==
  mode = "up" => \A p \in Pages : \A n \in cache[p].has \ home[p].has :
    home[p] # Torn => rec[p] \in 1 .. n

\* A checkpoint names a frontier no lower than the commits that were complete
\* when it began: the first barrier unclamps a quiescent queue.
FrontierReachesHorizon == cpc = "reclaim" => sidecar.lsn >= horizon

\* An established checkpoint contains no effect of a commit that a crash could
\* still lose, although its owners were captured outside the freeze.
CaptureIsDurable ==
  \A b \in Unsettled : b.lsn <= sidecar.capture => b \in Durable
=============================================================================
