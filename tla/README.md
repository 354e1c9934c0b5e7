# The ArcGraph storage engine in TLA+

ArcGraph is a property-graph database in Rust. This project models the part of
it where a mistake costs data: the transaction manager, the write-ahead log
writer, both checkpoint and reclamation paths, and the recovery of
`crates/arcgraph-storage`. Small instances are checked with TLC. The safety
properties, with the exceptions named at the end of section 5, and the refinement
of snapshot isolation are proved with TLAPS for every value of the constants.
Paths below are relative to `src/crates/arcgraph-storage/src/` unless they start
with a crate name.

## 1. Inventory

| part | state | operations |
|---|---|---|
| transaction manager, `transaction.rs` | version chains, LSN counter, `visible`, `install_order`, `active` map, `begin_generation`, `commit_gate`, `checkpoint_lock` | begin, buffer a write, commit (v8 and delta bundles), standalone index commit, abort, rollback, gc, freeze |
| WAL writer, `wal/writer.rs` | byte budget, command channel, pending batch, watermark | `append`, `append_async`, flush, shutdown, the writer loop, `fire` |
| background fsync, `wal/background_fsync.rs` | interval, fail action | a flush per tick |
| segments, `wal/segment.rs`, `wal/reclaim.rs` | numbered files, active segment | append with rotation, fsync, delete below a frontier |
| checkpoint, `checkpoint/` | CHECKPOINT.snap, sidecar | capture under the freeze, two renames, restore |
| incremental checkpoint, `checkpoint/write_behind.rs`, `doublewrite.rs`, `redo.rs` | dirty pages, redo floor, double-write file | write-behind, torn-page repair |
| replay, `wal/recovery.rs`, `wal/replay.rs` | reorder buffer, spill files | ordered, idempotent re-application |
| intern table, `intern.rs` | names, set of proven names | intern, log, rebuild |
| CRUD, indexes, pages, buffer pool, owner rows, catalog | pages, trees, page images | the bundle builder and the rollback closure of a commit |
| server, query engine, vector, full-text, community | sessions, plans, derived indexes | requests over snapshots |

How they interact: a commit takes the read side of `checkpoint_lock`, validates
and installs silently under `commit_gate` (Phase 1), appends its bundle to the
WAL outside the gate (Phase 2), and in LSN order publishes, or rolls back under
the gate (Phase 3). The WAL writer answers a Strict append after the fsync and a
Periodic one when it enters the batch. The checkpointer takes the write side of
the lock, captures, renames two files, deletes segments below its LSN and runs
gc. Recovery restores the snapshot and replays what the WAL still has, in commit
order. A v9 directory does the same with pages: a commit's deltas are applied to
cached pages once its record is durable, a write-behind pass writes dirty pages
home through a double-write file while commits go on, the checkpoint records the
oldest delta still needed, and recovery redoes from there.

The hard behaviours are the interleaving of the phases of several commits with
begins and gc; a failure in Phase 2 after successors have validated; batches
that fail with callers already answered; the writer thread dying with callers
blocked on the budget; a log whose order is not the commit order, replayed
through a bounded buffer; pages dirtied again while they are flushed; and a crash
at any point of a batch, a rotation, a checkpoint, a home write, a reclamation or
a replay. `PROJECT.json` lists each one as a hazard, at the
line where it bites.

## 2. Modules

- **TxnManager** models `transaction.rs`. `pc` is where each thread stands. An
  action is a step between two points at which another thread can get in: the
  four steps of `begin_inner`; one key of an install or a rollback under the
  gate; the stores to `visible` and `install_order` separately; gc's generation
  reads, shard visits, `visible` load and per-chain retain separately. A version
  is its `[created, expired]` pair and a chain the set of its versions.
  `DeltaMode` selects the v9/v10 path (builder under the gate before the
  allocation, redo ranges of several LSNs) or the v8 path (builder after the
  install and outside the gate).
- **TxnInvariant** states the inductive invariant `IInv`. The proofs are a chain
  of modules, each extending the one before: **TxnStepProofs** (types, and what
  each group of actions does to each part of the invariant), **TxnManagerProofs**
  (the invariant as a whole and what follows from it) and **TxnReadProofs** (what
  transactions read, and the refinement).
- **SnapshotIsolation** is the abstract promise: a transaction sees the store as
  of one instant and commits at one later instant if its keys are unchanged.
  **TxnRefinesSI** maps the manager to it. What a transaction sees is mapped to
  what `read_at` would return to it *in the current state*, so the refinement
  fails if one read changes under a running transaction.
- **WalWriter** models `wal/writer.rs` and the tick of the background fsync. An
  appender is one call; the writer thread's `fire` is release, write, fsync, as
  separate steps. `AssignedLsns` says which LSN comes with a call (v9/v10
  commits); for 0 the writer draws one.
- **Checkpoint** models durability end to end for the full-state data directory:
  a commit reduced to allocate, enqueue, publish; batches and rotation; the
  intern records; the checkpoint pass; reclamation; crash; recovery. A commit's
  effect is its LSN, so what a state contains is a set of LSNs.
- **Replay** models `wal/replay.rs` and `wal/spill.rs`: the reorder buffer, its
  overflow (apply the lowest bundle, or spill), the merge of buffer and spill
  files, the allocator advances, seeding and discarding the files. `log` is the
  file order, any injective sequence of LSNs; `floor` is the restored checkpoint.
  A crash keeps the spill directory only, and the next process may or may not get
  the same process id, which is part of a temporary file's name. Checkpoint
  reduces all this to "the snapshot and what the log has above it";
  ReplayedInOrder is the promise that reduction rests on.
- **IncrementalCheckpoint** models the v9 page tier end to end: commits of one
  or two deltas that apply at once or are deferred until durable (`crud.rs`),
  the dirty-page table and redo (`redo.rs`), the pass (`producer.rs`,
  `write_behind.rs`, `doublewrite.rs`), reclamation below the redo floor, crash
  and recovery. A page is its page LSN and the LSNs of the deltas it holds; a WAL
  record is a set of deltas with its LSN range. The steps of a pass are
  separate actions (barrier, snapshot, copy, stage, home, complete, capture,
  metadata, barrier, sidecar, reclaim), and so are the deltas of a commit, of a
  drain and of the redo after a crash, which goes delta by delta in LSN order and
  may crash again anywhere; a fresh page is installed and stamped in two steps,
  as the code does it.
- **IncrementalInvariant** states the inductive invariant of that module and
  **IncrementalProofs** proves it.
- **WalWriterProofs**, **ReplayProofs** and **CheckpointProofs** hold the
  inductive invariants of these three modules and the proofs. **Extrema** has the
  lemmas they share: least and greatest elements of sets of numbers.
- **MCTxnManager**, **MCWalWriter** and **MCCheckpoint** instantiate the first
  three; Replay and IncrementalCheckpoint are run as they are.

Three history variables exist only to state properties; no guard reads one. `raced` (TxnManager) holds the begins in one of the two windows
gc's fence does not cover. `orphaned` (Checkpoint) holds names whose record was
deleted before a checkpoint contained them. `seen` (IncrementalCheckpoint) names
three events: a page copied before it was stamped, a home write that failed in a
live process, and the deletion of the delta at the redo floor. IncrementalCheckpoint
also keeps the records of deleted segments in `wal`, below `oldest`: the WAL's
answer to "is this record durable" covers them, recovery does not read them.

## 3. Runs

| run | instance | result |
|---|---|---|
| TxnPipeline | 3 transactions, 2 keys, 1 index commit, v8, freeze, no gc | SnapshotReads, NewestCommittedReadable, FirstCommitterWins, UnpublishedInvisible, FreezeSeesOnlyPublished, PushesAscend, Monotone, the refinement hold; CommitSettles holds under fairness |
| TxnGc | 2 transactions, 2 index commits, delta bundles with ranges of 1 or 2 LSNs, three LSNs, gc | TypeOK, IInv, FencedSnapshotReads, NewestCommittedReadable hold |
| TxnGcRace | 1 transaction, 2 index commits, gc | SnapshotReads is violated |
| CkOnce | 2 commits, 1 name, segments of 2 records, 1 checkpoint, 2 crashes | TypeOK, StrictDurable, RecoveredCausally, KeptNamesResolve hold |
| CkTorn | 2 commits, 2 checkpoints, 1 crash | StrictDurable is violated |
| CkNamesReclaim | 2 commits, 1 name, 1 checkpoint, 1 crash | NamesResolve is violated |
| WalGroup | 3 appends of sizes 1 and 3, assigned and drawn LSNs, budget 2, batch 2, ticks, the writer may panic | TypeOK, StrictAckDurable, PeriodicAckHeld, WatermarkSoundInOrder, UnsettledBounded hold; AppendsReturn, PeriodicSettles hold under fairness |
| ReplayOrder | up to 4 bundles in any order, 2 keys, any floor, buffer of 2, spill on and off, 1 fault | TypeOK, ReplayedInOrder, NeverOutOfOrder, AllocatorsCoverLog hold; ReplayFinishes holds under fairness |
| ReplaySpillDelta | as ReplayOrder, delta format, spill on, no fault | ReplayedInOrder is violated |
| IncrCkpt | 2 pages, 3 deltas after the first, 2 commits in flight, batches of 1 page, 2 passes, 2 faults | TypeOK, KeptAboveFloor, RefusalExplained, HomeBehindWal, RecLsnCovers, FrontierReachesHorizon, CaptureIsDurable hold |
| IncrReclaim | as IncrCkpt, 1 pass, 1 fault | DurableKept is violated |
| IncrRefuse | as IncrCkpt | NeverRefused is violated |

Where the code breaks a property in a known way, a passing run checks the weaker
property that names the exception and a violation run the documented one:
FencedSnapshotReads and SnapshotReads, KeptNamesResolve and NamesResolve,
KeptAboveFloor and DurableKept, RefusalExplained and NeverRefused. The weaker
property says that there is no *other* way.

**Bounds.** Three committers are the fewest in which gc can take a version from a
reader: two writers of a key and the reader. Two transactions on a key are enough
for a rollback to meet the version it superseded. `LsnMax` stands for `Lsn::MAX`,
which is never handed out, so an instance has `LsnMax - 1` LSNs. On the v8 path
that is three, one for each committer OneKindOfRival lets run. With gc it is
three too: a range of two and a single one, in either order, or two single ones
(RangesBesideGc keeps three single ones out); a committer that finds no LSN left
stops there. Two commits and a name make three records, so a segment can fill,
rotate and be reclaimed, and two crashes let LSNs lost in the first be reused
before the second. Two checkpoints are the fewest for the second to be torn after
the first has reclaimed. An append of size 3 is larger than the whole budget, two
of size 1 fill it exactly, so that a full batch can be at the disk while the next
append is admitted. Four bundles and a buffer of two make a log overflow twice,
with slack both below and above the buffer. Two pages in batches of one make a
pass of two batches, between which commits run; two faults are a failed pass and
a crash, or two crashes.

Three constraints prune symmetric or uninteresting client choices. OneKindOfRival
has either several transactions or the index commits run. WriteSetsInOrder (only
TxnPipeline) has transactions carry write sets in one fixed order, since they are
interchangeable, and has a transaction without writes do its reading before it
hands over. RangesBesideGc (only TxnGc) is OneKindOfRival with the bound on LSNs
above, and has a transaction without writes hand over while gc is at rest. The
first two are falsified by client steps only (begin, write, commit call), which
are not fair, so no behaviour that fairness demands is cut off; TxnGc checks no
liveness.

**Deadlock** is not checked in any run: every model has a bounded number of
calls, and a run that has made them all stops. That commits, appends and replays
do not get stuck is stated as liveness instead.

**Fairness.** TxnManager: a thread inside a commit that can step does, which is
the scheduling of a running thread plus the WAL answering every append (that
half is AppendsReturn). WalWriter: callers inside an append and the writer
thread run. Neither assumes that anyone begins, commits, flushes or shuts down,
nor anything of gc or the checkpointer; only PeriodicSettles has the ticks of the
scheduler as an explicit premise, because they are what settles a Periodic
record. Replay: the recovery thread runs, and a server that exited is started
again. ReplayFinishes excepts the one way this does not help: every start gets
the id of an earlier process whose temporary spill file is still there
(`wal/spill.rs:200`). CommitSettles is checked on the v8 path; the delta path
differs by a builder failure before the allocation, which has nothing to undo.

**Symmetry** permutes transactions, index commits and keys in the two gc runs and
is not used where liveness is checked.

## 4. Findings

1. *TxnGcRace.* `oldest_active_snapshot` (`transaction.rs:878`) compares
   `begin_generation` before and after scanning the active map. Two begins slip
   through: one that bumped the generation before the first read and inserts its
   sentinel after its shard was visited, and one that starts after the second
   read but loads `visible` before gc does, when the map is empty. gc then
   collects a version that begin's snapshot reads. FencedSnapshotReads shows
   that all other begins are safe.
2. *CkTorn.* The snapshot is renamed before the sidecar
   (`checkpoint/producer.rs:365`). A crash in between leaves a mismatched pair,
   which restore rejects in favour of a replay from zero; the segments an earlier
   checkpoint reclaimed are no longer there to be replayed.
3. *CkNamesReclaim.* A segment's frontier counts commit bundles only
   (`wal/reclaim.rs:294`), so the record of a name interned after the capture can
   be deleted with a segment whose commits were captured.
4. *ReplaySpillDelta.* A bundle is spilled with the v8 encoder
   (`wal/spill.rs:168`), which has no section for deltas. In a v9 or v10 log the
   versions are carried by the deltas alone, so they are lost on the way through
   a spill file.
5. *IncrReclaim.* Reclamation deletes a segment whose highest commit LSN equals
   the bound it is given (`wal/reclaim.rs:188`). The incremental path gives it
   `redo_lsn`, the LSN of the oldest delta still needed
   (`crates/arcgraph-cli/src/bootstrap.rs:1259`).
6. *IncrRefuse.* A PageAlloc installs and dirties the page before it stamps it
   (`crud.rs:3729`). A pass in between writes the unstamped page home; after a
   crash recovery finds an existing page older than its PageAlloc and refuses.

Noted while modelling and not made runs:

- The watermark is the highest LSN of a fired batch (`wal/writer.rs:1366`). With
  assigned LSNs, which arrive in any order, it can pass an answered Periodic
  record that is not fsynced yet; the premise of WatermarkSoundInOrder excludes
  just this.
- After a failed write or fsync the bytes stay in the segment
  (`wal/writer.rs:1395`), so a replay may apply a commit reported as rolled back.
- `fire` releases the byte budget before it writes (`wal/writer.rs:1284`). The
  comment at `wal/writer.rs:382` has it released "once the bytes are durable (or
  definitively abandoned on a hard error)", so that "the budget bounds 'bytes not
  yet durable'"; `:185`, `:500`, `:802` and `:942` say the same. It does not: while a
  batch is written and fsynced callers fill the budget again. With three appends, a
  batch of two at the disk and an oversized third admitted, the bytes not yet
  durable are 5 against a budget of 2. UnsettledBounded counts the batch at the
  disk and states the bound that does hold, the budget twice over. That no release
  is forgotten is AppendsReturn: a reservation that is not given back keeps an
  oversized append out for good.
- The final drain loads every spilled bundle at once (`wal/spill.rs:233`): the
  buffer bound holds while reading, not while draining.
- A temporary spill file left by a crash makes a replay with the same process id
  fail (`wal/spill.rs:200`). Where every start gets the same id, as a server that
  is the only process of its container does, no restart helps. ReplayFinishes
  excepts just this, so it does not catch it.
- A home write that fails in a live process may tear a page, and the next pass
  truncates the staged copy (`checkpoint/doublewrite.rs:321`): the "home error" of
  RefusalExplained. It breaks NeverRefused as well, in 24 steps of the IncrRefuse
  instance; TLC reports the shorter trace of finding 6.

## 5. Proofs

The theorems hold for every value of the constants: any number of transactions,
keys, callers, bundles, commits, names, segments, passes and crashes. Each module
makes one assumption on its constants, named `ConstAssumption`
(`ReplayAssumption` in Replay): the numeric ones are natural numbers, positive
where zero would be no system, and sets that name different kinds of things are
disjoint.

| theorem | module | states |
|---|---|---|
| TypeCorrect | TxnStepProofs | `[]TypeOK` |
| Invariance | TxnManagerProofs | `[]IInv` |
| CommitAtomicity | TxnManagerProofs | `[]UnpublishedInvisible` |
| NoLostUpdate | TxnManagerProofs | `[]FirstCommitterWins` |
| FreezeIsClean | TxnManagerProofs | `[]FreezeSeesOnlyPublished` |
| WatermarksNeverRegress | TxnManagerProofs | `Monotone` |
| ChainsStaySorted | TxnManagerProofs | `PushesAscend` |
| ReadInvariance | TxnReadProofs | `[](IInv /\ ReadInv)` |
| NewestIsReadable | TxnReadProofs | `[]NewestCommittedReadable` |
| FencedReadsAreStable | TxnReadProofs | `[]FencedSnapshotReads` |
| ReadsAreSnapshots | TxnReadProofs | `[]SnapshotReads`, if gc does not run |
| RefinesSnapshotIsolation | TxnReadProofs | `ImplementsSnapshotIsolation`, if gc does not run |
| WalTypeCorrect, WalInvariance | WalWriterProofs | `[]TypeOK`, `[]IInv` |
| StrictAckIsDurable | WalWriterProofs | `[]StrictAckDurable` |
| PeriodicAckIsHeld | WalWriterProofs | `[]PeriodicAckHeld` |
| WatermarkIsSoundInOrder | WalWriterProofs | `[]WatermarkSoundInOrder` |
| ReplayTypeCorrect, ReplayInvariance | ReplayProofs | `[]TypeOK`, `[]IInv` |
| ReplayIsFaithful | ReplayProofs | `[]ReplayedInOrder`, in the image format or if nothing is spilled |
| NothingRejected | ReplayProofs | `[]NeverOutOfOrder` |
| AllocatorsCoverTheLog | ReplayProofs | `[]AllocatorsCoverLog` |
| CkTypeCorrect | CheckpointProofs | `[]TypeOK` |
| CkInvariance | CheckpointProofs | `[]IInv`, given `[]NoTornPair` |
| StrictIsDurable | CheckpointProofs | `[]StrictDurable`, given `[]NoTornPair` |
| RecoveryIsCausal | CheckpointProofs | `[]RecoveredCausally`, given `[]NoTornPair` |
| KeptNamesAreThere | CheckpointProofs | `[]KeptNamesResolve`, given `[]NoTornPair` |
| IncrInvariance | IncrementalProofs | `[]IInv` |
| CaptureSafe | IncrementalProofs | `[]CaptureIsDurable` |
| FrontierSafe | IncrementalProofs | `[]FrontierReachesHorizon` |

**The hypotheses are the findings.** Four groups of theorems assume something
beyond the constants, and in each case a violation run shows the property false
without it. SnapshotReads and the refinement fail with gc (TxnGcRace), so they are
proved without gc, and FencedSnapshotReads with it. ReplayedInOrder fails for
spilled deltas (ReplaySpillDelta). NamesResolve fails under reclamation
(CkNamesReclaim), so KeptNamesResolve is proved. StrictDurable fails when a crash
falls between the two renames over an older checkpoint (CkTorn): `NoTornPair` says
that no crash did, and StrictIsDurable shows that this window is the only way to
lose an acknowledged commit.

**Commits.** None of the properties of TxnManager is inductive by itself.
FirstCommitterWins needs to know that a
validated commit stays *in the way*: its version, or a newer published one, is
in the chain until every older snapshot's writer has been refused (`KeptInv`),
although gc removes versions and rollbacks pop them. That gc spares it rests on
its anchor never passing `visible` (`FloorInv`); that a rollback does rests on
nothing being pushed above an unpublished version (`PendingInv`), which
validation gives because such a version is later than every snapshot
(`FloorInv` again). Phase 3 order (`TurnInv`) comes from disjoint ranges
(`LsnInv`): two ranges cannot both have their predecessor finished.

**Reads.** `ReadInv` ties the chains to the committed history in both directions:
every version has an author that was not rolled back (`AuthorInv`), and for every
commit in a snapshot the chain has a version at least as new that the snapshot
sees (`CoverInv`). The second is what gc threatens. It holds because the anchor
stays at or below the snapshot of every reader that did not begin in a window
(`FenceInv`): while the generation is unchanged, whoever has been scanned holds
the floor down or is noted as pending, and this needs the entry in the active map
to be the sentinel until it is the snapshot (`HandleInv`). In the refinement the
load of `visible` is the abstract begin, a publication the abstract commit, and a
refusal, an abort or the end of a rollback the abstract abort; every other step
stutters.

**WAL writer.** The batch is the end of the sequence of records the writer has
taken (`BatchInv`) and the fsynced records are a prefix of it (`DurableInv`), which
is why a Strict answer covers every earlier record. A command is queued at most
once (`QueueInv`), so no record is taken twice.

**Replay.** While the log is read, every bundle read so far is covered by the high
water or held in exactly one place: the buffer, the batch being spilled, or a file
of this replay (`HoldInv`). The files are quantified existentially, because a
crashed replay may have left others with the same bundles; that the final drain
meets those again is harmless since a bundle at or below the high water is
skipped. `ContentInv` then says that the chains hold the log's commits up to the
high water, and at the end the high water is the whole log. Without the spill an
overflow applies the lowest bundle too early only if the slack of the log reaches
the buffer bound, which is the premise of ReplayedInOrder.

**Checkpoint.** `LogInv(b)` says of a checkpoint `b` that it and the log together
hold everything: what was acknowledged is in `b` or fsynced, and a logged commit
depends only on `b` and on records *before* its own, so that a crash, which cuts
the log at any point after the fsynced part, leaves a closed state. `LiveInv(b)`
says the same of what has not reached the log, and that every commit in flight is
above `b`; the freeze gives this at the capture. Both hold of the checkpoint
a recovery would restore and, from its capture on, of the one being written
(`RestoreInv`, `PassInv`), so the sidecar's rename may exchange them. Reclamation
keeps `LogInv` because a deleted segment's commits are at or below the
checkpoint's LSN, and those are in it.

**Incremental checkpoint.** `RecordInv` and `QueueInv` order the records: LSN ranges
are disjoint, commits publish in LSN order, the deferred queue is ascending and
everything published and not queued is below it. Commits and drains apply the
first unsettled record only (`ApplyInv`), so a recLSN is below every later record
(`RecBelow`), and at the capture, under the freeze, the frontier and the redo
floor are at or below what the pages hold (`CkOK`). `ReachInv` says that the LSN at
which the owners were captured is reached again by a replay: the checkpoint, or a
record in a segment that is not deleted, is at least as high, and from the second
flush on a durable one. Without it the clock could restart below the capture and
hand an LSN out again that the checkpoint already contains. `HorizonInv` follows
the queue through the pass: after the first flush the queued records up to the
horizon are durable, after the drain there are none.

**Induction.** The prover cannot use the library's induction theorems. Where an
argument goes over a sequence or a number (the bytes of a batch, the drain in LSN
order, the maximum of a finite set) the proofs take a least counterexample
instead, which Extrema derives from the well-foundedness of `<` on the naturals.

**Only model-checked.** Liveness (CommitSettles, AppendsReturn, PeriodicSettles,
ReplayFinishes) is outside the prover's reach. UnsettledBounded sums sizes over a
set with a fold of the library that is defined by recursion over a choice of
elements; the prover has no facts about it. Of IncrementalCheckpoint, TypeOK,
KeptAboveFloor, RefusalExplained, HomeBehindWal and RecLsnCovers are checked by
TLC only: they speak of what pages hold.

## 6. What the models leave out

- TxnManager: the `Abort` WAL policy and a failed delta apply, which end the
  process; values, so delta normalisation (it only rewrites values) is part of
  the append; the two error returns after an allocation (`transaction.rs:1717`
  and `:2147`), which `DeltaIntent::assign_for_format` and the closed set of
  callers rule out; test hooks.
- WalWriter: encryption; `RollbackAndContinue`, which is a test override; the
  exit when all senders are gone, which fires and closes as a shutdown does. The
  scheduler's own stop flag is left out, so a tick after shutdown aborts.
- Checkpoint: a failed intern append; undecodable and encrypted segments, which
  are never deleted; a deletion that is not durable, which brings a segment back
  that replay skips; the WAL write failure, which is in WalWriter.
- Replay: undecodable and legacy records; vector, idempotency and ACL sections;
  the byte bound of the buffer (the bundle bound is modelled); the overlap check
  of the final drain, since the bundles here have ranges of one LSN.
- IncrementalCheckpoint: append failures (WalWriter); eviction of a page, which
  has no caller outside tests; the v10 extent and owner targets; the MVCC chains
  rebuilt from the home pages; the catalog flush; checksums (a page is whole or
  torn); the `durable < horizon` error of the barrier, which cannot happen once
  its flush has succeeded.
- The v8 page images a commit's builder captures outside the gate, and the
  adjacency entries appended after publication: both need the record operations
  of `crud.rs`, and are listed as hazards without a property.
- Byte formats, codecs, migrations, encryption, the query engine and the server:
  see the notes in `PROJECT.json`.

## 7. Plan

1. Proofs about the pages of IncrementalCheckpoint: HomeBehindWal and
   RecLsnCovers, then KeptAboveFloor and RefusalExplained.
2. **PageImages**: v8 page images captured outside the gate and replayed in LSN
   order; the MVCC base of an incremental recovery.
3. Adjacency appends after publication (CRUD), idempotency bindings, the
   secondary B-tree, the buffer pool, bulkhead and rate limiter.
