------------------------------- MODULE Replay -------------------------------
(***************************************************************************)
(* The WAL replay executor (wal/replay.rs), its reorder buffer and its     *)
(* spill files (wal/spill.rs), anchored at a full-state checkpoint.  The   *)
(* log holds commit bundles in the order in which their commits reached    *)
(* the writer, which is not the order of their commit LSNs.  A replay may  *)
(* crash and start again; only the log and the spill directory outlive it. *)
(*                                                                         *)
(* A bundle writes one record version and one page image under one key.    *)
(* In the "delta" log format the version is carried by the deltas of the   *)
(* bundle alone (the encoder drops the redundant copy).                    *)
(***************************************************************************)
EXTENDS Integers, Sequences, Functions, FiniteSets, FiniteSetsExt

CONSTANTS MaxLsn,      \* bound on commit LSNs
          Keys,        \* records, each on a page of its own
          NoKey,       \* "no such section"
          MaxBuffer,   \* max_buffer_bundles
          Format,      \* "image" (v8) or "delta" (v9, v10)
          SpillModes,  \* values of spill_enabled that are tried
          MaxFaults    \* bound on crashes and I/O errors

ASSUME ReplayAssumption ==
  /\ {MaxLsn, MaxBuffer} \subseteq Nat \ {0} /\ MaxFaults \in Nat
  /\ NoKey \notin Keys /\ Format \in {"image", "delta"}
  /\ SpillModes \subseteq BOOLEAN

Lsns == 1 .. MaxLsn

VARIABLES
  log, keyOf, floor, spillOn,   \* fixed: LSNs in file order, what they write, checkpoint_floor
  phase, pos,                   \* the executor and its reader
  buffer, toSpill,              \* decoded bundles; the batch being written
  applied,                      \* applied_high_water
  chain, page,                  \* MVCC chains (created LSNs) and page stores
  visible,                      \* TxnManager counters after seeding
  advanced,                     \* bundles whose allocator_advances were applied
  rejected,                     \* out_of_order_apply_rejected
  spillFiles, temps,            \* the spill directory
  pid, faults

fixedVars == <<log, keyOf, floor, spillOn>>
memVars == <<pos, buffer, toSpill, applied, chain, page, visible, advanced, rejected>>
diskVars == <<spillFiles, temps>>
vars == <<fixedVars, phase, memVars, diskVars, pid, faults>>

Bundle(l) == [lsn |-> l, row |-> keyOf[l], page |-> keyOf[l], spilled |-> FALSE]

\* The newest commit at or below the checkpoint that writes k.
LastAtFloor(k) == Max({0} \cup {l \in 1 .. floor : keyOf[l] = k})

\* restore_latest_checkpoint: one version and one page per record.
Restored ==
  /\ chain' = [k \in Keys |-> IF LastAtFloor(k) = 0 THEN <<>> ELSE <<LastAtFloor(k)>>]
  /\ page' = [k \in Keys |-> LastAtFloor(k)]

\* Any order of any LSNs may be in the log: gaps are failed commits, or bundles
\* at or below the floor in reclaimed segments.
Init ==
  /\ log \in {s \in UNION {[1 .. n -> Lsns] : n \in 0 .. MaxLsn} : IsInjective(s)}
  /\ keyOf \in [Lsns -> Keys]
  /\ floor \in 0 .. MaxLsn
  /\ spillOn \in SpillModes
  /\ phase = "boot" /\ pos = 1 /\ buffer = {} /\ toSpill = {} /\ applied = 0
  /\ chain = [k \in Keys |-> <<>>] /\ page = [k \in Keys |-> 0]
  /\ visible = 0 /\ advanced = {} /\ rejected = FALSE
  /\ spillFiles = {} /\ temps = {} /\ pid = 0 /\ faults = 0

\* Mutant of Start: the checkpoint is restored but the floor is not raised to it.
StartFromZero ==
  /\ phase = "boot"
  /\ Restored
  /\ phase' = "reading"
  /\ UNCHANGED <<fixedVars, pos, buffer, toSpill, applied, visible, advanced, rejected,
                 diskVars, pid, faults>>

\* run, up to the loop: the high water starts at the checkpoint.
Start ==
  /\ phase = "boot"
  /\ Restored
  /\ applied' = floor
  /\ phase' = "reading"
  /\ UNCHANGED <<fixedVars, pos, buffer, toSpill, visible, advanced, rejected, diskVars,
                 pid, faults>>

(***************************************************************************)
(* apply_bundle and apply_replay_mvcc_write                                *)
(***************************************************************************)
SkipApplied(l) == l <= applied

\* The last version of a chain.
Newest(c) == c[Len(c)]

\* Push a version; the same LSN again is a no-op, a newer last version a rejection.
Pushed(c, l) == IF c # <<>> /\ Newest(c) >= l THEN c ELSE Append(c, l)
Rejects(c, l) == c # <<>> /\ Newest(c) > l

ApplyBundle(b) ==
  IF SkipApplied(b.lsn)
  THEN UNCHANGED <<applied, chain, page, advanced, rejected>>
  ELSE /\ chain' = IF b.row = NoKey THEN chain
                   ELSE [chain EXCEPT ![b.row] = Pushed(@, b.lsn)]
       /\ rejected' = (rejected \/ (b.row # NoKey /\ Rejects(chain[b.row], b.lsn)))
       /\ page' = [page EXCEPT ![b.page] = b.lsn]
       /\ advanced' = advanced \cup {b.lsn}
       /\ applied' = b.lsn

(***************************************************************************)
(* The read loop: handle_record, buffer_insert, overflow_flush.            *)
(***************************************************************************)
Overflow(buf) == Cardinality(buf) >= MaxBuffer

\* Mutant of ReadBundle: a skipped bundle is not consumed.
ReadBundleStays ==
  /\ phase = "reading" /\ pos <= Len(log)
  /\ IF SkipApplied(log[pos])
       THEN advanced' = advanced \cup {log[pos]} /\ UNCHANGED <<buffer, pos>>
       ELSE /\ buffer' = buffer \cup {Bundle(log[pos])} /\ UNCHANGED advanced
            /\ pos' = pos + 1
  /\ phase' = IF Overflow(buffer') THEN "overflow" ELSE "reading"
  /\ UNCHANGED <<fixedVars, toSpill, applied, chain, page, visible, rejected, diskVars,
                 pid, faults>>

\* Mutant of ReadBundle: a skipped bundle is skipped altogether.
ReadBundleNoAdvance ==
  /\ phase = "reading" /\ pos <= Len(log)
  /\ buffer' = IF SkipApplied(log[pos]) THEN buffer ELSE buffer \cup {Bundle(log[pos])}
  /\ pos' = pos + 1
  /\ phase' = IF Overflow(buffer') THEN "overflow" ELSE "reading"
  /\ UNCHANGED <<fixedVars, toSpill, applied, chain, page, visible, advanced, rejected,
                 diskVars, pid, faults>>

\* A bundle at or below the high water still advances the allocators.
ReadBundle ==
  /\ phase = "reading" /\ pos <= Len(log)
  /\ IF SkipApplied(log[pos])
       THEN advanced' = advanced \cup {log[pos]} /\ UNCHANGED buffer
       ELSE buffer' = buffer \cup {Bundle(log[pos])} /\ UNCHANGED advanced
  /\ pos' = pos + 1
  /\ phase' = IF Overflow(buffer') THEN "overflow" ELSE "reading"
  /\ UNCHANGED <<fixedVars, toSpill, applied, chain, page, visible, rejected, diskVars,
                 pid, faults>>

\* The order of the buffer: redo range, then arrival (the log before the spill).
Before(a, b) == a.lsn < b.lsn \/ (a.lsn = b.lsn /\ (a.spilled => b.spilled))
First(buf) == CHOOSE b \in buf : \A c \in buf : Before(b, c)
Lowest(buf, n) == {b \in buf : Cardinality({c \in buf : c.lsn < b.lsn}) < n}

\* stream_apply_min
StreamApplyMin ==
  /\ phase = "overflow" /\ ~spillOn
  /\ ApplyBundle(First(buffer))
  /\ buffer' = buffer \ {First(buffer)}
  /\ phase' = "reading"
  /\ UNCHANGED <<fixedVars, pos, toSpill, visible, diskVars, pid, faults>>

LsnsOf(bundles) == {b.lsn : b \in bundles}
LsnRange(bundles) == <<Min(LsnsOf(bundles)), Max(LsnsOf(bundles))>>
Temp(bundles) == <<pid, LsnRange(bundles)>>

\* spill_engage: drain to half of the bound into a temporary file that must not
\* exist yet.
SpillCreate ==
  /\ phase = "overflow" /\ spillOn
  /\ LET batch == Lowest(buffer, Cardinality(buffer) - MaxBuffer \div 2)
     IN /\ toSpill' = batch
        /\ buffer' = buffer \ batch
        /\ IF Temp(batch) \in temps
             THEN phase' = "failed" /\ UNCHANGED temps
             ELSE phase' = "spilling" /\ temps' = temps \cup {Temp(batch)}
  /\ UNCHANGED <<fixedVars, pos, applied, chain, page, visible, advanced, rejected,
                 spillFiles, pid, faults>>

\* encode_commit_bundle_current: the v8 encoder, whatever the log's format.
Reencoded(b) ==
  [lsn |-> b.lsn, row |-> IF Format = "delta" THEN NoKey ELSE b.row, page |-> b.page,
   spilled |-> TRUE]

\* A file is named by its range of LSNs; a rename replaces one of that name.
SpillRename ==
  /\ phase = "spilling"
  /\ temps' = temps \ {Temp(toSpill)}
  /\ spillFiles' = {f \in spillFiles : LsnRange(f) # LsnRange(toSpill)}
                     \cup {{Reencoded(b) : b \in toSpill}}
  /\ toSpill' = {}
  /\ phase' = "reading"
  /\ UNCHANGED <<fixedVars, pos, buffer, applied, chain, page, visible, advanced, rejected,
                 pid, faults>>

\* Writing, syncing or renaming the file failed; the temporary file stays.
SpillError ==
  /\ phase = "spilling" /\ faults < MaxFaults
  /\ faults' = faults + 1
  /\ phase' = "failed"
  /\ UNCHANGED <<fixedVars, memVars, diskVars, pid>>

(***************************************************************************)
(* final_drain: merge every spill file into the buffer, apply in order.    *)
(***************************************************************************)
\* Mutant of Merge: the spill files are loaded only when nothing is buffered.
MergeIfIdle ==
  /\ phase = "reading" /\ pos > Len(log)
  /\ buffer' = IF buffer = {} THEN UNION spillFiles ELSE buffer
  /\ phase' = "draining"
  /\ UNCHANGED <<fixedVars, pos, toSpill, applied, chain, page, visible, advanced, rejected,
                 diskVars, pid, faults>>

Merge ==
  /\ phase = "reading" /\ pos > Len(log)
  /\ buffer' = buffer \cup {b \in UNION spillFiles : ~SkipApplied(b.lsn)}
  /\ phase' = "draining"
  /\ UNCHANGED <<fixedVars, pos, toSpill, applied, chain, page, visible, advanced, rejected,
                 diskVars, pid, faults>>

DrainApply ==
  /\ phase = "draining" /\ buffer # {}
  /\ ApplyBundle(First(buffer))
  /\ buffer' = buffer \ {First(buffer)}
  /\ UNCHANGED <<fixedVars, phase, pos, toSpill, visible, diskVars, pid, faults>>

\* Mutant of Seed: the counters are seeded one past the last commit.
SeedNext ==
  /\ phase = "draining" /\ buffer = {}
  /\ visible' = Max({visible, applied + 1})
  /\ phase' = "seeded"
  /\ UNCHANGED <<fixedVars, pos, buffer, toSpill, applied, chain, page, advanced, rejected,
                 diskVars, pid, faults>>

\* seed_after_replay
Seed ==
  /\ phase = "draining" /\ buffer = {}
  /\ visible' = Max({visible, applied})
  /\ phase' = "seeded"
  /\ UNCHANGED <<fixedVars, pos, buffer, toSpill, applied, chain, page, advanced, rejected,
                 diskVars, pid, faults>>

\* discard_spill_files, only when spilling is on.
Discard ==
  /\ phase = "seeded"
  /\ spillFiles' = IF spillOn THEN {} ELSE spillFiles
  /\ temps' = IF spillOn THEN {} ELSE temps
  /\ phase' = "done"
  /\ UNCHANGED <<fixedVars, memVars, pid, faults>>

(***************************************************************************)
(* A crash, or the exit after an error, keeps the spill directory only.    *)
(* The next process may or may not get the same process id.                *)
(***************************************************************************)
Restart ==
  /\ phase' = "boot" /\ pos' = 1 /\ buffer' = {} /\ toSpill' = {} /\ applied' = 0
  /\ chain' = [k \in Keys |-> <<>>] /\ page' = [k \in Keys |-> 0]
  /\ visible' = 0 /\ advanced' = {} /\ rejected' = FALSE
  /\ pid' \in {pid, pid + 1}
  /\ UNCHANGED <<fixedVars, diskVars>>

Crash ==
  /\ phase \notin {"boot", "done", "failed"} /\ faults < MaxFaults
  /\ faults' = faults + 1
  /\ Restart

\* The error goes up to the bootstrap, which exits; the server is started again.
ExitAndRestart ==
  /\ phase = "failed"
  /\ Restart
  /\ UNCHANGED faults

-----------------------------------------------------------------------------
Step ==
  \/ Start \/ ReadBundle \/ StreamApplyMin \/ SpillCreate \/ SpillRename
  \/ Merge \/ DrainApply \/ Seed \/ Discard \/ ExitAndRestart

Next == Step \/ SpillError \/ Crash

Spec == Init /\ [][Next]_vars

\* One thread runs the recovery, and a server that exits is started again.
FairSpec == Spec /\ WF_vars(Step)

-----------------------------------------------------------------------------
Bundles == [lsn : Lsns, row : Keys \cup {NoKey}, page : Keys, spilled : BOOLEAN]

\* The executor's phases, the buffer and the spill directory keep their shape.
TypeOK ==
  /\ phase \in {"boot", "reading", "overflow", "spilling", "draining", "seeded",
                "done", "failed"}
  /\ pos \in 1 .. Len(log) + 1
  /\ buffer \subseteq Bundles /\ toSpill \subseteq Bundles
  /\ applied \in 0 .. MaxLsn /\ visible \in 0 .. MaxLsn
  /\ chain \in [Keys -> Seq(Lsns)] /\ page \in [Keys -> 0 .. MaxLsn]
  /\ advanced \subseteq Lsns /\ rejected \in BOOLEAN
  /\ spillFiles \subseteq SUBSET Bundles
  /\ temps \subseteq Nat \X (Lsns \X Lsns)
  /\ pid \in Nat /\ faults \in 0 .. MaxFaults

\* How far commit order and file order differ: the most bundles with a higher
\* LSN that precede one bundle in the log.
Slack ==
  Max({0} \cup {Cardinality({i \in 1 .. j : log[i] > log[j]}) : j \in 1 .. Len(log)})

\* What a log without reordering would give: the checkpoint, then every bundle
\* above it in commit order.
AboveFloor(k) == {l \in Range(log) : l > floor /\ keyOf[l] = k}
Ascending(c) == \A i, j \in 1 .. Len(c) : i < j => c[i] < c[j]
ExpectedVersions(k) == ({LastAtFloor(k)} \ {0}) \cup AboveFloor(k)
ExpectedPage(k) == Max(AboveFloor(k) \cup {LastAtFloor(k)})

\* A finished replay has rebuilt what applying the log in commit order would
\* have: every chain, every page, and a watermark that covers them, whatever
\* the order of the log, however often the buffer overflowed and however many
\* replays crashed before.  Without the spill this needs the slack of the log to be
\* below the buffer bound.
ReplayedInOrder ==
  (phase = "done" /\ (spillOn \/ Slack < MaxBuffer)) =>
    /\ \A k \in Keys : /\ Ascending(chain[k]) /\ Range(chain[k]) = ExpectedVersions(k)
                       /\ page[k] = ExpectedPage(k)
    /\ visible = Max(Range(log) \cup {floor})

\* No version is ever applied below a newer one of its record
\* (out_of_order_apply_rejected stays zero), spill or no spill.
NeverOutOfOrder == ~rejected

\* A finished replay has moved the allocators past every id a logged commit took,
\* also those of the bundles it did not apply (buffer_insert re-seeds for a bundle
\* below the checkpoint or one that an overflow has overtaken): no id is reused.
AllocatorsCoverLog == phase = "done" => Range(log) \subseteq advanced

\* A replay that is restarted after every crash is eventually finished, unless
\* each start meets a temporary file that an earlier process with its id left.
ReplayFinishes == <>(phase = "done") \/ []<>(phase = "failed" /\ Temp(toSpill) \in temps)
=============================================================================
