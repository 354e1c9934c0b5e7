----------------------------- MODULE Checkpoint -----------------------------
(***************************************************************************)
(* Durability of the legacy full-state data directory: commits of both     *)
(* tiers and standalone intern records reach the segmented WAL; a          *)
(* checkpoint captures the whole state under the commit freeze, renames    *)
(* CHECKPOINT.snap and then the sidecar, and reclaims the segments below   *)
(* its frontier; a crash keeps the disk only; recovery restores the        *)
(* checkpoint and replays the rest of the WAL.                             *)
(*                                                                         *)
(* A commit's effect is its LSN, a name is the commit slot that interned   *)
(* it.  The WAL is the sequence of its remaining records, each tagged with *)
(* its segment; the writer thread appends and fsyncs (writer.rs), so the   *)
(* queue order is the file order.                                          *)
(***************************************************************************)
EXTENDS Integers, Sequences, FiniteSets, Functions

CONSTANTS MaxLsn,          \* bound on commits
          Names,           \* label / type names that may be interned
          SegmentRecords,  \* capacity of a segment, in records
          MaxCheckpoints,  \* bound on checkpoint passes
          MaxCrashes       \* bound on crashes

NoName == 0
NoLsn == -1

ASSUME ConstAssumption ==
  /\ {MaxLsn, SegmentRecords} \subseteq Nat \ {0}
  /\ {MaxCheckpoints, MaxCrashes} \subseteq Nat
  /\ Names \subseteq Nat \ {NoName}

Lsns == 1 .. MaxLsn

VARIABLES
  up,                       \* the process is running
  counter, visible,         \* LSN allocator and snapshot watermark
  applied, names, logged,   \* in-memory state: effects, interned names, proven names
  stage, tier, uses, seen,  \* per LSN: pipeline stage, tier, name it uses, its snapshot's state
  queue, batch,             \* records the WAL writer holds; written, not yet acked
  wal, synced,              \* records on disk; how many are fsynced
  segNo,                    \* active segment
  snapFile, sidecar,        \* CHECKPOINT.snap, the sidecar's LSN
  ckPc, ckTemp,             \* the checkpoint pass and its temp file
  passes, crashes,          \* bounds
  acked,                    \* history: Strict commits acknowledged to a client
  orphaned                  \* history: names whose record was reclaimed uncaptured

memVars == <<counter, visible, applied, names, logged, stage, tier, uses, seen>>
logVars == <<queue, batch, wal, synced, segNo>>
ckVars == <<snapFile, sidecar, ckPc, ckTemp, passes>>
vars == <<up, memVars, logVars, ckVars, crashes, acked, orphaned>>

NoSnap == [lsn |-> NoLsn, data |-> {}, names |-> {}]
Bundle(l) == [lsn |-> l, name |-> NoName]
Intern(n) == [lsn |-> 0, name |-> n]

Init ==
  /\ up = TRUE
  /\ counter = 0 /\ visible = 0 /\ applied = {} /\ names = {} /\ logged = {}
  /\ stage = [l \in Lsns |-> "none"]
  /\ tier = [l \in Lsns |-> "Strict"]
  /\ uses = [l \in Lsns |-> NoName]
  /\ seen = [l \in Lsns |-> {}]
  /\ queue = <<>> /\ batch = {} /\ wal = <<>> /\ synced = 0 /\ segNo = 0
  /\ snapFile = NoSnap /\ sidecar = NoLsn /\ ckPc = "idle" /\ ckTemp = NoSnap
  /\ passes = 0 /\ crashes = 0 /\ acked = {} /\ orphaned = {}

(***************************************************************************)
(* intern_logged: publish in memory, append with fsync, then mark proven.  *)
(***************************************************************************)
InternPublish(n) ==
  /\ up /\ n \notin names
  /\ names' = names \cup {n}
  /\ UNCHANGED <<up, counter, visible, applied, logged, stage, tier, uses, seen,
                 logVars, ckVars, crashes, acked, orphaned>>

\* A racing duplicate of a record already on its way adds nothing and is left out.
InternAppend(n) ==
  /\ up /\ n \in names \ logged
  /\ Intern(n) \notin Range(queue) /\ Intern(n) \notin batch
  /\ queue' = Append(queue, Intern(n))
  /\ UNCHANGED <<up, memVars, batch, wal, synced, segNo, ckVars, crashes, acked, orphaned>>

(***************************************************************************)
(* The commit pipeline, reduced to what durability sees: allocate in LSN   *)
(* order, enqueue in any order, publish in LSN order; a Strict commit      *)
(* waits for its fsync, a Periodic one only for the enqueue.               *)
(***************************************************************************)
\* Mutant of Allocate: an interned name may be used before its record is durable.
AllocateUnproven(t, n) ==
  /\ up /\ counter < MaxLsn
  /\ n = NoName \/ n \in names
  /\ counter' = counter + 1
  /\ stage' = [stage EXCEPT ![counter + 1] = "allocated"]
  /\ tier' = [tier EXCEPT ![counter + 1] = t]
  /\ uses' = [uses EXCEPT ![counter + 1] = n]
  /\ seen' = [seen EXCEPT ![counter + 1] = applied]
  /\ UNCHANGED <<up, visible, applied, names, logged, logVars, ckVars, crashes, acked, orphaned>>

Allocate(t, n) ==
  /\ up /\ counter < MaxLsn
  /\ n = NoName \/ n \in logged
  /\ counter' = counter + 1
  /\ stage' = [stage EXCEPT ![counter + 1] = "allocated"]
  /\ tier' = [tier EXCEPT ![counter + 1] = t]
  /\ uses' = [uses EXCEPT ![counter + 1] = n]
  /\ seen' = [seen EXCEPT ![counter + 1] = applied]
  /\ UNCHANGED <<up, visible, applied, names, logged, logVars, ckVars, crashes, acked, orphaned>>

Enqueue(l) ==
  /\ up /\ stage[l] = "allocated"
  /\ queue' = Append(queue, Bundle(l))
  /\ stage' = [stage EXCEPT ![l] = IF tier[l] = "Strict" THEN "waiting" ELSE "durable"]
  /\ UNCHANGED <<up, counter, visible, applied, names, logged, tier, uses, seen,
                 batch, wal, synced, segNo, ckVars, crashes, acked, orphaned>>

InFlight == {l \in Lsns : stage[l] \in {"allocated", "waiting", "durable"}}

Publish(l) ==
  /\ up /\ stage[l] = "durable"
  /\ \A m \in InFlight : l <= m
  /\ visible' = l
  /\ applied' = applied \cup {l}
  /\ stage' = [stage EXCEPT ![l] = "done"]
  /\ acked' = IF tier[l] = "Strict" THEN acked \cup {l} ELSE acked
  /\ UNCHANGED <<up, counter, names, logged, tier, uses, seen, logVars, ckVars, crashes, orphaned>>

\* The number of records in the active segment: SegmentWriter::current_bytes.
SegLen == Cardinality({i \in 1 .. Len(wal) : wal[i].seg = segNo})

(***************************************************************************)
(* The WAL writer: fire() hands one batch to SegmentWriter::append, which  *)
(* rotates first when the batch does not fit and never splits it; a        *)
(* rotation fsyncs the segment it leaves; the batch is fsynced and only    *)
(* then acknowledged.                                                      *)
(***************************************************************************)
WriteBatch ==
  /\ up /\ queue # <<>> /\ batch = {}
  /\ \E n \in 1 .. Len(queue) :
       LET recs == SubSeq(queue, 1, n)
           rotate == SegLen > 0 /\ SegLen + n > SegmentRecords
           seg == IF rotate THEN segNo + 1 ELSE segNo
       IN /\ wal' = wal \o [i \in 1 .. n |-> [rec |-> recs[i], seg |-> seg]]
          /\ segNo' = seg
          /\ synced' = IF rotate THEN Len(wal) ELSE synced
          /\ queue' = SubSeq(queue, n + 1, Len(queue))
          /\ batch' = Range(recs)
  /\ UNCHANGED <<up, memVars, ckVars, crashes, acked, orphaned>>

Fsync ==
  /\ up /\ batch # {}
  /\ synced' = Len(wal)
  /\ batch' = {}
  /\ stage' = [l \in Lsns |-> IF stage[l] = "waiting" /\ Bundle(l) \in batch
                              THEN "durable" ELSE stage[l]]
  /\ logged' = logged \cup {n \in names : Intern(n) \in batch}
  /\ UNCHANGED <<up, counter, visible, applied, names, tier, uses, seen,
                 queue, wal, segNo, ckVars, crashes, acked, orphaned>>

(***************************************************************************)
(* The full-state checkpoint pass: capture under the freeze, which waits   *)
(* for every commit in flight; then CHECKPOINT.snap, then the sidecar,     *)
(* then reclaim_segments_below at the new frontier.                        *)
(***************************************************************************)
CkCapture ==
  /\ up /\ ckPc = "idle" /\ passes < MaxCheckpoints
  /\ InFlight = {}
  /\ ckTemp' = [lsn |-> visible, data |-> applied, names |-> names]
  /\ passes' = passes + 1
  /\ ckPc' = "captured"
  /\ UNCHANGED <<up, memVars, logVars, snapFile, sidecar, crashes, acked, orphaned>>

CkRenameSnapshot ==
  /\ up /\ ckPc = "captured"
  /\ snapFile' = ckTemp
  /\ ckPc' = "snapped"
  /\ UNCHANGED <<up, memVars, logVars, sidecar, ckTemp, passes, crashes, acked, orphaned>>

CkRenameSidecar ==
  /\ up /\ ckPc = "snapped"
  /\ sidecar' = ckTemp.lsn
  /\ ckPc' = "reclaim"
  /\ UNCHANGED <<up, memVars, logVars, snapFile, ckTemp, passes, crashes, acked, orphaned>>

\* An I/O error in either step fails the pass; the server goes on.
CkFail ==
  /\ up /\ ckPc \in {"captured", "snapped"}
  /\ ckPc' = "idle"
  /\ UNCHANGED <<up, memVars, logVars, snapFile, sidecar, ckTemp, passes, crashes, acked, orphaned>>

\* Mutant of BelowFrontier: off by one at the checkpoint's LSN.
BelowNextFrontier(seg, frontier) ==
  \A i \in 1 .. Len(wal) : wal[i].seg = seg => wal[i].rec.lsn <= frontier + 1

\* segment_max_commit_lsn: only CommitBundle records count.
BelowFrontier(seg, frontier) ==
  \A i \in 1 .. Len(wal) : wal[i].seg = seg => wal[i].rec.lsn <= frontier

\* The lowest remaining segment may go: not active, wholly below the frontier.
Reclaimable ==
  /\ wal # <<>> /\ ckTemp.lsn > 0
  /\ wal[1].seg # segNo
  /\ BelowFrontier(wal[1].seg, ckTemp.lsn)

NamesIn(seg) == {wal[i].rec.name : i \in {j \in 1 .. Len(wal) : wal[j].seg = seg}} \ {NoName}

\* The lowest remaining segment is the first n records.
IsLowest(n) == \A i \in 1 .. Len(wal) : wal[i].seg = wal[1].seg <=> i <= n

CkReclaim ==
  /\ up /\ ckPc = "reclaim" /\ Reclaimable
  /\ \E n \in 1 .. Len(wal) :
       /\ IsLowest(n)
       /\ wal' = SubSeq(wal, n + 1, Len(wal))
       /\ synced' = synced - n
  /\ orphaned' = orphaned \cup (NamesIn(wal[1].seg) \ ckTemp.names)
  /\ UNCHANGED <<up, memVars, queue, batch, segNo, ckVars, crashes, acked>>

CkDone ==
  /\ up /\ ckPc = "reclaim" /\ ~Reclaimable
  /\ ckPc' = "idle"
  /\ UNCHANGED <<up, memVars, logVars, snapFile, sidecar, ckTemp, passes, crashes, acked, orphaned>>

(***************************************************************************)
(* A crash keeps the fsynced records and any prefix of the others; a torn  *)
(* last record is truncated by recovery, so it counts as not surviving.    *)
(***************************************************************************)
Crash ==
  /\ up /\ crashes < MaxCrashes
  /\ up' = FALSE
  /\ crashes' = crashes + 1
  /\ \E n \in synced .. Len(wal) :
       /\ wal' = SubSeq(wal, 1, n)
       /\ synced' = n
  /\ queue' = <<>> /\ batch' = {}
  /\ UNCHANGED <<memVars, segNo, ckVars, acked, orphaned>>

\* restore_latest_checkpoint: a missing sidecar or a snapshot whose header
\* names another LSN means no checkpoint, and a replay from zero.
Restored == IF sidecar # NoLsn /\ snapFile.lsn = sidecar
            THEN snapFile ELSE [NoSnap EXCEPT !.lsn = 0]

WalRecs == {wal[i].rec : i \in 1 .. Len(wal)}
\* Mutant of Replayed: the first commit after the checkpoint is skipped.
ReplayedOneLate == {r.lsn : r \in {q \in WalRecs : q.lsn > Restored.lsn + 1}}

Replayed == {r.lsn : r \in {q \in WalRecs : q.lsn > Restored.lsn}}

Highest(S) == CHOOSE l \in S : \A m \in S : m <= l

\* Mutant of Recover: a replayed InternString record marks its name proven
\* without putting it back into the table.
RecoverProofOnly ==
  /\ ~up
  /\ up' = TRUE
  /\ applied' = Restored.data \cup Replayed
  /\ names' = Restored.names
  /\ logged' = names' \cup ({r.name : r \in WalRecs} \ {NoName})
  /\ counter' = Highest(applied' \cup {Restored.lsn})
  /\ visible' = counter'
  /\ stage' = [l \in Lsns |-> IF l <= counter' THEN "done" ELSE "none"]
  /\ ckPc' = "idle"
  /\ UNCHANGED <<tier, uses, seen, logVars, snapFile, sidecar, ckTemp, passes,
                 crashes, acked, orphaned>>

\* Restore, replay above the frontier, seed the counters past both.
Recover ==
  /\ ~up
  /\ up' = TRUE
  /\ applied' = Restored.data \cup Replayed
  /\ names' = Restored.names \cup ({r.name : r \in WalRecs} \ {NoName})
  /\ logged' = names'
  /\ counter' = Highest(applied' \cup {Restored.lsn})
  /\ visible' = counter'
  /\ stage' = [l \in Lsns |-> IF l <= counter' THEN "done" ELSE "none"]
  /\ ckPc' = "idle"
  /\ UNCHANGED <<tier, uses, seen, logVars, snapFile, sidecar, ckTemp, passes,
                 crashes, acked, orphaned>>

-----------------------------------------------------------------------------
Next ==
  \/ \E n \in Names : InternPublish(n) \/ InternAppend(n)
  \/ \E t \in {"Strict", "Periodic"}, n \in Names \cup {NoName} : Allocate(t, n)
  \/ \E l \in Lsns : Enqueue(l) \/ Publish(l)
  \/ WriteBatch \/ Fsync
  \/ CkCapture \/ CkRenameSnapshot \/ CkRenameSidecar \/ CkFail \/ CkReclaim \/ CkDone
  \/ Crash \/ Recover

Spec == Init /\ [][Next]_vars

-----------------------------------------------------------------------------
Snapshots == [lsn : Lsns \cup {0, NoLsn}, data : SUBSET Lsns, names : SUBSET Names]
Records == {Bundle(l) : l \in Lsns} \cup {Intern(n) : n \in Names}

\* Counters and files keep their shape, the fsynced part is within the WAL, and
\* a name is proven durable only while the intern table has it: after a restart
\* too, when intern_install rebuilds both from the checkpoint and the log.
TypeOK ==
  /\ up \in BOOLEAN
  /\ counter \in 0 .. MaxLsn /\ visible \in 0 .. MaxLsn
  /\ applied \subseteq Lsns /\ names \subseteq Names /\ logged \subseteq names
  /\ stage \in [Lsns -> {"none", "allocated", "waiting", "durable", "done"}]
  /\ tier \in [Lsns -> {"Strict", "Periodic"}]
  /\ uses \in [Lsns -> Names \cup {NoName}]
  /\ seen \in [Lsns -> SUBSET Lsns]
  /\ queue \in Seq(Records) /\ batch \subseteq Records
  /\ wal \in Seq([rec : Records, seg : Nat])
  /\ synced \in 0 .. Len(wal)
  /\ segNo \in Nat
  /\ snapFile \in Snapshots /\ ckTemp \in Snapshots
  /\ sidecar \in Lsns \cup {0, NoLsn}
  /\ ckPc \in {"idle", "captured", "snapped", "reclaim"}
  /\ passes \in 0 .. MaxCheckpoints /\ crashes \in 0 .. MaxCrashes
  /\ acked \subseteq Lsns /\ orphaned \subseteq Names

\* A Strict commit acknowledged to its client is there after every restart,
\* wherever the crash fell in a batch, a rotation, a checkpoint or a
\* reclamation.
StrictDurable == up => acked \subseteq applied

\* The recovered state is causally closed: if a commit survived, so did all
\* commits its transaction could see, Periodic ones included, although those
\* were visible before they were durable.
RecoveredCausally == up => \A l \in applied : seen[l] \subseteq applied

\* A name used by a surviving commit resolves: intern_logged's record is
\* durable before the commit that uses it may be appended.
NamesResolve == up => \A l \in applied : uses[l] # NoName => uses[l] \in names

\* The same with reclamation running, for every name whose record is not
\* deleted before a checkpoint holds the name: the snapshot and the replay of
\* the remaining segments between them bring back all other names in use.
KeptNamesResolve ==
  up => \A l \in applied : uses[l] \notin orphaned \cup {NoName} => uses[l] \in names

=============================================================================
