------------------------ MODULE IncrementalInvariant ------------------------
(***************************************************************************)
(* The inductive invariant behind the properties of IncrementalCheckpoint. *)
(***************************************************************************)
EXTENDS IncrementalCheckpoint

\* Types, one group per group of variables.
Marks == 0 .. MaxLsn
Flights == [bundle : Records, tier : Tiers]
Entries == [bundle : Records, seg : Nat]
Checkpoints == [lsn : Marks, redo : Marks, rec : [Pages -> Marks], capture : Marks]

CommitType ==
  /\ clock \in Marks /\ visible \in Marks /\ live \in SUBSET Pages
  /\ inflight \in Seq(Flights) /\ Len(inflight) <= MaxInflight
  /\ deferred \in Seq(Records) /\ work \in SUBSET Ops
  /\ apc \in {"idle", "drain", "front", "decide", "own"}

PageType ==
  /\ cache \in [Pages -> Contents] /\ rec \in [Pages -> Marks] /\ stale \in SUBSET Pages

WalType ==
  /\ wal \in Seq(Entries) /\ synced \in 0 .. Len(wal)
  /\ seg \in Nat /\ oldest \in 1 .. seg

DiskType ==
  /\ home \in [Pages -> Contents] /\ sidecar \in Checkpoints
  /\ DOMAIN dwb \in SUBSET Pages /\ dwb \in [DOMAIN dwb -> Contents]

PassType ==
  /\ cpc \in {"idle", "flush", "drain", "draining", "snapshot", "copy", "stage", "home",
              "complete", "capture", "metadata", "horizon2", "flush2", "drain2",
              "draining2", "sidecar", "reclaim"}
  /\ todo \in SUBSET Pages /\ horizon \in Marks /\ meta \in Checkpoints
  /\ DOMAIN image \in SUBSET Pages /\ image \in [DOMAIN image -> Contents]

ModeType == mode \in {"up", "redo", "refused"} /\ redo \in SUBSET Ops

TypeInv == CommitType /\ PageType /\ WalType /\ DiskType /\ PassType /\ ModeType
-----------------------------------------------------------------------------
\* Records and their order.
Up == mode = "up"
Known == Logged \cup InFlight
Disk == OnDisk(wal)

WellFormed(b) ==
  /\ 2 <= b.first /\ b.first <= b.lsn
  /\ \A o \in b.ops : b.first <= o.lsn /\ o.lsn <= b.lsn
  /\ \A o, q \in b.ops : o.lsn = q.lsn => o = q

Apart(a, b) == a = b \/ a.lsn < b.first \/ b.lsn < a.first

\* LSN ranges are handed out once.
RecordInv ==
  /\ 1 <= visible /\ visible <= clock
  /\ \A b \in Known : WellFormed(b) /\ b.lsn <= clock
  /\ \A a, b \in Known : Apart(a, b)

\* Commits publish in LSN order, and those whose pages wait are queued in it.
QueueInv ==
  /\ \A i, j \in 1 .. Len(deferred) : i < j => deferred[i].lsn < deferred[j].first
  /\ \A i, j \in 1 .. Len(inflight) : i < j => inflight[i].bundle.lsn < inflight[j].bundle.first
  /\ \A i \in 1 .. Len(deferred) : deferred[i].lsn <= visible /\ deferred[i] \in Logged
  /\ \A i \in 1 .. Len(inflight) : visible < inflight[i].bundle.first
  /\ Up => \A b \in Logged \ Unsettled :
       b.lsn <= visible /\ \A q \in Queued : b.lsn < q.first
  /\ ~Up => inflight = <<>> /\ deferred = <<>> /\ apc = "idle" /\ cpc = "idle"

\* The record whose deltas are being applied is durable and the first unsettled.
Applying == apc \in {"front", "own"}
Current == IF apc = "front" THEN deferred[1] ELSE inflight[1].bundle

ApplyInv ==
  /\ Applying => work \subseteq Current.ops /\ Current \in Durable
  /\ apc = "front" => deferred # <<>>
  /\ apc = "own" => deferred = <<>>
  /\ Freezing => inflight = <<>> /\ apc \in {"drain", "front"}
  /\ apc # "idle" /\ ~Freezing => inflight # <<>> /\ inflight[1].bundle \in Logged

\* Recovery redoes what is on disk, all of it fsynced.
DurableDisk == {wal[i].bundle : i \in {j \in 1 .. synced : wal[j].seg >= oldest}}

RedoInv == redo \subseteq UNION {b.ops : b \in DurableDisk} /\ (Up => redo = {})

\* A recLSN is the LSN of a delta that was applied.
RecBelow ==
  \A p \in Pages :
    /\ Up => rec[p] <= visible \/ (apc = "own" /\ rec[p] <= inflight[1].bundle.lsn)
    /\ \A b \in Unsettled : rec[p] < b.first \/ (Applying /\ b = Current)
    /\ Applying => \A o \in work : rec[p] <= o.lsn
    /\ ~Up => rec[p] <= sidecar.lsn \/ \E b \in Disk : rec[p] <= b.lsn
-----------------------------------------------------------------------------
\* Checkpoints.
Captured == cpc \in {"metadata", "horizon2", "flush2", "drain2", "draining2", "sidecar", "reclaim"}

CkOK(s) ==
  /\ 1 <= s.lsn /\ s.redo <= s.lsn
  /\ \A p \in Pages : s.rec[p] # 0 => s.redo <= s.rec[p] /\ s.rec[p] <= s.lsn
  /\ s.lsn <= clock /\ (Up => s.lsn <= visible /\ s.capture <= clock)
  /\ \A b \in Unsettled : s.lsn < b.lsn
  /\ \A b \in Known : s.lsn < b.lsn => \A p \in Pages : s.rec[p] < b.first

CkInv ==
  /\ CkOK(sidecar)
  /\ Captured => CkOK(meta) /\ sidecar.lsn <= meta.lsn
  /\ cpc = "reclaim" => sidecar = meta
  /\ \A i \in 1 .. Len(wal) : wal[i].seg < oldest => wal[i].bundle.lsn <= sidecar.lsn

\* The last LSN, and the one at which the owners were captured, are reached again
\* by the replay.
Reached(n, s, B) == n <= s.lsn \/ \E b \in B : n <= b.lsn
Late == cpc \in {"drain2", "draining2", "sidecar", "reclaim"}

ReachInv ==
  /\ Up => Reached(clock, sidecar, InFlight \cup Disk)
  /\ Reached(sidecar.capture, sidecar, DurableDisk)
  /\ cpc = "horizon2" => Reached(meta.capture, meta, InFlight \cup Disk)
  /\ cpc = "flush2" => Reached(meta.capture, meta, Disk)
  /\ Late => Reached(meta.capture, meta, DurableDisk)

CaptureInv ==
  /\ cpc = "flush2" => \A b \in InFlight : meta.capture < b.lsn
  /\ Late => \A b \in Unsettled : b.lsn <= meta.capture => b \in Durable
  /\ CaptureIsDurable

HorizonInv ==
  /\ cpc # "idle" => horizon <= visible
  /\ cpc \in {"drain", "draining"} => \A b \in Queued : b.lsn <= horizon => b \in Durable
  /\ cpc \in {"snapshot", "copy", "stage", "home", "complete", "capture"} =>
        \A b \in Queued : horizon < b.lsn
  /\ Captured => horizon <= meta.lsn

\* Together: commits, log and checkpoints, without what pages hold.
IInv ==
  /\ TypeInv /\ RecordInv /\ QueueInv /\ ApplyInv /\ RedoInv /\ RecBelow
  /\ CkInv /\ ReachInv /\ CaptureInv /\ HorizonInv
=============================================================================
