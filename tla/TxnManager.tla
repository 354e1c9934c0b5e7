----------------------------- MODULE TxnManager -----------------------------
(***************************************************************************)
(* The MVCC transaction manager of arcgraph-storage (transaction.rs):      *)
(* version chains, snapshot begin, optimistic first-committer-wins         *)
(* validation, the three-phase commit pipeline with WAL failure and        *)
(* rollback, standalone index commits, the checkpoint freeze and the       *)
(* version garbage collector with its begin-generation fence.              *)
(*                                                                         *)
(* A committer is a transaction handle (Txns) or one call of               *)
(* commit_index_pages_atomic (Smos); each runs once, ids are never reused. *)
(* A version's payload is abstracted to its created LSN, which names the   *)
(* commit that wrote it; a tombstone is a version like any other.  A       *)
(* chain is the set of its versions: the Vec of the code is ordered by     *)
(* created LSN because every push is above all that is there, which        *)
(* PushesAscend states and the proof module proves.                        *)
(***************************************************************************)
EXTENDS Integers, FiniteSets

CONSTANTS Txns,      \* transaction handles
          Smos,      \* standalone index operations (commit_index_pages_atomic)
          Keys,      \* keys of ordinary tenants, written by transactions
          SysKeys,   \* SYSTEM keys, written by sidechannel (index roots)
          LsnMax,    \* Lsn::MAX: live version, pending begin; above every LSN
          MaxOps,    \* bound on the width of one allocated redo range
          DeltaMode, \* TRUE: v9/v10 delta bundles, FALSE: v8 bundles
          GcOn       \* FALSE: gc_drive_interval = 0 and no checkpointer

ASSUME ConstAssumption ==
  /\ Txns \cap Smos = {}
  /\ Keys \cap SysKeys = {}
  /\ LsnMax \in Nat \ {0}
  /\ MaxOps \in Nat \ {0}
  /\ DeltaMode \in BOOLEAN
  /\ GcOn \in BOOLEAN

Committers == Txns \cup Smos
AllKeys == Keys \cup SysKeys
Lsn == 0 .. LsnMax
Version == [created : Lsn, expired : Lsn]

VARIABLES
  pc,            \* where each committer is in begin / commit / rollback
  counter,       \* LsnCounter: last allocated LSN
  visible,       \* the snapshot watermark
  installOrder,  \* last LSN whose Phase 3 has run
  chain,         \* versions: key -> set of versions
  active,        \* ids that have an entry in the active map
  slot,          \* the entry's value; LsnMax is the pending sentinel
  snapshot,      \* Transaction.snapshot
  writes,        \* Transaction.writes: buffered, then installed keys
  side,          \* sidechannel keys carried by the commit bundle
  base, lsn,     \* the allocated redo range base .. lsn
  beginGen,      \* begin_generation
  frozen,        \* checkpoint_lock is held for writing
  gcPc, gcGen, gcTodo, gcFloor, gcPending, gcAnchor, gcKeys,  \* one gc pass
  raced          \* history: begins in one of the two windows the fence misses

beginVars == <<active, slot, snapshot, beginGen, raced>>
lsnVars == <<counter, base, lsn>>
gcVars == <<gcPc, gcGen, gcTodo, gcFloor, gcPending, gcAnchor, gcKeys>>
vars == <<pc, visible, installOrder, chain, writes, side, frozen,
          beginVars, lsnVars, gcVars>>

Init ==
  /\ pc = [c \in Committers |-> "idle"]
  /\ counter = 0 /\ visible = 0 /\ installOrder = 0
  /\ chain = [k \in AllKeys |-> {}]
  /\ active = {}
  /\ slot = [t \in Txns |-> LsnMax]
  /\ snapshot = [t \in Txns |-> 0]
  /\ writes = [c \in Committers |-> {}]
  /\ side = [c \in Committers |-> {}]
  /\ base = [c \in Committers |-> 0]
  /\ lsn = [c \in Committers |-> 0]
  /\ beginGen = 0
  /\ frozen = FALSE
  /\ gcPc = "idle" /\ gcGen = 0 /\ gcTodo = {} /\ gcFloor = LsnMax
  /\ gcPending = FALSE /\ gcAnchor = 0 /\ gcKeys = {}
  /\ raced = {}

Goto(c, l) == pc' = [pc EXCEPT ![c] = l]

(***************************************************************************)
(* begin_inner: four atomic steps of the beginning thread.                 *)
(***************************************************************************)
BeginBump(t) ==
  /\ pc[t] = "idle"
  /\ beginGen' = beginGen + 1
  /\ Goto(t, "bumped")
  /\ raced' = IF gcPc = "load" THEN raced \cup {t} ELSE raced
  /\ UNCHANGED <<visible, installOrder, chain, writes, side, frozen,
                 active, slot, snapshot, lsnVars, gcVars>>

BeginSentinel(t) ==
  /\ pc[t] = "bumped"
  /\ active' = active \cup {t}
  /\ slot' = [slot EXCEPT ![t] = LsnMax]
  /\ Goto(t, "pending")
  /\ UNCHANGED <<visible, installOrder, chain, writes, side, frozen,
                 snapshot, beginGen, raced, lsnVars, gcVars>>

BeginLoad(t) ==
  /\ pc[t] = "pending"
  /\ snapshot' = [snapshot EXCEPT ![t] = visible]
  /\ Goto(t, "loaded")
  /\ UNCHANGED <<visible, installOrder, chain, writes, side, frozen,
                 active, slot, beginGen, raced, lsnVars, gcVars>>

BeginPublish(t) ==
  /\ pc[t] = "loaded"
  /\ slot' = [slot EXCEPT ![t] = snapshot[t]]
  /\ Goto(t, "active")
  /\ UNCHANGED <<visible, installOrder, chain, writes, side, frozen,
                 active, snapshot, beginGen, raced, lsnVars, gcVars>>

(***************************************************************************)
(* The handle: buffer a write or a delete; drop or abort it.               *)
(***************************************************************************)
Write(t, k) ==
  /\ pc[t] = "active"
  /\ k \notin writes[t]
  /\ writes' = [writes EXCEPT ![t] = @ \cup {k}]
  /\ UNCHANGED <<pc, visible, installOrder, chain, side, frozen,
                 beginVars, lsnVars, gcVars>>

Abort(t) ==
  /\ pc[t] = "active"
  /\ active' = active \ {t}
  /\ Goto(t, "aborted")
  /\ UNCHANGED <<visible, installOrder, chain, writes, side, frozen,
                 slot, snapshot, beginGen, raced, lsnVars, gcVars>>

(***************************************************************************)
(* Commit, Phase 1.  commit_gate is held at "install" and at "undo".        *)
(***************************************************************************)
\* Mutant of GateFree: validation and install are not serialised.
GateIgnored == TRUE

GateFree == \A c \in Committers : pc[c] \notin {"install", "undo"}

\* Every pc at which the committer holds the read side of checkpoint_lock.
Span == {"guarded", "install", "build", "append", "turn", "published",
         "failed", "undo", "undone", "retireOk", "retireErr"}

EnterCommit(c) ==
  /\ pc[c] = IF c \in Txns THEN "active" ELSE "idle"
  /\ ~frozen
  /\ Goto(c, "guarded")
  /\ UNCHANGED <<visible, installOrder, chain, writes, side, frozen,
                 beginVars, lsnVars, gcVars>>

\* Nothing to commit: no LSN, no WAL record.  With an empty write buffer the
\* commit may still carry sidechannel writes, grants or deltas; then it goes on.
CommitNoop(t) ==
  /\ pc[t] = "guarded"
  /\ writes[t] = {}
  /\ active' = active \ {t}
  /\ Goto(t, "readonly")
  /\ UNCHANGED <<visible, installOrder, chain, writes, side, frozen,
                 slot, snapshot, beginGen, raced, lsnVars, gcVars>>

\* Mutant of Conflicts: silently installed versions are not considered.
ConflictsPublishedOnly(t) ==
  \E k \in writes[t] : \E v \in chain[k] : v.created > snapshot[t] /\ v.created <= visible

\* The OCC check: the newest version of a written key is after the snapshot.
Conflicts(t) ==
  \E k \in writes[t] : \E v \in chain[k] : v.created > snapshot[t]

Conflict(t) ==
  /\ pc[t] = "guarded" /\ GateFree
  /\ Conflicts(t)
  /\ Goto(t, "conflict")
  /\ UNCHANGED <<visible, installOrder, chain, writes, side, frozen,
                 beginVars, lsnVars, gcVars>>

\* Delta bundles: the builder runs under the gate, before any allocation.
DeltaBuilderError(t) ==
  /\ DeltaMode
  /\ pc[t] = "guarded" /\ GateFree
  /\ ~Conflicts(t)
  /\ active' = active \ {t}
  /\ Goto(t, "aborted")
  /\ UNCHANGED <<visible, installOrder, chain, writes, side, frozen,
                 slot, snapshot, beginGen, raced, lsnVars, gcVars>>

\* LsnCounter::allocate_range(n): base .. lsn, the commit LSN is the last.
AllocateRange(c, n) ==
  /\ counter + n < LsnMax
  /\ counter' = counter + n
  /\ base' = [base EXCEPT ![c] = counter + 1]
  /\ lsn' = [lsn EXCEPT ![c] = counter + n]

ValidateAndAllocate(t) ==
  /\ pc[t] = "guarded" /\ GateFree
  /\ ~Conflicts(t)
  /\ \E n \in 1 .. (IF DeltaMode THEN MaxOps ELSE 1) : AllocateRange(t, n)
  /\ Goto(t, "install")
  /\ UNCHANGED <<visible, installOrder, chain, writes, side, frozen,
                 beginVars, gcVars>>

\* commit_index_pages_atomic: no snapshot, no OCC, no silent install.
IndexAllocate(m) ==
  /\ pc[m] = "guarded" /\ GateFree
  /\ AllocateRange(m, 1)
  /\ Goto(m, "append")
  /\ UNCHANGED <<visible, installOrder, chain, writes, side, frozen,
                 beginVars, gcVars>>

IsLast(v, vs) == \A w \in vs : w.created <= v.created

Expire(v, l) == [created |-> v.created, expired |-> l]

\* Expire the live last version at LSN l and push a version created at l.
Push(vs, l) ==
  {IF IsLast(v, vs) /\ v.expired = LsnMax THEN Expire(v, l) ELSE v : v \in vs}
    \cup {[created |-> l, expired |-> LsnMax]}

Holds(k, l) == \E v \in chain[k] : v.created = l

\* The silent install, one key at a time under the gate.
InstallKey(t, k) ==
  /\ pc[t] = "install"
  /\ k \in writes[t] /\ ~Holds(k, lsn[t])
  /\ chain' = [chain EXCEPT ![k] = Push(@, lsn[t])]
  /\ UNCHANGED <<pc, visible, installOrder, writes, side, frozen,
                 beginVars, lsnVars, gcVars>>

ReleaseGate(t) ==
  /\ pc[t] = "install"
  /\ \A k \in writes[t] : Holds(k, lsn[t])
  /\ Goto(t, IF DeltaMode THEN "append" ELSE "build")
  /\ UNCHANGED <<visible, installOrder, chain, writes, side, frozen,
                 beginVars, lsnVars, gcVars>>

\* v8: the builder runs after the install and outside the gate.
Build(t) ==
  /\ pc[t] = "build"
  /\ \/ Goto(t, "append")
     \/ Goto(t, "failed")
  /\ UNCHANGED <<visible, installOrder, chain, writes, side, frozen,
                 beginVars, lsnVars, gcVars>>

(***************************************************************************)
(* Phase 2: the WAL append outside the gate; it succeeds or fails.         *)
(***************************************************************************)
WalOk(c) ==
  /\ pc[c] = "append"
  /\ \E s \in SUBSET SysKeys : side' = [side EXCEPT ![c] = s]
  /\ Goto(c, "turn")
  /\ UNCHANGED <<visible, installOrder, chain, writes, frozen,
                 beginVars, lsnVars, gcVars>>

WalFail(c) ==
  /\ pc[c] = "append"
  /\ Goto(c, "failed")
  /\ UNCHANGED <<visible, installOrder, chain, writes, side, frozen,
                 beginVars, lsnVars, gcVars>>

(***************************************************************************)
(* Phase 3: in LSN order, apply the sidechannel writes and publish, or     *)
(* roll the silent install back under the gate; then let the successor in. *)
(***************************************************************************)
\* Mutant of MyTurn: off by one, the direct predecessor is not waited for.
TurnOneEarly(c) == installOrder + 2 >= base[c]

MyTurn(c) == installOrder >= base[c] - 1

ApplySide(c, k) ==
  /\ pc[c] = "turn" /\ MyTurn(c)
  /\ k \in side[c] /\ ~Holds(k, lsn[c])
  /\ chain' = [chain EXCEPT ![k] = Push(@, lsn[c])]
  /\ UNCHANGED <<pc, visible, installOrder, writes, side, frozen,
                 beginVars, lsnVars, gcVars>>

\* Mutant of Publish: the commit does not wait for its install turn.
PublishOutOfTurn(c) ==
  /\ pc[c] = "turn"
  /\ \A k \in side[c] : Holds(k, lsn[c])
  /\ visible' = lsn[c]
  /\ Goto(c, "published")
  /\ UNCHANGED <<installOrder, chain, writes, side, frozen,
                 beginVars, lsnVars, gcVars>>

Publish(c) ==
  /\ pc[c] = "turn" /\ MyTurn(c)
  /\ \A k \in side[c] : Holds(k, lsn[c])
  /\ visible' = lsn[c]
  /\ Goto(c, "published")
  /\ UNCHANGED <<installOrder, chain, writes, side, frozen,
                 beginVars, lsnVars, gcVars>>

BeginUndo(c) ==
  /\ pc[c] = "failed" /\ MyTurn(c)
  /\ c \in Txns => GateFree
  /\ Goto(c, IF c \in Txns THEN "undo" ELSE "undone")
  /\ UNCHANGED <<visible, installOrder, chain, writes, side, frozen,
                 beginVars, lsnVars, gcVars>>

\* Mutant of Pop: the predecessor stays expired.
PopWithoutRevive(vs, l) == {v \in vs : v.created # l}

\* rollback_writes on one chain: pop our last version, revive its predecessor.
Pop(vs, l) ==
  LET rest == {v \in vs : v.created # l}
  IN {IF IsLast(v, rest) /\ v.expired = l THEN Expire(v, LsnMax) ELSE v : v \in rest}

OursIsLast(k, l) == \E v \in chain[k] : v.created = l /\ IsLast(v, chain[k])

UndoKey(t, k) ==
  /\ pc[t] = "undo"
  /\ k \in writes[t] /\ OursIsLast(k, lsn[t])
  /\ chain' = [chain EXCEPT ![k] = Pop(@, lsn[t])]
  /\ UNCHANGED <<pc, visible, installOrder, writes, side, frozen,
                 beginVars, lsnVars, gcVars>>

EndUndo(t) ==
  /\ pc[t] = "undo"
  /\ \A k \in writes[t] : ~OursIsLast(k, lsn[t])
  /\ Goto(t, "undone")
  /\ UNCHANGED <<visible, installOrder, chain, writes, side, frozen,
                 beginVars, lsnVars, gcVars>>

\* Mutant of Advance: a rolled back commit does not let its successor in.
AdvanceOnSuccess(c) ==
  /\ pc[c] \in {"published", "undone"}
  /\ installOrder' = IF pc[c] = "published" THEN lsn[c] ELSE installOrder
  /\ Goto(c, IF pc[c] = "published" THEN "retireOk" ELSE "retireErr")
  /\ UNCHANGED <<visible, chain, writes, side, frozen,
                 beginVars, lsnVars, gcVars>>

\* advance_install_order_and_notify: never regresses.
Advance(c) ==
  /\ pc[c] \in {"published", "undone"}
  /\ installOrder' = IF installOrder < lsn[c] THEN lsn[c] ELSE installOrder
  /\ Goto(c, IF pc[c] = "published" THEN "retireOk" ELSE "retireErr")
  /\ UNCHANGED <<visible, chain, writes, side, frozen,
                 beginVars, lsnVars, gcVars>>

\* active.remove, by the commit path or by abort_txn after a conflict.
Retire(c) ==
  /\ pc[c] \in {"retireOk", "retireErr", "conflict"}
  /\ active' = active \ {c}
  /\ Goto(c, IF pc[c] = "retireOk" THEN "committed" ELSE "aborted")
  /\ UNCHANGED <<visible, installOrder, chain, writes, side, frozen,
                 slot, snapshot, beginGen, raced, lsnVars, gcVars>>

(***************************************************************************)
(* checkpoint_freeze: the write side of checkpoint_lock.                   *)
(***************************************************************************)
\* Mutant of Freeze: it waits for commit_gate only.
FreezeBetweenPhases ==
  /\ ~frozen /\ GateFree
  /\ frozen' = TRUE
  /\ UNCHANGED <<pc, visible, installOrder, chain, writes, side,
                 beginVars, lsnVars, gcVars>>

Freeze ==
  /\ ~frozen
  /\ \A c \in Committers : pc[c] \notin Span
  /\ frozen' = TRUE
  /\ UNCHANGED <<pc, visible, installOrder, chain, writes, side,
                 beginVars, lsnVars, gcVars>>

Unfreeze ==
  /\ frozen
  /\ frozen' = FALSE
  /\ UNCHANGED <<pc, visible, installOrder, chain, writes, side,
                 beginVars, lsnVars, gcVars>>

(***************************************************************************)
(* gc: oldest_active_snapshot, then retain on every chain.  active is a    *)
(* sharded map scanned without a global lock: one entry at a time.         *)
(***************************************************************************)
GcStart ==
  /\ GcOn /\ gcPc = "idle"
  /\ gcGen' = beginGen
  /\ gcTodo' = Txns /\ gcFloor' = LsnMax /\ gcPending' = FALSE
  /\ gcPc' = "scan"
  /\ raced' = raced \cup {t \in Txns : pc[t] = "bumped"}
  /\ UNCHANGED <<pc, visible, installOrder, chain, writes, side, frozen,
                 active, slot, snapshot, beginGen, lsnVars, gcAnchor, gcKeys>>

\* Mutant of GcVisit: an exclusive floor, wrong at snapshot 0.
GcVisitExclusive(t) ==
  /\ gcPc = "scan" /\ t \in gcTodo
  /\ gcTodo' = gcTodo \ {t}
  /\ gcPending' = (gcPending \/ (t \in active /\ slot[t] = LsnMax))
  /\ gcFloor' = IF t \in active /\ slot[t] < gcFloor THEN slot[t] - 1 ELSE gcFloor
  /\ UNCHANGED <<pc, visible, installOrder, chain, writes, side, frozen,
                 beginVars, lsnVars, gcPc, gcGen, gcAnchor, gcKeys>>

GcVisit(t) ==
  /\ gcPc = "scan" /\ t \in gcTodo
  /\ gcTodo' = gcTodo \ {t}
  /\ gcPending' = (gcPending \/ (t \in active /\ slot[t] = LsnMax))
  /\ gcFloor' = IF t \in active /\ slot[t] < gcFloor THEN slot[t] ELSE gcFloor
  /\ UNCHANGED <<pc, visible, installOrder, chain, writes, side, frozen,
                 beginVars, lsnVars, gcPc, gcGen, gcAnchor, gcKeys>>

\* Mutant of GcFence: the begin generation is not compared.
GcNoFence ==
  /\ gcPc = "scan" /\ gcTodo = {}
  /\ IF gcPending
       THEN gcAnchor' = 0 /\ gcPc' = "reclaim"
       ELSE IF gcFloor # LsnMax
              THEN gcAnchor' = gcFloor /\ gcPc' = "reclaim"
              ELSE gcAnchor' = gcAnchor /\ gcPc' = "load"
  /\ gcKeys' = AllKeys
  /\ UNCHANGED <<pc, visible, installOrder, chain, writes, side, frozen,
                 beginVars, lsnVars, gcGen, gcTodo, gcFloor, gcPending>>

\* The generation is read again; an empty map loads visible one step later.
\* The keys are collected after that; one inserted later holds no version at or
\* below the anchor, so visiting it or not is the same.
GcFence ==
  /\ gcPc = "scan" /\ gcTodo = {}
  /\ IF gcGen # beginGen \/ gcPending
       THEN gcAnchor' = 0 /\ gcPc' = "reclaim"
       ELSE IF gcFloor # LsnMax
              THEN gcAnchor' = gcFloor /\ gcPc' = "reclaim"
              ELSE gcAnchor' = gcAnchor /\ gcPc' = "load"
  /\ gcKeys' = AllKeys
  /\ UNCHANGED <<pc, visible, installOrder, chain, writes, side, frozen,
                 beginVars, lsnVars, gcGen, gcTodo, gcFloor, gcPending>>

\* Mutant of GcLoadVisible: the allocator instead of the watermark.
GcLoadCounter ==
  /\ gcPc = "load"
  /\ gcAnchor' = counter
  /\ gcPc' = "reclaim"
  /\ UNCHANGED <<pc, visible, installOrder, chain, writes, side, frozen,
                 beginVars, lsnVars, gcGen, gcTodo, gcFloor, gcPending, gcKeys>>

GcLoadVisible ==
  /\ gcPc = "load"
  /\ gcAnchor' = visible
  /\ gcPc' = "reclaim"
  /\ UNCHANGED <<pc, visible, installOrder, chain, writes, side, frozen,
                 beginVars, lsnVars, gcGen, gcTodo, gcFloor, gcPending, gcKeys>>

Retain(vs, anchor) == {v \in vs : v.expired > anchor}

GcReclaim(k) ==
  /\ gcPc = "reclaim" /\ k \in gcKeys
  /\ chain' = [chain EXCEPT ![k] = Retain(@, gcAnchor)]
  /\ gcKeys' = gcKeys \ {k}
  /\ UNCHANGED <<pc, visible, installOrder, writes, side, frozen,
                 beginVars, lsnVars, gcPc, gcGen, gcTodo, gcFloor, gcPending, gcAnchor>>

\* The pass returns and its locals die.
GcEnd ==
  /\ gcPc = "reclaim" /\ gcKeys = {}
  /\ gcPc' = "idle"
  /\ gcGen' = 0 /\ gcFloor' = LsnMax /\ gcPending' = FALSE /\ gcAnchor' = 0
  /\ UNCHANGED <<pc, visible, installOrder, chain, writes, side, frozen,
                 beginVars, lsnVars, gcTodo, gcKeys>>

-----------------------------------------------------------------------------
BeginStep(t) == BeginBump(t) \/ BeginSentinel(t) \/ BeginLoad(t) \/ BeginPublish(t)

\* The steps the committing thread takes once it holds the read guard.
TxnCommitStep(t) ==
  \/ CommitNoop(t) \/ Conflict(t) \/ DeltaBuilderError(t)
  \/ ValidateAndAllocate(t) \/ ReleaseGate(t) \/ Build(t) \/ EndUndo(t)
  \/ \E k \in Keys : InstallKey(t, k) \/ UndoKey(t, k)

PipelineStep(c) ==
  \/ WalOk(c) \/ WalFail(c) \/ Publish(c) \/ BeginUndo(c) \/ Advance(c) \/ Retire(c)
  \/ \E k \in SysKeys : ApplySide(c, k)

GcStep ==
  \/ GcStart \/ GcFence \/ GcLoadVisible \/ GcEnd
  \/ \E t \in Txns : GcVisit(t)
  \/ \E k \in AllKeys : GcReclaim(k)

Next ==
  \/ \E t \in Txns : BeginStep(t) \/ Abort(t) \/ TxnCommitStep(t)
  \/ \E t \in Txns, k \in Keys : Write(t, k)
  \/ \E m \in Smos : IndexAllocate(m)
  \/ \E c \in Committers : EnterCommit(c) \/ PipelineStep(c)
  \/ Freeze \/ Unfreeze
  \/ GcStep

Spec == Init /\ [][Next]_vars

\* A commit runs on its caller's thread and the WAL answers every append, so a
\* committing thread that can step does; nothing is assumed of begins, of new
\* commits, of the checkpointer or of gc.
FairSpec ==
  /\ Spec
  /\ \A t \in Txns : WF_vars(TxnCommitStep(t) \/ PipelineStep(t))
  /\ \A m \in Smos : WF_vars(IndexAllocate(m) \/ PipelineStep(m))

-----------------------------------------------------------------------------
(***************************************************************************)
(* Properties                                                              *)
(***************************************************************************)
Pcs == Span \cup {"idle", "bumped", "pending", "loaded", "active", "readonly",
                  "conflict", "committed", "aborted"}

\* LSNs stay below the Lsn::MAX sentinel, snapshots and gc's floor are LSNs,
\* and the active map, the write buffers and the chains keep their shape.
TypeOK ==
  /\ pc \in [Committers -> Pcs]
  /\ counter \in Lsn /\ visible \in Lsn /\ installOrder \in Lsn
  /\ chain \in [AllKeys -> SUBSET Version]
  /\ active \in SUBSET Txns
  /\ slot \in [Txns -> Lsn] /\ snapshot \in [Txns -> Lsn]
  /\ writes \in [Committers -> SUBSET Keys]
  /\ side \in [Committers -> SUBSET SysKeys]
  /\ base \in [Committers -> Lsn] /\ lsn \in [Committers -> Lsn]
  /\ beginGen \in Nat
  /\ frozen \in BOOLEAN
  /\ gcPc \in {"idle", "scan", "load", "reclaim"}
  /\ gcGen \in Nat /\ gcTodo \in SUBSET Txns /\ gcFloor \in Lsn
  /\ gcPending \in BOOLEAN /\ gcAnchor \in Lsn /\ gcKeys \in SUBSET AllKeys
  /\ raced \in SUBSET Txns

Committed == {c \in Committers : pc[c] \in {"published", "retireOk", "committed"}}
InFlight == {c \in Committers : pc[c] \in {"install", "build", "append", "turn",
                                           "failed", "undo", "undone"}}
Reading(t) == pc[t] \in {"loaded", "active", "guarded", "install", "build",
                         "append", "turn", "failed", "undo"}

Wrote(c, k) == k \in writes[c] \/ k \in side[c]

\* What the committed history says key k holds at snapshot s (0: nothing).
ExpectedAt(k, s) ==
  LET ws == {lsn[c] : c \in {d \in Committed : Wrote(d, k) /\ lsn[d] <= s}}
  IN IF ws = {} THEN 0 ELSE CHOOSE l \in ws : \A m \in ws : m <= l

VisibleTo(v, s) == v.created <= s /\ s < v.expired

\* read_at: the newest version visible at the snapshot (0: none).
ReadAt(k, s) ==
  LET vs == {v \in chain[k] : VisibleTo(v, s)}
  IN IF vs = {} THEN 0 ELSE (CHOOSE v \in vs : IsLast(v, vs)).created

\* Snapshot isolation: until its handle is consumed, a transaction reads
\* exactly the committed prefix at its snapshot, whatever is installed,
\* published, rolled back or collected meanwhile (module header, invariants 1,
\* 5 and 7).
SnapshotReads ==
  \A t \in Txns : Reading(t) =>
    \A k \in AllKeys : ReadAt(k, snapshot[t]) = ExpectedAt(k, snapshot[t])

\* The same with gc running, for every begin outside the two windows of
\* oldest_active_snapshot that the generation fence does not cover: between
\* the generation bump and the sentinel insert when a scan starts, and begun
\* after the generation is re-read but before visible is loaded.
FencedSnapshotReads ==
  \A t \in Txns \ raced : Reading(t) =>
    \A k \in AllKeys : ReadAt(k, snapshot[t]) = ExpectedAt(k, snapshot[t])

\* The newest committed state is always readable at the watermark: neither a
\* rollback nor gc takes or leaves expired the version a failed commit had
\* superseded.
NewestCommittedReadable ==
  \A k \in AllKeys : ReadAt(k, visible) = ExpectedAt(k, visible)

\* No lost updates: of two committed writers of a key, one had the other in
\* its snapshot.
FirstCommitterWins ==
  \A a, b \in Committed \cap Txns :
    (a # b /\ writes[a] \cap writes[b] # {}) =>
      (lsn[a] <= snapshot[b] \/ lsn[b] <= snapshot[a])

\* Commit atomicity: no snapshot can reach the LSN of a commit that is
\* installed but not published, and LSN ranges finish Phase 3 in order.
UnpublishedInvisible ==
  \A c \in InFlight : visible < lsn[c] /\ installOrder < base[c]

\* While a checkpoint holds the freeze, every chain consists of published
\* versions only: the capture contains no effect of an unfinished commit.
FreezeSeesOnlyPublished ==
  frozen => \A k \in AllKeys : \A v \in chain[k] :
              v.created <= visible /\ (v.expired <= visible \/ v.expired = LsnMax)

\* Every push is above all versions of its chain, so the Vec stays sorted by
\* created LSN (the debug assertion of apply_sidechannel_mvcc_write).
PushesAscend ==
  [][\A k \in AllKeys : \A v \in chain'[k] :
       (\A w \in chain[k] : w.created # v.created) =>
         \A w \in chain[k] : w.created < v.created]_vars

\* The watermark and the install order never go back.
Monotone == [][visible' >= visible /\ installOrder' >= installOrder]_vars

\* Every commit that has started returns: no failed or rolled back
\* predecessor leaves its successors waiting on install_order.
CommitSettles ==
  \A c \in Committers : pc[c] \in Span ~> pc[c] \notin Span

=============================================================================
