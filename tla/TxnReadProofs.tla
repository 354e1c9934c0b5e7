---------------------------- MODULE TxnReadProofs ----------------------------
(***************************************************************************)
(* What transactions read, for every value of the constants: the newest    *)
(* committed state is readable at the watermark, a transaction reads the   *)
(* committed prefix at its snapshot (with gc running, if it did not begin  *)
(* in a window that the fence misses), and without gc the manager          *)
(* implements SnapshotIsolation.                                           *)
(***************************************************************************)
EXTENDS TxnManagerProofs, TxnRefinesSI

\* A leaf that names no prover goes to the SMT solver; the limit is generous, so
\* that a proof does not depend on how busy the machine is.
USE SMTT(60)

\* LSNs are handed out once.
UniqueInv ==
  /\ \A c \in Committers : lsn[c] <= counter
  /\ \A c, d \in Committers : lsn[c] = lsn[d] /\ lsn[c] # 0 => c = d

\* Every version was written by a commit that has not been rolled back, and the
\* committed ones are at or below the watermark.
AuthorInv ==
  /\ \A c \in Committed : lsn[c] <= visible
  /\ \A m \in Smos : writes[m] = {}
  /\ \A k \in AllKeys : \A v \in chain[k] :
       \E c \in Numbered : lsn[c] = v.created /\ Wrote(c, k)

\* A reader at s finds a version at least as new as any commit in its snapshot.
CoverAt(k, s) ==
  \A c \in Committed : Wrote(c, k) /\ lsn[c] <= s =>
    \E v \in chain[k] : lsn[c] <= v.created /\ VisibleTo(v, s)

CoverInv ==
  \A k \in AllKeys : /\ CoverAt(k, visible)
                     /\ \A t \in Txns \ raced : Reading(t) => CoverAt(k, snapshot[t])

\* The active map entry of a handle: the sentinel, then the snapshot.
HandleInv ==
  \A t \in Txns :
    /\ pc[t] \in {"pending", "loaded"} => t \in active /\ slot[t] = LsnMax
    /\ Reading(t) /\ pc[t] # "loaded" => t \in active /\ slot[t] = snapshot[t]

\* oldest_active_snapshot: as long as no transaction has begun since the scan
\* started, whoever was scanned holds the floor down or is noted as pending, and
\* no reader outside the two windows is above the anchor.
FenceInv ==
  /\ ~GcOn => gcPc = "idle" /\ raced = {}
  /\ gcGen <= beginGen
  /\ gcPc = "scan" /\ gcGen = beginGen =>
       \A t \in Txns \ raced :
         /\ pc[t] # "bumped"
         /\ t \notin gcTodo /\ (pc[t] = "pending" \/ Reading(t)) =>
              gcPending \/ (Reading(t) /\ gcFloor <= snapshot[t])
  /\ gcPc = "load" =>
       \A t \in Txns \ raced : pc[t] \notin {"bumped", "pending"} /\ ~Reading(t)
  /\ gcPc = "reclaim" => \A t \in Txns \ raced : Reading(t) => gcAnchor <= snapshot[t]

\* The inductive invariant of the readers.
ReadInv == UniqueInv /\ AuthorInv /\ CoverInv /\ HandleInv /\ FenceInv

-----------------------------------------------------------------------------
\* What a step does to the committed history and to the handles.

\* A commit that has a range keeps it and what it wrote, until it is published or
\* rolled back; no other step commits.
Lasting(c) ==
  /\ c \in Committed' <=> c \in Committed
  /\ c \in Numbered => /\ c \in Numbered' \/ pc[c] = "undone"
                       /\ lsn'[c] = lsn[c] /\ writes'[c] = writes[c]
                       /\ side'[c] = side[c] \/ pc[c] = "append"

HistoryMoves == visible' = visible /\ \A c \in Committers : Lasting(c)

\* Only a publication moves visible or adds to the committed history.
LEMMA HistoryStep ==
  ASSUME TypeOK, [Next]_vars, \A c \in Committers : ~Publish(c)
  PROVE  HistoryMoves
<1> USE ConstAssumption DEF Committers, HistoryMoves, Lasting, Goto, TypeOK, Numbered, InFlight,
                            Committed, lsnVars, beginVars
<1>1. ASSUME NEW t \in Txns, BeginStep(t) \/ Abort(t) PROVE HistoryMoves
  BY <1>1, Zenon DEF BeginStep, BeginBump, BeginSentinel, BeginLoad, BeginPublish, Abort
<1>2. ASSUME NEW t \in Txns, TxnCommitStep(t) PROVE HistoryMoves
  <2>1. CASE CommitNoop(t) \/ Conflict(t) \/ DeltaBuilderError(t)
    BY <2>1, Zenon DEF CommitNoop, Conflict, DeltaBuilderError
  <2>2. CASE ValidateAndAllocate(t)
    BY <2>2, Zenon DEF ValidateAndAllocate, AllocateRange
  <2>3. CASE ReleaseGate(t) \/ Build(t) \/ EndUndo(t)
    BY <2>3, Zenon DEF ReleaseGate, Build, EndUndo
  <2>4. CASE \E k \in Keys : InstallKey(t, k) \/ UndoKey(t, k)
    BY <2>4, Zenon DEF InstallKey, UndoKey
  <2> QED BY <1>2, <2>1, <2>2, <2>3, <2>4, Zenon DEF TxnCommitStep
<1>3. ASSUME NEW t \in Txns, NEW k \in Keys, Write(t, k) PROVE HistoryMoves
  BY <1>3, Zenon DEF Write
<1>4. ASSUME NEW m \in Smos, IndexAllocate(m) PROVE HistoryMoves
  BY <1>4, Zenon DEF IndexAllocate, AllocateRange
<1>5. ASSUME NEW c \in Committers, EnterCommit(c) \/ PipelineStep(c) PROVE HistoryMoves
  <2>1. CASE EnterCommit(c) \/ WalOk(c) \/ WalFail(c)
    BY <2>1, Zenon DEF EnterCommit, WalOk, WalFail
  <2>2. CASE BeginUndo(c)
    BY <2>2, Zenon DEF BeginUndo
  <2>3. CASE Advance(c) \/ Retire(c)
    BY <2>3, Zenon DEF Advance, Retire
  <2>4. CASE \E k \in SysKeys : ApplySide(c, k)
    BY <2>4, Zenon DEF ApplySide
  <2> QED BY <1>5, <2>1, <2>2, <2>3, <2>4, Zenon DEF PipelineStep
<1>6. CASE Freeze \/ Unfreeze
  BY <1>6, Zenon DEF Freeze, Unfreeze
<1>7. CASE GcStep
  BY <1>7, Zenon DEF GcStep, GcStart, GcFence, GcLoadVisible, GcEnd, GcVisit, GcReclaim
<1>8. CASE UNCHANGED vars
  BY <1>8, Zenon DEF vars
<1> QED BY <1>1, <1>2, <1>3, <1>4, <1>5, <1>6, <1>7, <1>8, Zenon DEF Next

\* Outside begin, a handle only moves forward and keeps its entry while it reads.
ReadersMove ==
  /\ UNCHANGED <<snapshot, slot, beginGen>>
  /\ \A t \in Txns :
       /\ pc'[t] \in {"bumped", "pending", "loaded"} => pc'[t] = pc[t]
       /\ pc[t] = "loaded" => pc'[t] = "loaded"
       /\ Reading(t)' => Reading(t)
       /\ (Reading(t)' \/ pc'[t] = "pending") /\ t \in active => t \in active'

\* Outside begin, no step gives a transaction a snapshot or takes one from a
\* running one, and only gc touches its scan.
LEMMA ReaderStep ==
  ASSUME TypeOK, [Next]_vars, \A t \in Txns : ~BeginStep(t)
  PROVE  ReadersMove /\ (GcStep \/ UNCHANGED <<gcVars, raced>>)
<1> DEFINE Goal == ReadersMove /\ UNCHANGED <<gcVars, raced>>
<1> USE ConstAssumption DEF Committers, ReadersMove, Reading, Goto, TypeOK, beginVars
<1>1. ASSUME NEW t \in Txns, Abort(t) PROVE Goal
  BY <1>1, Zenon DEF Abort
<1>2. ASSUME NEW t \in Txns, TxnCommitStep(t) PROVE Goal
  <2>1. CASE CommitNoop(t) \/ Conflict(t) \/ DeltaBuilderError(t)
    BY <2>1, Zenon DEF CommitNoop, Conflict, DeltaBuilderError
  <2>2. CASE ValidateAndAllocate(t)
    BY <2>2, Zenon DEF ValidateAndAllocate
  <2>3. CASE ReleaseGate(t) \/ Build(t) \/ EndUndo(t)
    BY <2>3, Zenon DEF ReleaseGate, Build, EndUndo
  <2>4. CASE \E k \in Keys : InstallKey(t, k) \/ UndoKey(t, k)
    BY <2>4, Zenon DEF InstallKey, UndoKey
  <2> QED BY <1>2, <2>1, <2>2, <2>3, <2>4, Zenon DEF TxnCommitStep
<1>3. ASSUME NEW t \in Txns, NEW k \in Keys, Write(t, k) PROVE Goal
  BY <1>3, Zenon DEF Write
<1>4. ASSUME NEW m \in Smos, IndexAllocate(m) PROVE Goal
  BY <1>4, Zenon DEF IndexAllocate
<1>5. ASSUME NEW c \in Committers, EnterCommit(c) \/ PipelineStep(c) PROVE Goal
  <2>1. CASE EnterCommit(c) \/ WalOk(c) \/ WalFail(c) \/ Publish(c)
    BY <2>1, Zenon DEF EnterCommit, WalOk, WalFail, Publish
  <2>2. CASE BeginUndo(c)
    BY <2>2, Zenon DEF BeginUndo
  <2>3. CASE Advance(c) \/ Retire(c)
    BY <2>3 DEF Advance, Retire
  <2>4. CASE \E k \in SysKeys : ApplySide(c, k)
    BY <2>4, Zenon DEF ApplySide
  <2> QED BY <1>5, <2>1, <2>2, <2>3, <2>4, Zenon DEF PipelineStep
<1>6. CASE Freeze \/ Unfreeze
  BY <1>6, Zenon DEF Freeze, Unfreeze
<1>7. ASSUME GcStep PROVE ReadersMove
  BY <1>7, Zenon DEF GcStep, GcStart, GcFence, GcLoadVisible, GcEnd, GcVisit, GcReclaim
<1>8. CASE UNCHANGED vars
  BY <1>8, Zenon DEF vars
<1> QED BY <1>1, <1>2, <1>3, <1>4, <1>5, <1>6, <1>7, <1>8, Zenon DEF Next

-----------------------------------------------------------------------------
\* The parts of the invariant, one lemma each.

\* allocate_range never hands an LSN out twice, also not that of a commit that
\* was rolled back.
LEMMA UniqueStep ==
  ASSUME TypeOK, TypeOK', UniqueInv, [Next]_vars
  PROVE  UniqueInv'
<1> USE ConstAssumption DEF Committers, Lsn
<1>0. counter \in Nat /\ \A c \in Committers : lsn[c] \in Nat
  BY DEF TypeOK
<1>1. CASE UNCHANGED lsnVars
  BY <1>1, Zenon DEF UniqueInv, lsnVars
<1>2. ASSUME NEW c \in Committers, NEW n \in Nat \ {0}, AllocateRange(c, n) PROVE UniqueInv'
  <2>1. /\ counter' = counter + n /\ lsn'[c] = counter + n
        /\ \A d \in Committers : d # c => lsn'[d] = lsn[d]
    BY <1>2, Zenon DEF AllocateRange, TypeOK
  <2> QED BY <1>0, <1>2, <2>1 DEF UniqueInv
<1>3. ASSUME NEW t \in Txns, ValidateAndAllocate(t) PROVE UniqueInv'
  BY <1>2, <1>3 DEF ValidateAndAllocate
<1>4. ASSUME NEW m \in Smos, IndexAllocate(m) PROVE UniqueInv'
  BY <1>2, <1>4 DEF IndexAllocate
<1> USE DEF beginVars, gcVars
<1>5. ASSUME NEW t \in Txns, BeginStep(t) \/ Abort(t) \/ (TxnCommitStep(t) /\ ~ValidateAndAllocate(t))
      PROVE  UNCHANGED lsnVars
  BY <1>5, Zenon DEF BeginStep, BeginBump, BeginSentinel, BeginLoad, BeginPublish, Abort,
                     TxnCommitStep, CommitNoop, Conflict, DeltaBuilderError,
                     ReleaseGate, Build, EndUndo, InstallKey, UndoKey
<1>6. ASSUME NEW c \in Committers, EnterCommit(c) \/ PipelineStep(c) PROVE UNCHANGED lsnVars
  BY <1>6, Zenon DEF EnterCommit, PipelineStep, WalOk, WalFail, Publish, BeginUndo, Advance,
                     Retire, ApplySide
<1>7. ASSUME NEW t \in Txns, NEW k \in Keys, Write(t, k) PROVE UNCHANGED lsnVars
  BY <1>7, Zenon DEF Write
<1>8. CASE Freeze \/ Unfreeze \/ UNCHANGED vars \/ GcStep
  <2>1. UNCHANGED lsnVars
    BY <1>8, Zenon DEF Freeze, Unfreeze, vars, GcStep, GcStart, GcFence, GcLoadVisible, GcEnd,
                       GcVisit, GcReclaim
  <2> QED BY <1>1, <2>1, Zenon
<1> QED BY <1>1, <1>3, <1>4, <1>5, <1>6, <1>7, <1>8, Zenon DEF Next

\* What a reader at s sees of key k is still there after the step.
Keeps(k, s) ==
  \A v \in chain[k] : VisibleTo(v, s) =>
    \E w \in chain'[k] : w.created = v.created /\ VisibleTo(w, s)

\* A version of key k after the step was there before, or its commit writes it now.
Grows(k) ==
  \A v \in chain'[k] :
    \/ \E w \in chain[k] : w.created = v.created
    \/ \E c \in InFlight : /\ lsn[c] = v.created /\ Wrote(c, k)
                           /\ UNCHANGED <<pc, lsn, writes, side>>

\* A push above the watermark expires nothing that a snapshot can see.
LEMMA PushKeeps ==
  ASSUME IInv, NEW k \in AllKeys, NEW c \in InFlight,
         \A v \in chain[k] : v.created < lsn[c], Wrote(c, k),
         chain' = [chain EXCEPT ![k] = Push(@, lsn[c])],
         UNCHANGED <<pc, lsn, writes, side>>
  PROVE  \A j \in AllKeys : Grows(j) /\ \A s \in Nat : s <= visible => Keeps(j, s)
<1> USE ConstAssumption DEF Lsn
<1>1. /\ chain'[k] = Push(chain[k], lsn[c]) /\ \A j \in AllKeys : j # k => chain'[j] = chain[j]
      /\ chain[k] \in SUBSET Version /\ c \in Committers /\ c \in Numbered
      /\ visible \in Nat /\ counter \in Nat /\ base[c] \in Nat /\ lsn[c] \in Lsn
  BY DEF IInv, TypeOK, InFlight, Numbered
<1>2. visible < lsn[c] /\ lsn[c] < LsnMax
  BY <1>1 DEF IInv, LsnInv, TurnInv
<1>3. /\ Carries(chain[k], chain'[k], lsn[c]) /\ AddsOnly(chain[k], chain'[k], lsn[c])
  <2>1. Adjoining(chain[k])
    BY Zenon DEF IInv, ChainInv
  <2> QED BY <1>1, <1>2, <2>1, PushFacts, Zenon
<1>4. \A v \in chain[k] : v.created \in Nat /\ v.expired \in Nat
  BY <1>1 DEF Version
<1>5. ASSUME NEW s \in Nat, s <= visible PROVE Keeps(k, s)
  BY <1>1, <1>2, <1>3, <1>4, <1>5 DEF Keeps, Carries, VisibleTo
<1>6. Grows(k)
  BY <1>3 DEF Grows, AddsOnly, Top
<1>7. ASSUME NEW j \in AllKeys, j # k PROVE Grows(j) /\ \A s \in Nat : Keeps(j, s)
  BY <1>1, <1>7, Zenon DEF Grows, Keeps
<1> QED BY <1>5, <1>6, <1>7, Zenon

\* Of every chain a step keeps what a reader at or below the watermark sees, and
\* during a gc pass what a reader at or above the anchor sees.
LEMMA ChainStep ==
  ASSUME IInv, [Next]_vars, NEW k \in AllKeys
  PROVE  /\ Grows(k)
         /\ \A s \in Nat : s <= visible /\ (gcPc = "reclaim" => gcAnchor <= s) => Keeps(k, s)
<1> DEFINE Goal == /\ Grows(k)
                   /\ \A s \in Nat : s <= visible /\ (gcPc = "reclaim" => gcAnchor <= s)
                                       => Keeps(k, s)
<1> USE ConstAssumption DEF Committers
<1>0. TypeOK /\ PipelineInv /\ FloorInv /\ LockInv /\ TypeOK'
  BY TypeStep, Zenon DEF IInv, PipelineInv
<1>1. ASSUME UNCHANGED chain PROVE Goal
  BY <1>1, Zenon DEF Grows, Keeps
<1>2. ASSUME NEW t \in Txns, NEW j \in Keys, InstallKey(t, j) PROVE Goal
  <2>1. \A v \in chain[j] : v.created < lsn[t]
    BY <1>0, <1>2, InstallStep, Zenon
  <2>2. /\ t \in InFlight /\ Wrote(t, j) /\ chain' = [chain EXCEPT ![j] = Push(@, lsn[t])]
        /\ UNCHANGED <<pc, lsn, writes, side>> /\ j \in AllKeys
    BY <1>2, Zenon DEF InstallKey, InFlight, Wrote, lsnVars, AllKeys
  <2>3. Grows(k) /\ \A s \in Nat : s <= visible => Keeps(k, s)
    BY <2>1, <2>2, PushKeeps, Zenon
  <2> QED BY <2>3, Zenon
<1>3. ASSUME NEW c \in Committers, NEW j \in SysKeys, ApplySide(c, j) PROVE Goal
  <2>1. \A v \in chain[j] : v.created < lsn[c]
    BY <1>0, <1>3, ApplySideStep, Zenon
  <2>2. /\ c \in InFlight /\ Wrote(c, j) /\ chain' = [chain EXCEPT ![j] = Push(@, lsn[c])]
        /\ UNCHANGED <<pc, lsn, writes, side>> /\ j \in AllKeys
    BY <1>3, Zenon DEF ApplySide, InFlight, Wrote, lsnVars, AllKeys
  <2>3. Grows(k) /\ \A s \in Nat : s <= visible => Keeps(k, s)
    BY <2>1, <2>2, PushKeeps, Zenon
  <2> QED BY <2>3, Zenon
<1>4. ASSUME NEW t \in Txns, NEW j \in Keys, UndoKey(t, j) PROVE Goal
  <2>1. /\ pc[t] = "undo" /\ OursIsLast(j, lsn[t]) /\ j \in AllKeys
        /\ chain'[j] = Pop(chain[j], lsn[t])
        /\ \A i \in AllKeys : i # j => chain'[i] = chain[i]
    BY <1>0, <1>4, Zenon DEF UndoKey, TypeOK, AllKeys
  <2>2. /\ chain[j] \in SUBSET Version /\ t \in Numbered /\ t \in InFlight
        /\ visible \in Nat /\ counter \in Nat /\ base[t] \in Nat /\ lsn[t] \in Lsn /\ lsn[t] \in Nat
        /\ LsnMax \in Nat
    BY <1>0, <2>1 DEF TypeOK, InFlight, Numbered, Lsn
  <2>3. visible < lsn[t] /\ lsn[t] < LsnMax /\ visible < LsnMax
    BY <1>0, <2>2 DEF PipelineInv, LsnInv, TurnInv
  <2>4. \A v \in chain[j] : v.created <= lsn[t]
    BY <2>1, Zenon DEF OursIsLast, IsLast
  <2>5. /\ \A v \in chain[j] : v.created # lsn[t] => \E u \in chain'[j] :
             u.created = v.created /\ (u.expired = v.expired \/ u.expired = LsnMax)
        /\ \A u \in chain'[j] : \E v \in chain[j] : u.created = v.created
    <3>1. Adjoining(chain[j])
      BY <2>1, Zenon DEF IInv, ChainInv
    <3> QED BY <2>1, <2>2, <2>3, <2>4, <3>1, PopFacts
  <2>6. \A v \in chain[j] : v.created \in Nat /\ v.expired \in Nat
    BY <2>2 DEF Version, Lsn
  <2>7. CASE k = j
    BY <2>2, <2>3, <2>5, <2>6, <2>7 DEF Keeps, Grows, VisibleTo
  <2>8. CASE k # j
    BY <2>1, <2>8, Zenon DEF Keeps, Grows
  <2> QED BY <2>7, <2>8, Zenon
<1>5. ASSUME NEW j \in AllKeys, GcReclaim(j) PROVE Goal
  <2>1. /\ gcPc = "reclaim" /\ chain'[j] = {v \in chain[j] : v.expired > gcAnchor}
        /\ \A i \in AllKeys : i # j => chain'[i] = chain[i]
    BY <1>0, <1>5, Zenon DEF GcReclaim, Retain, TypeOK
  <2>2. gcAnchor \in Nat /\ \A v \in chain[j] : v.expired \in Nat
    BY <1>0 DEF TypeOK, Version, Lsn
  <2>3. CASE k = j
    BY <2>1, <2>2, <2>3 DEF Keeps, Grows, VisibleTo
  <2>4. CASE k # j
    BY <2>1, <2>4, Zenon DEF Keeps, Grows
  <2> QED BY <2>3, <2>4, Zenon
<1>6. ASSUME NEW t \in Txns, BeginStep(t) \/ Abort(t) PROVE UNCHANGED chain
  BY <1>6, Zenon DEF BeginStep, BeginBump, BeginSentinel, BeginLoad, BeginPublish, Abort
<1>7. ASSUME NEW t \in Txns, TxnCommitStep(t), ~ \E j \in Keys : InstallKey(t, j) \/ UndoKey(t, j)
      PROVE  UNCHANGED chain
  BY <1>7, Zenon DEF TxnCommitStep, CommitNoop, Conflict, DeltaBuilderError, ReleaseGate, Build,
                     EndUndo, ValidateAndAllocate
<1>8. ASSUME NEW c \in Committers, EnterCommit(c) \/ PipelineStep(c) \/ IndexAllocate(c),
             ~ \E j \in SysKeys : ApplySide(c, j)
      PROVE  UNCHANGED chain
  BY <1>8, Zenon DEF EnterCommit, PipelineStep, IndexAllocate, WalOk, WalFail, Publish, BeginUndo,
                     Advance, Retire
<1>9. ASSUME NEW t \in Txns, NEW j \in Keys, Write(t, j) PROVE UNCHANGED chain
  BY <1>9, Zenon DEF Write
<1>10. ASSUME Freeze \/ Unfreeze \/ UNCHANGED vars \/ (GcStep /\ ~ \E j \in AllKeys : GcReclaim(j))
       PROVE  UNCHANGED chain
  BY <1>10, Zenon DEF Freeze, Unfreeze, vars, GcStep, GcStart, GcFence, GcLoadVisible, GcEnd, GcVisit
<1> HIDE DEF Goal
<1>11. ASSUME NEW t \in Txns, TxnCommitStep(t) PROVE Goal
  BY <1>1, <1>2, <1>4, <1>7, <1>11, Zenon
<1>12. ASSUME NEW c \in Committers, EnterCommit(c) \/ PipelineStep(c) \/ IndexAllocate(c) PROVE Goal
  BY <1>1, <1>3, <1>8, <1>12, Zenon
<1>13. ASSUME GcStep PROVE Goal
  BY <1>1, <1>5, <1>10, <1>13, Zenon
<1>14. Goal
  BY <1>1, <1>6, <1>9, <1>10, <1>11, <1>12, <1>13, Zenon DEF Next
<1> QED BY <1>14, Zenon DEF Goal

\* A commit in flight is above the watermark, and what it has in a chain is its own.
LEMMA PendingAuthor ==
  ASSUME IInv, NEW c \in InFlight, NEW k \in AllKeys, NEW v \in chain[k], v.created = lsn[c]
  PROVE  visible < lsn[c] /\ Installer(c, k)
<1> USE ConstAssumption DEF Committers, Lsn
<1>1. /\ c \in Committers /\ c \in Numbered /\ visible \in Nat /\ v.created \in Nat
      /\ \A d \in Numbered : base[d] \in Nat /\ lsn[d] \in Nat
  BY DEF IInv, TypeOK, InFlight, Numbered, Committed, Version
<1>2. visible < lsn[c]
  BY <1>1 DEF IInv, TurnInv, LsnInv
<1>3. PICK d \in InFlight : lsn[d] = v.created /\ Installer(d, k)
  BY <1>1, <1>2, Zenon DEF IInv, PendingInv
<1>4. d \in Numbered
  BY Zenon DEF Numbered
<1>5. d = c
  BY <1>1, <1>3, <1>4 DEF IInv, LsnInv
<1> QED BY <1>2, <1>3, <1>5, Zenon

\* Every version keeps its author until rollback has popped it.
LEMMA AuthorStep ==
  ASSUME IInv, IInv', AuthorInv, [Next]_vars
  PROVE  AuthorInv'
<1> USE ConstAssumption DEF Committers
<1>0. TypeOK /\ TypeOK' /\ visible \in Nat /\ visible' \in Nat
      /\ \A c \in Committers : lsn[c] \in Nat /\ lsn'[c] \in Nat
  BY DEF IInv, TypeOK, Lsn
<1>1. \A m \in Smos : writes'[m] = {}
  <2>1. CASE \E t \in Txns, k \in Keys : Write(t, k)
    BY <1>0, <2>1 DEF Write, AuthorInv, TypeOK
  <2>2. ASSUME ~ \E t \in Txns, k \in Keys : Write(t, k) PROVE writes' = writes
    <3>1. ASSUME NEW t \in Txns, BeginStep(t) \/ Abort(t) \/ TxnCommitStep(t) PROVE writes' = writes
      BY <3>1, Zenon DEF BeginStep, BeginBump, BeginSentinel, BeginLoad, BeginPublish, Abort,
                     TxnCommitStep, CommitNoop, Conflict, DeltaBuilderError, ReleaseGate, Build,
                     EndUndo, ValidateAndAllocate, InstallKey, UndoKey
    <3>2. ASSUME NEW c \in Committers, EnterCommit(c) \/ PipelineStep(c) \/ IndexAllocate(c)
          PROVE  writes' = writes
      BY <3>2, Zenon DEF EnterCommit, PipelineStep, IndexAllocate, WalOk, WalFail, Publish,
                     BeginUndo, Advance, Retire, ApplySide
    <3>3. ASSUME Freeze \/ Unfreeze \/ UNCHANGED vars \/ GcStep PROVE writes' = writes
      BY <3>3, Zenon DEF Freeze, Unfreeze, vars, GcStep, GcStart, GcFence, GcLoadVisible, GcEnd,
                     GcVisit, GcReclaim
    <3> QED BY <2>2, <3>1, <3>2, <3>3, Zenon DEF Next
  <2> QED BY <2>1, <2>2, Zenon DEF AuthorInv
<1>2. CASE \E c \in Committers : Publish(c)
  <2>1. PICK c \in Committers : Publish(c)
    BY <1>2, Zenon
  <2>2. /\ visible' = lsn[c] /\ pc[c] = "turn" /\ pc' = [pc EXCEPT ![c] = "published"]
        /\ UNCHANGED <<chain, writes, side, lsn>>
    BY <2>1, Zenon DEF Publish, Goto, lsnVars
  <2>3. visible <= visible'
    BY GoodAlways, Zenon DEF Good
  <2>4. Committed' = Committed \cup {c} /\ Numbered' = Numbered
    BY <1>0, <2>2 DEF Committed, Numbered, InFlight, TypeOK
  <2>5. \A d \in Committed' : lsn'[d] <= visible'
    BY <1>0, <2>2, <2>3, <2>4 DEF AuthorInv, Committed
  <2>6. \A k \in AllKeys : \A v \in chain'[k] : \E d \in Numbered' : lsn'[d] = v.created /\ Wrote(d, k)'
    BY <2>2, <2>4, Zenon DEF AuthorInv, Wrote
  <2> QED BY <1>1, <2>5, <2>6, Zenon DEF AuthorInv
<1>3. CASE \A c \in Committers : ~Publish(c)
  <2>1. visible' = visible /\ \A c \in Committers : Lasting(c)
    BY <1>0, <1>3, HistoryStep, Zenon DEF HistoryMoves
  <2>2. Committed \subseteq Committers /\ Committed' \subseteq Committers /\ Numbered \subseteq Committers
        /\ Committed \subseteq Numbered
    BY Zenon DEF Committed, Numbered, InFlight
  <2>3. \A d \in Committed' : lsn'[d] <= visible'
    BY <2>1, <2>2, Zenon DEF AuthorInv, Lasting
  <2>4. ASSUME NEW k \in AllKeys, NEW v \in chain'[k]
        PROVE  \E d \in Numbered' : lsn'[d] = v.created /\ Wrote(d, k)'
    <3>1. CASE \E w \in chain[k] : w.created = v.created
      <4>1. PICK w \in chain[k] : w.created = v.created
        BY <3>1, Zenon
      <4>2. PICK c \in Numbered : lsn[c] = w.created /\ Wrote(c, k)
        BY Zenon DEF AuthorInv
      <4>3. c \in InFlight => Installer(c, k)
        BY <4>2, PendingAuthor, Zenon
      <4>4. pc[c] # "undone"
        BY <2>2, <4>3, Zenon DEF Installer, InFlight
      <4>5. c \in Numbered' /\ lsn'[c] = v.created /\ writes'[c] = writes[c]
        BY <2>1, <2>2, <4>1, <4>2, <4>4, Zenon DEF Lasting
      <4>6. Wrote(c, k)'
        <5>1. CASE pc[c] = "append"
          <6>1. k \in writes[c]
            BY <2>2, <4>3, <5>1, Zenon DEF Installer, InFlight, AllKeys
          <6> QED BY <4>5, <6>1, Zenon DEF Wrote
        <5>2. CASE pc[c] # "append"
          <6>1. side'[c] = side[c]
            BY <2>1, <2>2, <5>2, Zenon DEF Lasting
          <6> QED BY <4>2, <4>5, <6>1, Zenon DEF Wrote
        <5> QED BY <5>1, <5>2, Zenon
      <4> QED BY <4>5, <4>6, Zenon
    <3>2. CASE \E c \in InFlight : /\ lsn[c] = v.created /\ Wrote(c, k)
                                   /\ UNCHANGED <<pc, lsn, writes, side>>
      BY <3>2, Zenon DEF Numbered, InFlight, Wrote
    <3>3. Grows(k)
      BY ChainStep, Zenon
    <3> QED BY <3>1, <3>2, <3>3, Zenon DEF Grows
  <2> QED BY <1>1, <2>3, <2>4, Zenon DEF AuthorInv
<1> QED BY <1>2, <1>3, Zenon

\* The active map holds a reader's entry from before its snapshot is loaded until
\* its handle is consumed.
LEMMA HandleStep ==
  ASSUME TypeOK, HandleInv, [Next]_vars
  PROVE  HandleInv'
<1> USE ConstAssumption DEF Committers, HandleInv
<1>1. ASSUME NEW t \in Txns, BeginBump(t) \/ BeginSentinel(t) PROVE HandleInv'
  BY <1>1 DEF BeginBump, BeginSentinel, Goto, TypeOK, Reading
<1>2. ASSUME NEW t \in Txns, BeginLoad(t) \/ BeginPublish(t) PROVE HandleInv'
  BY <1>2 DEF BeginLoad, BeginPublish, Goto, TypeOK, Reading
<1>3. CASE \A t \in Txns : ~BeginStep(t)
  <2>1. ReadersMove
    BY <1>3, ReaderStep, Zenon
  <2>2. ASSUME NEW t \in Txns, pc'[t] \in {"pending", "loaded"}
        PROVE  t \in active' /\ slot'[t] = LsnMax
    <3>1. pc'[t] = pc[t] /\ t \in active /\ slot[t] = LsnMax /\ slot' = slot
      BY <2>1, <2>2, Zenon DEF ReadersMove
    <3>2. Reading(t)' \/ pc'[t] = "pending"
      BY <2>2, Zenon DEF Reading
    <3> QED BY <2>1, <3>1, <3>2, Zenon DEF ReadersMove
  <2>3. ASSUME NEW t \in Txns, Reading(t)', pc'[t] # "loaded"
        PROVE  t \in active' /\ slot'[t] = snapshot'[t]
    <3>1. Reading(t) /\ pc[t] # "loaded" /\ UNCHANGED <<slot, snapshot>>
      BY <2>1, <2>3, Zenon DEF ReadersMove
    <3> QED BY <2>1, <2>3, <3>1, Zenon DEF ReadersMove
  <2> QED BY <2>2, <2>3, Zenon
<1> QED BY <1>1, <1>2, <1>3, Zenon DEF BeginStep

\* The fence: a begin after the scan has started is seen in the generation, one
\* before it in the scan, unless it falls into one of the two windows.
LEMMA FenceStep ==
  ASSUME IInv, HandleInv, FenceInv, [Next]_vars
  PROVE  FenceInv'
<1> USE ConstAssumption DEF Committers
<1>0. /\ TypeOK /\ beginGen \in Nat /\ gcGen \in Nat /\ gcAnchor \in Nat /\ gcFloor \in Nat
      /\ visible \in Nat /\ gcAnchor <= visible /\ visible < LsnMax /\ LsnMax \in Nat
      /\ \A t \in Txns : snapshot[t] \in Nat /\ slot[t] \in Nat /\ snapshot[t] < LsnMax
  <2>1. /\ TypeOK /\ beginGen \in Nat /\ gcGen \in Nat /\ gcAnchor \in Nat /\ gcFloor \in Nat
        /\ visible \in Nat /\ counter \in Nat
        /\ \A t \in Txns : snapshot[t] \in Nat /\ slot[t] \in Nat
    BY DEF IInv, TypeOK, Lsn
  <2>2. gcAnchor <= visible /\ visible <= counter /\ counter < LsnMax
        /\ \A t \in Txns : snapshot[t] <= visible
    BY Zenon DEF IInv, FloorInv, LsnInv
  <2> QED BY <2>1, <2>2
<1>1. ASSUME NEW t \in Txns, BeginBump(t) PROVE FenceInv'
  <2>1. /\ pc[t] = "idle" /\ pc' = [pc EXCEPT ![t] = "bumped"] /\ beginGen' = beginGen + 1
        /\ raced' = IF gcPc = "load" THEN raced \cup {t} ELSE raced
        /\ UNCHANGED <<snapshot, gcPc, gcGen, gcTodo, gcFloor, gcPending, gcAnchor>>
    BY <1>1, Zenon DEF BeginBump, Goto, gcVars
  <2>2. \A u \in Txns : pc'[u] = IF u = t THEN "bumped" ELSE pc[u]
    BY <1>0, <2>1, Zenon DEF TypeOK
  <2>3. \A u \in Txns : Reading(u)' <=> Reading(u)
    BY <2>1, <2>2 DEF Reading
  <2> QED BY <1>0, <2>1, <2>2, <2>3 DEF FenceInv
<1>2. ASSUME NEW t \in Txns, BeginSentinel(t) PROVE FenceInv'
  <2>1. /\ pc[t] = "bumped" /\ pc' = [pc EXCEPT ![t] = "pending"]
        /\ UNCHANGED <<beginGen, raced, snapshot, gcPc, gcGen, gcTodo, gcFloor, gcPending, gcAnchor>>
    BY <1>2, Zenon DEF BeginSentinel, Goto, gcVars
  <2>2. \A u \in Txns : pc'[u] = IF u = t THEN "pending" ELSE pc[u]
    BY <1>0, <2>1, Zenon DEF TypeOK
  <2>3. \A u \in Txns : Reading(u)' <=> Reading(u)
    BY <2>1, <2>2 DEF Reading
  <2> QED BY <1>0, <2>1, <2>2, <2>3, Zenon DEF FenceInv
<1>3. ASSUME NEW t \in Txns, BeginLoad(t) PROVE FenceInv'
  <2>1. /\ pc[t] = "pending" /\ pc' = [pc EXCEPT ![t] = "loaded"]
        /\ snapshot' = [snapshot EXCEPT ![t] = visible]
        /\ UNCHANGED <<beginGen, raced, gcPc, gcGen, gcTodo, gcFloor, gcPending, gcAnchor>>
    BY <1>3, Zenon DEF BeginLoad, Goto, gcVars
  <2>2. \A u \in Txns : /\ pc'[u] = IF u = t THEN "loaded" ELSE pc[u]
                        /\ snapshot'[u] = IF u = t THEN visible ELSE snapshot[u]
    BY <1>0, <2>1, Zenon DEF TypeOK
  <2>3. /\ \A u \in Txns : u # t => (Reading(u)' <=> Reading(u))
        /\ ~Reading(t)
    BY <2>1, <2>2, Zenon DEF Reading
  <2> QED BY <1>0, <2>1, <2>2, <2>3 DEF FenceInv
<1>4. ASSUME NEW t \in Txns, BeginPublish(t) PROVE FenceInv'
  <2>1. /\ pc[t] = "loaded" /\ pc' = [pc EXCEPT ![t] = "active"]
        /\ UNCHANGED <<beginGen, raced, snapshot, gcPc, gcGen, gcTodo, gcFloor, gcPending, gcAnchor>>
    BY <1>4, Zenon DEF BeginPublish, Goto, gcVars
  <2>2. \A u \in Txns : pc'[u] = IF u = t THEN "active" ELSE pc[u]
    BY <1>0, <2>1, Zenon DEF TypeOK
  <2>3. \A u \in Txns : Reading(u)' <=> Reading(u)
    BY <2>1, <2>2, Zenon DEF Reading
  <2> QED BY <1>0, <2>1, <2>2, <2>3 DEF FenceInv
<1>5. CASE GcStart
  <2>1. /\ GcOn /\ gcGen' = beginGen /\ gcTodo' = Txns /\ gcPc' = "scan"
        /\ raced' = raced \cup {t \in Txns : pc[t] = "bumped"}
        /\ UNCHANGED <<pc, snapshot, beginGen>>
    BY <1>5, Zenon DEF GcStart
  <2> QED BY <1>0, <2>1 DEF FenceInv
<1>6. ASSUME NEW t \in Txns, GcVisit(t) PROVE FenceInv'
  <2>1. /\ gcPc = "scan" /\ t \in gcTodo /\ gcTodo' = gcTodo \ {t}
        /\ gcPending' = (gcPending \/ (t \in active /\ slot[t] = LsnMax))
        /\ gcFloor' = IF t \in active /\ slot[t] < gcFloor THEN slot[t] ELSE gcFloor
        /\ UNCHANGED <<pc, snapshot, beginGen, raced, gcPc, gcGen, gcAnchor>>
    BY <1>6, Zenon DEF GcVisit, beginVars
  <2>2. gcFloor' \in Nat /\ gcFloor' <= gcFloor
    <3>1. gcFloor' = IF t \in active /\ slot[t] < gcFloor THEN slot[t] ELSE gcFloor
      BY <2>1, Zenon
    <3> QED BY <1>0, <3>1
  <2>2a. (gcPending => gcPending') /\ (t \in active /\ slot[t] = LsnMax => gcPending')
    BY <2>1, Zenon
  <2>3. \A u \in Txns : Reading(u)' <=> Reading(u)
    BY <2>1, Zenon DEF Reading
  <2>4. pc[t] = "pending" => gcPending'
    BY <2>2a, Zenon DEF HandleInv
  <2>5. Reading(t) => gcPending' \/ gcFloor' <= snapshot[t]
    <3>1. CASE pc[t] = "loaded"
      BY <2>2a, <3>1, Zenon DEF HandleInv
    <3>2. CASE Reading(t) /\ pc[t] # "loaded"
      <4>1. t \in active /\ slot[t] = snapshot[t]
        BY <3>2, Zenon DEF HandleInv
      <4> QED BY <1>0, <2>1, <4>1
    <3> QED BY <3>1, <3>2, Zenon
  <2>6. ASSUME gcGen = beginGen, NEW u \in Txns \ raced, u \notin gcTodo',
               pc[u] = "pending" \/ Reading(u)
        PROVE  gcPending' \/ (Reading(u) /\ gcFloor' <= snapshot[u])
    <3>1. CASE u = t
      BY <2>4, <2>5, <2>6, <3>1, Zenon
    <3>2. CASE u # t
      <4>1. gcPending \/ (Reading(u) /\ gcFloor <= snapshot[u])
        BY <2>1, <2>6, <3>2, Zenon DEF FenceInv
      <4> QED BY <1>0, <2>2, <2>2a, <4>1
    <3> QED BY <3>1, <3>2, Zenon
  <2> QED BY <1>0, <2>1, <2>3, <2>6, Zenon DEF FenceInv
<1>7. CASE GcFence
  <2>1. /\ gcPc = "scan" /\ gcTodo = {}
        /\ IF gcGen # beginGen \/ gcPending
             THEN gcAnchor' = 0 /\ gcPc' = "reclaim"
             ELSE IF gcFloor # LsnMax
                    THEN gcAnchor' = gcFloor /\ gcPc' = "reclaim"
                    ELSE gcAnchor' = gcAnchor /\ gcPc' = "load"
        /\ UNCHANGED <<pc, snapshot, beginGen, raced, gcGen>>
    BY <1>7, Zenon DEF GcFence, beginVars
  <2>2. \A u \in Txns : Reading(u)' <=> Reading(u)
    BY <2>1, Zenon DEF Reading
  <2>3. CASE gcGen # beginGen \/ gcPending
    BY <1>0, <2>1, <2>2, <2>3 DEF FenceInv
  <2>4. CASE gcGen = beginGen /\ ~gcPending
    <3>1. \A u \in Txns \ raced : /\ pc[u] \notin {"bumped", "pending"}
                                  /\ Reading(u) => gcFloor <= snapshot[u]
      BY <2>1, <2>4, Zenon DEF FenceInv, Reading
    <3> QED BY <1>0, <2>1, <2>2, <2>4, <3>1 DEF FenceInv
  <2> QED BY <2>3, <2>4, Zenon
<1>8. CASE GcLoadVisible
  <2>1. /\ gcPc = "load" /\ gcPc' = "reclaim" /\ UNCHANGED <<pc, snapshot, beginGen, raced, gcGen>>
    BY <1>8, Zenon DEF GcLoadVisible, beginVars
  <2>2. \A u \in Txns : Reading(u)' <=> Reading(u)
    BY <2>1, Zenon DEF Reading
  <2> QED BY <2>1, <2>2, Zenon DEF FenceInv
<1>9. CASE GcEnd
  BY <1>0, <1>9 DEF GcEnd, FenceInv, beginVars
<1>10. ASSUME NEW k \in AllKeys, GcReclaim(k) PROVE FenceInv'
  <2>1. UNCHANGED <<pc, snapshot, beginGen, raced, gcPc, gcGen, gcTodo, gcFloor, gcPending, gcAnchor>>
    BY <1>10, Zenon DEF GcReclaim, beginVars
  <2> QED BY <2>1, Zenon DEF FenceInv, Reading
<1>11. CASE (\A t \in Txns : ~BeginStep(t)) /\ ~GcStep
  <2>1. ReadersMove /\ UNCHANGED <<gcVars, raced>>
    BY <1>0, <1>11, ReaderStep, Zenon
  <2>2. UNCHANGED <<raced, gcPc, gcGen, gcTodo, gcFloor, gcPending, gcAnchor, snapshot, beginGen>>
    BY <2>1, Zenon DEF gcVars, ReadersMove
  <2>3. \A t \in Txns : /\ pc'[t] \in {"bumped", "pending"} => pc[t] = pc'[t]
                        /\ Reading(t)' => Reading(t)
    BY <2>1, Zenon DEF ReadersMove
  <2>4. \A t \in Txns : pc[t] = "pending" => ~Reading(t)
    BY Zenon DEF Reading
  <2> QED BY <2>2, <2>3, <2>4, Zenon DEF FenceInv
<1> QED BY <1>1, <1>2, <1>3, <1>4, <1>5, <1>6, <1>7, <1>8, <1>9, <1>10, <1>11, Zenon
           DEF BeginStep, GcStep

\* Publication makes the whole commit readable at the new watermark and hides
\* nothing of the other keys.
LEMMA PublishCovers ==
  ASSUME IInv, IInv', AuthorInv, AuthorInv', CoverInv, NEW c \in Committers, Publish(c),
         NEW k \in AllKeys
  PROVE  /\ CoverAt(k, visible)'
         /\ \A s \in Nat : s <= visible /\ CoverAt(k, s) => CoverAt(k, s)'
<1> USE ConstAssumption DEF Committers
<1>1. /\ pc[c] = "turn" /\ MyTurn(c) /\ visible' = lsn[c] /\ pc' = [pc EXCEPT ![c] = "published"]
      /\ (\A j \in side[c] : Holds(j, lsn[c])) /\ UNCHANGED <<chain, writes, side, lsn>>
  BY Zenon DEF Publish, Goto, lsnVars
<1>2. /\ TypeOK /\ TypeOK' /\ PipelineInv /\ FloorInv /\ LockInv
      /\ c \in InFlight /\ c \in Numbered /\ Committed' = Committed \cup {c}
      /\ Committed \subseteq Committers /\ c \notin Committed /\ Committed \subseteq Numbered
  BY <1>1 DEF IInv, PipelineInv, InFlight, Numbered, Committed, TypeOK
<1>3. visible < lsn[c]
  BY <1>1, <1>2, PublishStep, Zenon
<1>4. /\ visible \in Nat /\ \A d \in Committers : lsn[d] \in Nat /\ base[d] \in Nat
      /\ LsnMax \in Nat /\ counter \in Nat
      /\ \A v \in chain[k] : v.created \in Nat /\ v.expired \in Nat
  BY <1>2 DEF TypeOK, Lsn, Version
<1>5. \A d : Wrote(d, k)' <=> Wrote(d, k)
  BY <1>1, Zenon DEF Wrote
<1>6. ASSUME NEW s \in Nat, s <= visible, CoverAt(k, s) PROVE CoverAt(k, s)'
  BY <1>1, <1>2, <1>3, <1>4, <1>5, <1>6 DEF CoverAt
<1>7. ASSUME NEW d \in Committed', Wrote(d, k)
      PROVE  \E v \in chain[k] : lsn[d] <= v.created /\ VisibleTo(v, lsn[c])
  <2>1. lsn[d] <= lsn[c]
    BY <1>1, Zenon DEF AuthorInv
  <2>2. Adjoining(chain[k])
    BY Zenon DEF IInv, ChainInv
  <2>3. CASE Wrote(c, k)
    <3>1. \E v \in chain[k] : v.created = lsn[c]
      <4>1. CASE k \in side[c]
        BY <1>1, <4>1, Zenon DEF Holds
      <4>2. CASE k \in writes[c]
        <5>1. c \in Txns
          BY <4>2, Zenon DEF AuthorInv
        <5>2. InTheWay(c, k)
          BY <1>1, <4>2, <5>1, Zenon DEF IInv, KeptInv, Kept
        <5> QED BY <1>3, <1>4, <5>2 DEF InTheWay
      <4> QED BY <2>3, <4>1, <4>2, Zenon DEF Wrote
    <3>2. PICK v \in chain[k] : v.created = lsn[c]
      BY <3>1, Zenon
    <3>3. v.created < v.expired
      BY <2>2, Zenon DEF Adjoining
    <3> QED BY <1>4, <2>1, <3>2, <3>3 DEF VisibleTo
  <2>4. CASE ~Wrote(c, k)
    <3>1. d \in Committed /\ lsn[d] <= visible
      BY <1>2, <1>7, <2>4, Zenon DEF AuthorInv
    <3>2. PICK v \in chain[k] : lsn[d] <= v.created /\ VisibleTo(v, visible)
      BY <1>7, <3>1, Zenon DEF CoverInv, CoverAt
    <3>3. lsn[c] < v.expired
      <4>1. CASE v.expired = LsnMax
        BY <1>2, <1>4, <4>1 DEF IInv, LsnInv
      <4>2. CASE v.expired # LsnMax
        <5>1. PICK w \in chain[k] : w.created = v.expired
          BY <2>2, <4>2, Zenon DEF Adjoining
        <5>2. PICK f \in Numbered : lsn[f] = w.created /\ Wrote(f, k)
          BY Zenon DEF AuthorInv
        <5>3. visible < lsn[f] /\ f # c
          BY <2>4, <3>2, <5>1, <5>2, ZenonT(30) DEF VisibleTo
        <5>4. f \in InFlight /\ f \in Committers
          BY <1>4, <5>3 DEF AuthorInv, Numbered, InFlight, Committed
        <5>5. lsn[c] < base[f]
          BY <1>1, <1>2, <5>3, <5>4, TurnIsUnique, Zenon
        <5>6. base[f] <= lsn[f]
          BY Zenon DEF IInv, LsnInv
        <5> QED BY <1>4, <5>1, <5>2, <5>4, <5>5, <5>6
      <4> QED BY <4>1, <4>2, Zenon
    <3> QED BY <1>3, <1>4, <3>2, <3>3 DEF VisibleTo
  <2> QED BY <2>3, <2>4, Zenon
<1>8. CoverAt(k, visible)'
  BY <1>1, <1>5, <1>7, Zenon DEF CoverAt
<1> QED BY <1>6, <1>8, Zenon

\* Every other step leaves what a reader sees: the history it is compared with
\* does not change, and neither push, rollback nor gc takes its versions.
LEMMA CoverKept ==
  ASSUME IInv, IInv', AuthorInv, AuthorInv', CoverInv, [Next]_vars,
         NEW k \in AllKeys, NEW s \in Nat, s <= visible, CoverAt(k, s),
         gcPc = "reclaim" => gcAnchor <= s
  PROVE  CoverAt(k, s)'
<1> USE ConstAssumption DEF Committers
<1>0. TypeOK
  BY Zenon DEF IInv
<1>1. CASE \E c \in Committers : Publish(c)
  BY <1>1, PublishCovers, Zenon
<1>2. CASE \A c \in Committers : ~Publish(c)
  <2>1. \A c \in Committers : Lasting(c)
    BY <1>0, <1>2, HistoryStep, Zenon DEF HistoryMoves
  <2>2. Keeps(k, s)
    BY ChainStep, Zenon
  <2>3. ASSUME NEW c \in Committed', Wrote(c, k)', lsn'[c] <= s
        PROVE  \E v \in chain'[k] : lsn'[c] <= v.created /\ VisibleTo(v, s)
    <3>1. c \in Committers /\ c \in Committed /\ c \in Numbered /\ pc[c] # "append"
      BY <2>1, Zenon DEF Lasting, Committed, Numbered
    <3>2. lsn'[c] = lsn[c] /\ writes'[c] = writes[c] /\ side'[c] = side[c]
      BY <2>1, <3>1, Zenon DEF Lasting
    <3>3. PICK v \in chain[k] : lsn[c] <= v.created /\ VisibleTo(v, s)
      BY <2>3, <3>1, <3>2, Zenon DEF CoverAt, Wrote
    <3> QED BY <2>2, <3>2, <3>3, Zenon DEF Keeps
  <2> QED BY <2>3, Zenon DEF CoverAt
<1> QED BY <1>1, <1>2, Zenon

\* Every reader that was covered still is, the watermark and a new snapshot
\* included.
LEMMA CoverStep ==
  ASSUME IInv, IInv', AuthorInv, AuthorInv', CoverInv, FenceInv, [Next]_vars
  PROVE  CoverInv'
<1> USE ConstAssumption DEF Committers
<1>0. /\ TypeOK /\ visible \in Nat /\ gcAnchor <= visible
      /\ \A t \in Txns : snapshot[t] \in Nat /\ snapshot[t] <= visible
  BY DEF IInv, TypeOK, Lsn, FloorInv
<1>1. ASSUME NEW k \in AllKeys, NEW s \in Nat, s <= visible, CoverAt(k, s),
             gcPc = "reclaim" => gcAnchor <= s
      PROVE  CoverAt(k, s)'
  BY <1>1, CoverKept, Zenon
<1>2. ASSUME NEW k \in AllKeys PROVE CoverAt(k, visible)'
  <2>1. CASE \E c \in Committers : Publish(c)
    BY <2>1, PublishCovers, Zenon
  <2>2. CASE \A c \in Committers : ~Publish(c)
    <3>1. PICK s \in Nat : s = visible
      BY <1>0, Zenon
    <3>2. visible' = s
      BY <1>0, <2>2, <3>1, HistoryStep, Zenon DEF HistoryMoves
    <3>3. CoverAt(k, s)
      BY <3>1, Zenon DEF CoverInv
    <3>4. CoverAt(k, s)'
      BY <1>0, <1>1, <3>1, <3>3
    <3> QED BY <3>2, <3>4, Zenon DEF CoverAt
  <2> QED BY <2>1, <2>2, Zenon
<1>3. ASSUME NEW t \in Txns \ raced', Reading(t)', NEW k \in AllKeys
      PROVE  CoverAt(k, snapshot[t])'
  <2>1. CASE \A u \in Txns : ~BeginStep(u)
    <3>1. Reading(t) /\ snapshot' = snapshot /\ t \notin raced
      <4>1. ReadersMove /\ (GcStep \/ UNCHANGED <<gcVars, raced>>)
        BY <1>0, <2>1, ReaderStep, Zenon
      <4>2. GcStep => raced \subseteq raced'
        BY Zenon DEF GcStep, GcStart, GcFence, GcLoadVisible, GcEnd, GcVisit, GcReclaim,
           beginVars
      <4> QED BY <1>3, <4>1, <4>2, Zenon DEF ReadersMove
    <3>2. PICK s \in Nat : s = snapshot[t]
      BY <1>0, Zenon
    <3>3. s <= visible /\ CoverAt(k, s) /\ (gcPc = "reclaim" => gcAnchor <= s)
      BY <1>0, <3>1, <3>2, Zenon DEF CoverInv, FenceInv
    <3>4. CoverAt(k, s)'
      BY <1>1, <3>3, Zenon
    <3> QED BY <3>1, <3>2, <3>4, Zenon DEF CoverAt
  <2>2. ASSUME NEW u \in Txns, BeginStep(u) PROVE CoverAt(k, snapshot[t])'
    <3>1. /\ snapshot'[t] = visible \/ (Reading(t) /\ snapshot'[t] = snapshot[t]) 
          /\ t \notin raced
      BY <1>0, <1>3, <2>2, ZenonT(30) DEF BeginStep, BeginBump, BeginSentinel, BeginLoad,
         BeginPublish, Goto, Reading, TypeOK
    <3>2. PICK s \in Nat : s = snapshot'[t]
      BY <1>0, <3>1, Zenon
    <3>3. s <= visible /\ CoverAt(k, s) /\ (gcPc = "reclaim" => gcAnchor <= s)
      BY <1>0, <3>1, <3>2 DEF CoverInv, FenceInv
    <3>4. CoverAt(k, s)'
      BY <1>1, <3>3, Zenon
    <3> QED BY <3>2, <3>4, Zenon DEF CoverAt
  <2> QED BY <2>1, <2>2, Zenon
<1> QED BY <1>2, <1>3, Zenon DEF CoverInv

\* Initially nobody reads and every chain is empty.
LEMMA ReadInit == Init => ReadInv
<1> SUFFICES ASSUME Init PROVE ReadInv
  BY Zenon
<1> USE ConstAssumption DEF Init, Committers, AllKeys
<1>1. Committed = {} /\ \A t \in Txns : ~Reading(t)
  BY Zenon DEF Committed, Reading
<1>2. UniqueInv /\ HandleInv /\ FenceInv
  BY <1>1 DEF UniqueInv, HandleInv, FenceInv
<1>3. AuthorInv
  BY <1>1, Zenon DEF AuthorInv
<1>4. CoverInv
  BY <1>1, Zenon DEF CoverInv, CoverAt
<1> QED BY <1>2, <1>3, <1>4, Zenon DEF ReadInv

\* Every step of the manager preserves the invariant of the readers.
LEMMA ReadStep == IInv /\ ReadInv /\ [Next]_vars => ReadInv'
<1> SUFFICES ASSUME IInv, ReadInv, [Next]_vars PROVE ReadInv'
  BY Zenon
<1>1. IInv' /\ TypeOK /\ TypeOK'
  <2>1. IInv'
    BY InvStep, Zenon
  <2> QED BY <2>1, Zenon DEF IInv
<1>2. UniqueInv /\ AuthorInv /\ CoverInv /\ HandleInv /\ FenceInv
  BY Zenon DEF ReadInv
<1>3. UniqueInv'
  BY <1>1, <1>2, UniqueStep, Zenon
<1>4. AuthorInv'
  BY <1>1, <1>2, AuthorStep, Zenon
<1>5. CoverInv'
  BY <1>1, <1>2, <1>4, CoverStep, Zenon
<1>6. HandleInv'
  BY <1>1, <1>2, HandleStep, Zenon
<1>7. FenceInv'
  BY <1>2, FenceStep, Zenon
<1> QED BY <1>3, <1>4, <1>5, <1>6, <1>7, Zenon DEF ReadInv

\* read_at finds the newest commit in the snapshot: at most one version of a chain
\* is visible at s, its author is committed, and no commit in between is missing.
LEMMA NewestRead ==
  ASSUME IInv, AuthorInv, NEW k \in AllKeys, NEW s \in Nat, s <= visible, CoverAt(k, s)
  PROVE  \/ /\ \A d \in Committed : Wrote(d, k) => ~(lsn[d] <= s)
            /\ ReadAt(k, s) = 0 /\ ExpectedAt(k, s) = 0
         \/ \E c \in Committed :
              /\ Wrote(c, k) /\ lsn[c] <= s
              /\ \A d \in Committed : Wrote(d, k) /\ lsn[d] <= s => lsn[d] <= lsn[c]
              /\ ReadAt(k, s) = lsn[c] /\ ExpectedAt(k, s) = lsn[c]
<1> USE ConstAssumption DEF Committers
<1> DEFINE vs == {v \in chain[k] : VisibleTo(v, s)}
           ws == {lsn[c] : c \in {d \in Committed : Wrote(d, k) /\ lsn[d] <= s}}
<1>1. /\ visible \in Nat /\ (\A v \in chain[k] : v.created \in Nat /\ v.expired \in Nat)
      /\ \A c \in Numbered : c \in Committers /\ lsn[c] \in Nat /\ base[c] \in Nat
  BY DEF IInv, TypeOK, Lsn, Version, Numbered, InFlight, Committed
<1>2. ASSUME NEW v \in vs, NEW w \in vs PROVE v = w
  <2>1. /\ v.created <= s /\ s < v.expired /\ w.created <= s /\ s < w.expired
        /\ v \in chain[k] /\ w \in chain[k]
    BY ZenonT(30) DEF VisibleTo
  <2>2. /\ v.created = w.created => v = w
        /\ v.created < w.created => v.expired <= w.created
        /\ w.created < v.created => w.expired <= v.created
    BY <2>1 DEF IInv, ChainInv, Adjoining
  <2> QED BY <1>1, <2>1, <2>2
<1>3. ReadAt(k, s) = IF vs = {} THEN 0 ELSE (CHOOSE v \in vs : IsLast(v, vs)).created
  BY Zenon DEF ReadAt
<1>4. ExpectedAt(k, s) = IF ws = {} THEN 0 ELSE CHOOSE l \in ws : \A m \in ws : m <= l
  BY Zenon DEF ExpectedAt
<1>5. CASE vs = {}
  <2>1. ws = {}
    BY <1>5, Zenon DEF CoverAt
  <2>2. \A d \in Committed : Wrote(d, k) => ~(lsn[d] <= s)
    BY <2>1, Zenon
  <2> HIDE DEF vs, ws
  <2> QED BY <1>3, <1>4, <1>5, <2>1, <2>2, Zenon
<1>6. CASE vs # {}
  <2>1. PICK v \in vs : TRUE
    BY <1>6, Zenon
  <2>2. v \in chain[k] /\ v.created <= s /\ v.created \in Nat
    BY <1>1, Zenon DEF VisibleTo
  <2>3. PICK c \in Numbered : lsn[c] = v.created /\ Wrote(c, k)
    BY <2>2, Zenon DEF AuthorInv
  <2>4. c \in Committed
    <3>1. c \in InFlight => visible < lsn[c]
      BY <1>1 DEF IInv, TurnInv, LsnInv
    <3> QED BY <1>1, <2>2, <2>3, <3>1 DEF Numbered
  <2>5. v.created \in ws
    BY <2>2, <2>3, <2>4, Zenon
  <2>6. \A m \in ws : m <= v.created /\ m \in Nat
    <3> SUFFICES ASSUME NEW d \in Committed, Wrote(d, k), lsn[d] <= s
                 PROVE  lsn[d] <= v.created /\ lsn[d] \in Nat
      BY Zenon
    <3>1. PICK w \in chain[k] : lsn[d] <= w.created /\ VisibleTo(w, s)
      BY Zenon DEF CoverAt
    <3>2. w = v
      BY <1>2, <3>1, Zenon
    <3> QED BY <1>1, <3>1, <3>2, Zenon DEF Numbered
  <2>11. \A d \in Committed : Wrote(d, k) /\ lsn[d] <= s => lsn[d] <= lsn[c]
    BY <2>3, <2>6, Zenon
  <2> HIDE DEF vs, ws
  <2>7. vs = {v}
    BY <1>2, <2>1, Zenon
  <2>8. (CHOOSE w \in vs : IsLast(w, vs)) = v
    <3>1. \A w : w \in vs <=> w = v
      BY <2>7, Zenon
    <3>2. IsLast(v, vs)
      BY <2>2, <3>1 DEF IsLast
    <3> QED BY <3>1, <3>2, Zenon
  <2>9. (CHOOSE l \in ws : \A m \in ws : m <= l) = v.created
    <3>1. \A l \in ws : (\A m \in ws : m <= l) => l = v.created
      BY <2>2, <2>5, <2>6
    <3>2. \A m \in ws : m <= v.created
      BY <2>6, Zenon
    <3> QED BY <2>5, <3>1, <3>2, Zenon
  <2>10. vs # {} /\ ws # {}
    BY <2>1, <2>5, Zenon
  <2>12. ReadAt(k, s) = lsn[c] /\ ExpectedAt(k, s) = lsn[c]
    BY <1>3, <1>4, <2>3, <2>8, <2>9, <2>10, Zenon
  <2>13. lsn[c] <= s
    BY <2>2, <2>3, Zenon
  <2> QED BY <2>3, <2>4, <2>11, <2>12, <2>13, Zenon
<1> QED BY <1>5, <1>6, Zenon

\* A covered snapshot reads what the committed history says it should.
LEMMA ReadsHistory ==
  ASSUME IInv, AuthorInv, NEW k \in AllKeys, NEW s \in Nat, s <= visible, CoverAt(k, s)
  PROVE  ReadAt(k, s) = ExpectedAt(k, s)
BY NewestRead, Zenon

\* The invariant of the readers, beside that of the pipeline, holds in every
\* reachable state, with gc scanning and reclaiming at any moment.
THEOREM ReadInvariance == Spec => [](IInv /\ ReadInv)
BY InvInit, InvStep, ReadInit, ReadStep, PTL DEF Spec

\* read_at at the watermark returns the newest committed version of every key:
\* neither a rollback nor gc loses it, in any interleaving.
THEOREM NewestIsReadable == Spec => []NewestCommittedReadable
<1>1. IInv /\ ReadInv => NewestCommittedReadable
  <2> SUFFICES ASSUME IInv, ReadInv, NEW k \in AllKeys
               PROVE  ReadAt(k, visible) = ExpectedAt(k, visible)
    BY Zenon DEF NewestCommittedReadable
  <2>1. PICK s \in Nat : s = visible
    BY ConstAssumption DEF IInv, TypeOK, Lsn
  <2>2. AuthorInv /\ CoverAt(k, s) /\ s <= visible
    BY <2>1 DEF ReadInv, CoverInv
  <2>3. ReadAt(k, s) = ExpectedAt(k, s)
    BY <2>2, ReadsHistory, Zenon
  <2> QED BY <2>1, <2>3, Zenon
<1> QED BY ReadInvariance, <1>1, PTL

\* With gc running, a transaction that did not begin in one of the two windows of
\* oldest_active_snapshot reads the committed prefix at its snapshot, for as
\* long as it has its handle.
LEMMA ReadersAgree == IInv /\ ReadInv => FencedSnapshotReads
<1> SUFFICES ASSUME IInv, ReadInv, NEW t \in Txns \ raced, Reading(t), NEW k \in AllKeys
             PROVE  ReadAt(k, snapshot[t]) = ExpectedAt(k, snapshot[t])
  BY Zenon DEF FencedSnapshotReads
<1>1. PICK s \in Nat : s = snapshot[t]
  BY ConstAssumption DEF IInv, TypeOK, Lsn
<1>2. AuthorInv /\ CoverAt(k, s) /\ s <= visible
  BY <1>1, Zenon DEF ReadInv, CoverInv, IInv, FloorInv
<1>3. ReadAt(k, s) = ExpectedAt(k, s)
  BY <1>2, ReadsHistory, Zenon
<1> QED BY <1>1, <1>3, Zenon

\* gc's begin-generation fence protects every reader outside the two windows it
\* documents (transaction.rs, oldest_active_snapshot).
THEOREM FencedReadsAreStable == Spec => []FencedSnapshotReads
BY ReadInvariance, ReadersAgree, PTL

\* Snapshot isolation without gc: every transaction reads exactly the committed
\* prefix at its snapshot, whatever is installed, published or rolled back
\* meanwhile (transaction.rs, module header).
THEOREM ReadsAreSnapshots ==
  ASSUME ~GcOn
  PROVE  Spec => []SnapshotReads
<1>1. IInv /\ ReadInv => SnapshotReads
  <2> SUFFICES ASSUME IInv, ReadInv PROVE SnapshotReads
    BY Zenon
  <2>1. raced = {}
    BY Zenon DEF ReadInv, FenceInv
  <2> QED BY <2>1, ReadersAgree, Zenon DEF FencedSnapshotReads, SnapshotReads
<1> QED BY ReadInvariance, <1>1, PTL

-----------------------------------------------------------------------------
\* Without gc the manager implements SnapshotIsolation.

\* x is the committed transaction that wrote key k last up to s, or none did.
Writers(k, s) == {t \in Committed \cap Txns : k \in writes[t] /\ lsn[t] <= s}
LastWriter(k, s, x) ==
  \/ Writers(k, s) = {} /\ x = NoTxn
  \/ x \in Writers(k, s) /\ \A t \in Writers(k, s) : lsn[t] <= lsn[x]

\* The refinement mapping reads the last writer off the chains.
LEMMA WriterIsLast ==
  ASSUME IInv, ReadInv, NEW k \in Keys, NEW s \in Nat, s <= visible, CoverAt(k, s)
  PROVE  \A x : WriterAt(k, s) = x <=> LastWriter(k, s, x)
<1> USE ConstAssumption DEF Committers
<1> DEFINE W == Writers(k, s)
<1>1. k \in AllKeys /\ TypeOK /\ AuthorInv /\ UniqueInv
  BY Zenon DEF AllKeys, IInv, ReadInv
<1>2. \A d \in Committed : Wrote(d, k) <=> (d \in Txns /\ k \in writes[d])
  BY <1>1, Zenon DEF Committed, Wrote, TypeOK, AuthorInv
<1>3. /\ W \subseteq Committed /\ W \subseteq Txns /\ \A t \in W : k \in writes[t] /\ lsn[t] <= s
      /\ \A t \in Txns : lsn[t] \in Nat /\ base[t] \in Nat
  BY <1>1 DEF Writers, TypeOK, Lsn
<1>4. \A t \in W : lsn[t] # 0
  BY <1>3 DEF IInv, LsnInv, Numbered
<1>5. ASSUME \A d \in Committed : Wrote(d, k) => ~(lsn[d] <= s), ReadAt(k, s) = 0
      PROVE  \A x : WriterAt(k, s) = x <=> LastWriter(k, s, x)
  <2>1. W = {}
    BY <1>2, <1>5, Zenon DEF Writers
  <2>2. WriterAt(k, s) = NoTxn
    BY <1>5, Zenon DEF WriterAt
  <2> QED BY <2>1, <2>2, Zenon DEF LastWriter
<1>6. ASSUME NEW c \in Committed, Wrote(c, k), lsn[c] <= s, ReadAt(k, s) = lsn[c],
             \A d \in Committed : Wrote(d, k) /\ lsn[d] <= s => lsn[d] <= lsn[c]
      PROVE  \A x : WriterAt(k, s) = x <=> LastWriter(k, s, x)
  <2>1. c \in W /\ c \in Txns /\ c \in Committers /\ \A t \in W : lsn[t] <= lsn[c]
    BY <1>2, <1>3, <1>6, Zenon DEF Writers
  <2>2. lsn[c] # 0 /\ k \in writes[c]
    BY <1>3, <1>4, <2>1, Zenon
  <2>3. \A t \in Txns : lsn[t] = lsn[c] => t = c
    BY <1>1, <2>1, <2>2, Zenon DEF UniqueInv
  <2>4. WriterAt(k, s) = c
    <3>1. \A t \in Txns : (k \in writes[t] /\ lsn[t] = lsn[c]) <=> t = c
      BY <2>2, <2>3, Zenon
    <3>2. (CHOOSE t \in Txns : k \in writes[t] /\ lsn[t] = lsn[c]) = c
      BY <2>1, <3>1, Zenon
    <3>3. WriterAt(k, s) = CHOOSE t \in Txns : k \in writes[t] /\ lsn[t] = lsn[c]
      BY <1>6, <2>2, Zenon DEF WriterAt
    <3> QED BY <3>2, <3>3, Zenon
  <2>5. ASSUME NEW x \in W, \A t \in W : lsn[t] <= lsn[x] PROVE x = c
    BY <1>3, <2>1, <2>3, <2>5
  <2> HIDE DEF W
  <2>6. \A x : ((W = {} /\ x = NoTxn) \/ (x \in W /\ \A t \in W : lsn[t] <= lsn[x])) <=> x = c
    BY <2>1, <2>5, Zenon
  <2> QED BY <2>4, <2>6, Zenon DEF LastWriter, W
<1> QED BY <1>1, <1>5, <1>6, NewestRead, Zenon

\* What WriterIsLast says, as an invariant.
WriterInv ==
  \A k \in Keys : \A s \in Nat : s <= visible /\ CoverAt(k, s) =>
    \A x : WriterAt(k, s) = x <=> LastWriter(k, s, x)

\* A commit does not change what was last written up to the watermark before it.
LEMMA PastIsFixed ==
  ASSUME IInv, ReadInv, [Next]_vars, NEW k \in Keys, NEW s \in Nat, s <= visible
  PROVE  \A x : LastWriter(k, s, x)' <=> LastWriter(k, s, x)
<1> USE ConstAssumption DEF Committers
<1>1. TypeOK /\ AuthorInv /\ \A c \in Committers : lsn[c] \in Nat /\ base[c] \in Nat
  BY DEF IInv, ReadInv, TypeOK, Lsn
<1>2. visible \in Nat
  BY <1>1 DEF TypeOK, Lsn
<1>3. /\ \A d \in Committed : d \in Committed' /\ lsn'[d] = lsn[d] /\ writes'[d] = writes[d]
      /\ \A d \in Committed' : d \in Committed \/ lsn'[d] > visible
  <2>1. ASSUME NEW c \in Committers, Publish(c)
        PROVE  /\ UNCHANGED <<lsn, writes>> /\ Committed' = Committed \cup {c} /\ lsn[c] > visible
    <3>1. UNCHANGED <<lsn, writes>> /\ pc[c] = "turn" /\ pc' = [pc EXCEPT ![c] = "published"]
      BY <2>1, Zenon DEF Publish, Goto, lsnVars
    <3>2. Committed' = Committed \cup {c} /\ c \in InFlight /\ c \in Numbered
      BY <1>1, <3>1, Zenon DEF TypeOK, Committed, InFlight, Numbered
    <3>3. visible < base[c] /\ base[c] <= lsn[c]
      BY <3>2, Zenon DEF IInv, TurnInv, LsnInv
    <3> QED BY <1>1, <1>2, <3>1, <3>2, <3>3
  <2>2. ASSUME NEW c \in Committers, Publish(c)
        PROVE  /\ \A d \in Committed : d \in Committed' /\ lsn'[d] = lsn[d] /\ writes'[d] = writes[d]
               /\ \A d \in Committed' : d \in Committed \/ lsn'[d] > visible
    BY <2>1, <2>2, Zenon
  <2>3. ASSUME \A c \in Committers : ~Publish(c)
        PROVE  /\ \A d \in Committed : d \in Committed' /\ lsn'[d] = lsn[d] /\ writes'[d] = writes[d]
               /\ \A d \in Committed' : d \in Committed
    <3>1. HistoryMoves
      BY <1>1, <2>3, HistoryStep, Zenon
    <3>2. Committed \subseteq Committers /\ Committed' \subseteq Committers /\ Committed \subseteq Numbered
      BY Zenon DEF Committed, Numbered
    <3> QED BY <3>1, <3>2, Zenon DEF HistoryMoves, Lasting
  <2> QED BY <2>2, <2>3, Zenon
<1>4. Committed \subseteq Committers /\ \A d \in Committed' : d \in Committed => lsn'[d] = lsn[d]
  BY <1>3, Zenon DEF Committed
<1>7. \A c \in Committers : lsn'[c] \in Nat
  BY TypeStep DEF IInv, TypeOK, Lsn
<1>5. \A t : t \in Writers(k, s)' <=> t \in Writers(k, s)
  <2>1. \A d \in Committed' : lsn'[d] \in Nat /\ (d \in Committed \/ lsn'[d] > visible)
    BY <1>3, <1>7, Zenon DEF Committed
  <2>2. \A d \in Committed' : lsn'[d] <= s => d \in Committed
    BY <1>2, <2>1
  <2> QED BY <1>3, <1>4, <2>2, Zenon DEF Writers
<1>6. Writers(k, s)' = Writers(k, s) /\ \A t \in Writers(k, s) : lsn'[t] = lsn[t]
  <2>1. \A t \in Writers(k, s) : t \in Committed
    BY Zenon DEF Writers
  <2> QED BY <1>3, <1>5, <2>1, Zenon
<1>8. ASSUME NEW x
      PROVE  /\ x \in Writers(k, s)' <=> x \in Writers(k, s)
             /\ x \in Writers(k, s) =>
                  ((\A t \in Writers(k, s)' : lsn'[t] <= lsn'[x])
                     <=> \A t \in Writers(k, s) : lsn[t] <= lsn[x])
  BY <1>6
<1> QED BY <1>6, <1>8, Zenon DEF LastWriter

\* The components of the refinement mapping at one transaction.
StatusOf(t) ==
  IF pc[t] \in {"idle", "bumped", "pending"} THEN "new"
  ELSE IF Reading(t) THEN "running" ELSE "done"
ViewOf(t) == [k \in Keys |-> IF Reading(t) THEN WriterAt(k, snapshot[t]) ELSE NoTxn]

\* The refinement mapping, transaction by transaction.
LEMMA MappingAt ==
  /\ StatusBar = [t \in Txns |-> StatusOf(t)] /\ ViewBar = [t \in Txns |-> ViewOf(t)]
  /\ StatusBar' = [t \in Txns |-> StatusOf(t)'] /\ ViewBar' = [t \in Txns |-> ViewOf(t)']
<1>1. \A t \in Txns : Reading(t) => pc[t] \notin {"idle", "bumped", "pending"}
  BY Zenon DEF Reading
<1>2. \A t \in Txns : Reading(t)' => pc'[t] \notin {"idle", "bumped", "pending"}
  BY Zenon DEF Reading
<1> QED BY <1>1, <1>2, Zenon DEF StatusBar, StatusOf, ViewBar, ViewOf

\* A transaction that neither begins nor ends in the step.
Stays(t) == StatusOf(t)' = StatusOf(t) /\ (Reading(t) => snapshot'[t] = snapshot[t])

\* A step begins or ends at most one transaction; a commit ends the one it publishes.
LEMMA StatusStep ==
  ASSUME TypeOK, [Next]_vars
  PROVE  \/ \A u \in Txns : Stays(u) /\ ~Publish(u)
         \/ \E t \in Txns : /\ \A u \in Txns \ {t} : Stays(u)
                            /\ \/ BeginLoad(t) /\ \A c \in Committers : ~Publish(c)
                               \/ StatusOf(t) = "running" /\ StatusOf(t)' = "done"
<1> DEFINE Quiet == \A u \in Txns : Stays(u) /\ ~Publish(u)
           Moves(t) == /\ \A u \in Txns \ {t} : Stays(u)
                       /\ \/ BeginLoad(t) /\ \A c \in Committers : ~Publish(c)
                          \/ StatusOf(t) = "running" /\ StatusOf(t)' = "done"
<1> USE ConstAssumption DEF Committers, Stays, StatusOf, Reading, Goto, TypeOK, beginVars
<1>0. ASSUME NEW c \in Committers, Publish(c)
      PROVE  /\ pc[c] = "turn" /\ pc'[c] = "published" /\ pc' = [pc EXCEPT ![c] = "published"]
  BY <1>0, Zenon DEF Publish
<1>1. ASSUME NEW t \in Txns, BeginStep(t) PROVE Quiet \/ Moves(t)
  <2>1. CASE BeginBump(t) \/ BeginSentinel(t) \/ BeginPublish(t)
    BY <1>0, <2>1 DEF BeginBump, BeginSentinel, BeginPublish
  <2>2. CASE BeginLoad(t)
    <3>1. \A c \in Committers : ~Publish(c)
      <4>1. /\ pc[t] = "pending" /\ pc'[t] = "loaded"
            /\ \A c \in Committers : c # t => pc'[c] = pc[c]
        BY <2>2, Zenon DEF BeginLoad
      <4>2. \A c \in Committers : Publish(c) => pc[c] = "turn" /\ pc'[c] = "published"
        BY <1>0, Zenon
      <4> QED BY <4>1, <4>2, Zenon
    <3>2. \A u \in Txns \ {t} : Stays(u)
      BY <2>2, Zenon DEF BeginLoad
    <3> QED BY <2>2, <3>1, <3>2, Zenon
  <2> QED BY <1>1, <2>1, <2>2, ZenonT(30) DEF BeginStep
<1>2. ASSUME NEW t \in Txns, Abort(t) \/ CommitNoop(t) \/ Conflict(t) \/ DeltaBuilderError(t) \/ EndUndo(t)
      PROVE  Moves(t)
  BY <1>2, Zenon DEF Abort, CommitNoop, Conflict, DeltaBuilderError, EndUndo
<1>3. ASSUME NEW t \in Txns, ValidateAndAllocate(t) \/ ReleaseGate(t) \/ Build(t)
      PROVE  Quiet
  BY <1>0, <1>3, Zenon DEF ValidateAndAllocate, ReleaseGate, Build
<1>4. ASSUME NEW t \in Txns, NEW k \in Keys, InstallKey(t, k) \/ UndoKey(t, k) \/ Write(t, k)
      PROVE  Quiet
  BY <1>0, <1>4, Zenon DEF InstallKey, UndoKey, Write
<1>5. ASSUME NEW m \in Smos, IndexAllocate(m) PROVE Quiet
  <2>1. /\ pc[m] = "guarded" /\ pc'[m] = "append" /\ UNCHANGED snapshot
        /\ \A c \in Committers : c # m => pc'[c] = pc[c]
    BY <1>5, Zenon DEF IndexAllocate
  <2>2. \A c \in Committers : Publish(c) => pc[c] = "turn" /\ pc'[c] = "published"
    BY <1>0, Zenon
  <2>3. \A u \in Txns : u # m /\ ~Publish(u)
    BY <2>1, <2>2, Zenon
  <2> QED BY <2>1, <2>3, Zenon
<1>6. ASSUME NEW c \in Committers, EnterCommit(c) \/ WalOk(c) \/ WalFail(c) PROVE Quiet
  BY <1>0, <1>6 DEF EnterCommit, WalOk, WalFail
<1>7. ASSUME NEW c \in Committers, BeginUndo(c) \/ Advance(c) \/ Retire(c) PROVE Quiet
  BY <1>0, <1>7 DEF BeginUndo, Advance, Retire
<1>8. ASSUME NEW c \in Committers, NEW k \in SysKeys, ApplySide(c, k) PROVE Quiet
  BY <1>0, <1>8, Zenon DEF ApplySide
<1>9. ASSUME NEW t \in Txns, Publish(t) PROVE Moves(t)
  BY <1>9, Zenon DEF Publish
<1>10. ASSUME NEW m \in Smos, Publish(m) PROVE Quiet
  BY <1>0, <1>10 DEF Publish
<1>11. ASSUME Freeze \/ Unfreeze \/ UNCHANGED vars PROVE Quiet
  BY <1>0, <1>11, Zenon DEF Freeze, Unfreeze, vars
<1>12. ASSUME GcStep PROVE Quiet
  BY <1>0, <1>12, Zenon DEF GcStep, GcStart, GcFence, GcLoadVisible, GcEnd, GcVisit, GcReclaim
<1> HIDE DEF Quiet, Moves
<1>13. ASSUME NEW t \in Txns, TxnCommitStep(t) PROVE Quiet \/ Moves(t)
  BY <1>2, <1>3, <1>4, <1>13, Zenon DEF TxnCommitStep
<1>14. ASSUME NEW c \in Committers, EnterCommit(c) \/ PipelineStep(c) PROVE Quiet \/ \E t \in Txns : Moves(t)
  BY <1>6, <1>7, <1>8, <1>9, <1>10, <1>14, Zenon DEF PipelineStep
<1>15. Quiet \/ \E t \in Txns : Moves(t)
  BY <1>1, <1>2, <1>4, <1>5, <1>11, <1>12, <1>13, <1>14, Zenon DEF Next
<1> QED BY <1>15, Zenon DEF Quiet, Moves

\* The inductive invariant under which the mapping is a refinement, gc being off:
\* then every reader is covered, for nobody races a scan.
Mapped == ~GcOn /\ IInv /\ ReadInv /\ WriterInv

\* With gc off, every running transaction is covered at its snapshot.
LEMMA ReaderWrites ==
  ASSUME Mapped, NEW k \in Keys
  PROVE  /\ visible \in Nat /\ CoverAt(k, visible)
         /\ \A t \in Txns : snapshot[t] \in Nat /\ snapshot[t] <= visible
         /\ \A t \in Txns : Reading(t) => CoverAt(k, snapshot[t])
<1>1. k \in AllKeys /\ TypeOK /\ CoverInv /\ FenceInv /\ FloorInv /\ raced = {}
  BY Zenon DEF Mapped, IInv, ReadInv, FenceInv, AllKeys
<1>2. visible \in Nat /\ \A t \in Txns : snapshot[t] \in Nat
  BY <1>1, ConstAssumption DEF TypeOK, Lsn
<1> QED BY <1>1, <1>2, Zenon DEF CoverInv, FloorInv

\* No step changes the last writer a covered reader finds.
LEMMA WriterKept ==
  ASSUME Mapped, Mapped', [Next]_vars, NEW k \in Keys, NEW s \in Nat, s <= visible, CoverAt(k, s)
  PROVE  WriterAt(k, s)' = WriterAt(k, s)
<1>1. /\ IInv /\ IInv' /\ ReadInv /\ AuthorInv /\ AuthorInv' /\ CoverInv /\ gcPc # "reclaim"
      /\ k \in AllKeys
  BY Zenon DEF Mapped, ReadInv, FenceInv, AllKeys
<1>2. CoverAt(k, s)'
  BY <1>1, CoverKept, Zenon
<1>3. s <= visible'
  <2>1. visible <= visible'
    BY <1>1, GoodAlways, Zenon DEF Good
  <2>2. visible \in Nat /\ visible' \in Nat
    BY <1>1, ConstAssumption DEF IInv, TypeOK, Lsn
  <2> QED BY <2>1, <2>2
<1>4. \A x : WriterAt(k, s) = x <=> LastWriter(k, s, x)
  BY Zenon DEF Mapped, WriterInv
<1>5. \A x : WriterAt(k, s)' = x <=> LastWriter(k, s, x)'
  BY <1>2, <1>3, Zenon DEF Mapped, WriterInv
<1>6. \A x : LastWriter(k, s, x)' <=> LastWriter(k, s, x)
  BY <1>1, PastIsFixed, Zenon
<1> QED BY <1>4, <1>5, <1>6, Zenon

\* A transaction that goes on reading keeps its view.
LEMMA ViewKept ==
  ASSUME Mapped, Mapped', [Next]_vars, NEW t \in Txns, Stays(t)
  PROVE  ViewOf(t)' = ViewOf(t)
<1>1. Reading(t)' <=> Reading(t)
  BY Zenon DEF Stays, StatusOf, Reading
<1>2. CASE ~Reading(t)
  BY <1>1, <1>2, Zenon DEF ViewOf
<1>3. CASE Reading(t)
  <2>1. ASSUME NEW k \in Keys PROVE WriterAt(k, snapshot[t])' = WriterAt(k, snapshot[t])
    <3>1. PICK s \in Nat : s = snapshot[t] /\ s = snapshot'[t]
      BY <1>3, ReaderWrites, Zenon DEF Stays
    <3>2. s <= visible /\ CoverAt(k, s)
      BY <1>3, <3>1, ReaderWrites, Zenon
    <3>3. WriterAt(k, s)' = WriterAt(k, s)
      BY <3>2, WriterKept, ZenonT(30)
    <3>4. WriterAt(k, snapshot[t])' = WriterAt(k, s)'
      BY <3>1 DEF WriterAt, ReadAt, VisibleTo
    <3>5. WriterAt(k, snapshot[t]) = WriterAt(k, s)
      BY <3>1, Zenon
    <3> QED BY <3>3, <3>4, <3>5, Zenon
  <2> QED BY <1>1, <1>3, <2>1, Zenon DEF ViewOf
<1> QED BY <1>2, <1>3, Zenon

\* Publishing makes the commit the last writer of what it wrote and of nothing else.
LEMMA PublishWrites ==
  ASSUME Mapped, Mapped', NEW c \in Committers, Publish(c), NEW k \in Keys
  PROVE  /\ k \in writes[c] => WriterAt(k, visible)' = c
         /\ k \notin writes[c] => WriterAt(k, visible)' = WriterAt(k, visible)
<1> USE ConstAssumption DEF Committers
<1>1. /\ UNCHANGED <<lsn, writes>> /\ visible' = lsn[c] /\ pc[c] = "turn"
      /\ pc' = [pc EXCEPT ![c] = "published"]
  BY Zenon DEF Publish, Goto, lsnVars
<1>2. TypeOK /\ AuthorInv /\ CoverInv' /\ k \in AllKeys
  BY Zenon DEF Mapped, IInv, ReadInv, AllKeys
<1>3. Committed' = Committed \cup {c} /\ c \in InFlight /\ c \in Numbered /\ Committed \subseteq Committers
  BY <1>1, <1>2, Zenon DEF TypeOK, Committed, InFlight, Numbered
<1>4. visible \in Nat /\ lsn[c] \in Nat /\ visible < lsn[c] /\ \A d \in Committed : lsn[d] \in Nat
  <2>1. visible \in Nat /\ base[c] \in Nat /\ lsn[c] \in Nat /\ \A d \in Committed : lsn[d] \in Nat
    BY <1>2, <1>3 DEF TypeOK, Lsn
  <2>2. visible < base[c] /\ base[c] <= lsn[c]
    BY <1>3, Zenon DEF Mapped, IInv, TurnInv, LsnInv
  <2> QED BY <2>1, <2>2
<1>5. PICK s \in Nat : s = visible
  BY <1>4, Zenon
<1>6. PICK n \in Nat : n = visible'
  BY <1>1, <1>4, Zenon
<1>7. \A x : WriterAt(k, s) = x <=> LastWriter(k, s, x)
  <2>1. CoverAt(k, s) /\ s <= visible
    BY <1>4, <1>5, ReaderWrites
  <2> QED BY <2>1, Zenon DEF Mapped, WriterInv
<1>8. \A x : WriterAt(k, visible)' = x <=> LastWriter(k, n, x)'
  <2>1. CoverAt(k, visible)'
    BY <1>2, Zenon DEF CoverInv
  <2>2. CoverAt(k, n)' /\ n <= visible'
    BY <1>6, <2>1 DEF CoverAt
  <2>3. \A x : WriterAt(k, n)' = x <=> LastWriter(k, n, x)'
    BY <2>2, Zenon DEF Mapped, WriterInv
  <2>4. WriterAt(k, visible)' = WriterAt(k, n)'
    BY <1>6 DEF WriterAt, ReadAt, VisibleTo
  <2> QED BY <2>3, <2>4, Zenon
<1>9. \A d \in Committed : lsn[d] <= s /\ lsn[d] <= n
  BY <1>1, <1>2, <1>4, <1>5, <1>6 DEF AuthorInv
<1>10. ASSUME k \in writes[c] PROVE WriterAt(k, visible)' = c
  <2>1. c \in Txns
    BY <1>2, <1>10, Zenon DEF AuthorInv
  <2>2. c \in Writers(k, n)' /\ \A t \in Writers(k, n)' : lsn'[t] <= lsn'[c]
    BY <1>1, <1>3, <1>6, <1>10, <2>1 DEF Writers
  <2> QED BY <1>8, <2>2, Zenon DEF LastWriter
<1>11. ASSUME k \notin writes[c] PROVE WriterAt(k, visible)' = WriterAt(k, visible)
  <2>1. \A t : t \in Writers(k, n)' <=> t \in Writers(k, s)
    BY <1>1, <1>3, <1>9, <1>11, Zenon DEF Writers
  <2>2. Writers(k, n)' = Writers(k, s)
    BY <2>1, Zenon
  <2>3. \A x : LastWriter(k, n, x)' <=> LastWriter(k, s, x)
    BY <1>1, <2>2, Zenon DEF LastWriter
  <2>4. WriterAt(k, visible) = WriterAt(k, s)
    BY <1>5, Zenon
  <2> QED BY <1>7, <1>8, <2>3, <2>4, Zenon
<1> QED BY <1>10, <1>11, Zenon

\* A commit at its turn still sees the newest version of every key it wrote: what
\* validation checked has not changed since.
LEMMA PublishSawLast ==
  ASSUME Mapped, NEW t \in Txns, pc[t] = "turn", NEW k \in writes[t], k \in Keys
  PROVE  WriterAt(k, visible) = WriterAt(k, snapshot[t])
<1> USE ConstAssumption DEF Committers
<1>1. TypeOK /\ AuthorInv /\ WinsInv /\ Reading(t) /\ t \in InFlight /\ t \notin Committed
  BY Zenon DEF Mapped, IInv, ReadInv, Reading, InFlight, Committed
<1>2. /\ visible \in Nat /\ snapshot[t] \in Nat /\ snapshot[t] <= visible
      /\ CoverAt(k, visible) /\ CoverAt(k, snapshot[t])
  BY <1>1, ReaderWrites, Zenon
<1>3. visible < lsn[t] /\ \A c \in Committers : lsn[c] \in Nat
  <2>1. visible < base[t] /\ base[t] <= lsn[t]
    BY <1>1, Zenon DEF Mapped, IInv, TurnInv, LsnInv, Numbered
  <2>2. \A c \in Committers : lsn[c] \in Nat /\ base[c] \in Nat
    BY <1>1 DEF TypeOK, Lsn
  <2> QED BY <1>2, <2>1, <2>2
<1>4. ASSUME NEW b \in Committed \cap Txns, k \in writes[b] PROVE lsn[b] <= snapshot[t]
  <2>1. snapshot[b] <= visible /\ snapshot[b] \in Nat
    BY <1>4, ReaderWrites, Zenon
  <2>2. lsn[t] <= snapshot[b] \/ lsn[b] <= snapshot[t]
    BY <1>1, <1>4, Zenon DEF WinsInv, Kept, Committed
  <2> QED BY <1>2, <1>3, <2>1, <2>2
<1>5. Writers(k, visible) = Writers(k, snapshot[t])
  <2>1. \A b \in Committed : lsn[b] <= visible
    BY <1>1, Zenon DEF AuthorInv
  <2> QED BY <1>4, <2>1, Zenon DEF Writers
<1>6. \A x : LastWriter(k, visible, x) <=> LastWriter(k, snapshot[t], x)
  BY <1>5, Zenon DEF LastWriter
<1>7. visible <= visible
  BY <1>2
<1> QED BY <1>2, <1>6, <1>7, Zenon DEF Mapped, WriterInv

\* A step that is no commit leaves the store.
LEMMA StoreKept ==
  ASSUME Mapped, Mapped', [Next]_vars, \A c \in Committers : ~Publish(c)
  PROVE  StoreBar' = StoreBar
<1>1. visible' = visible
  BY HistoryStep, Zenon DEF Mapped, IInv, HistoryMoves
<1>2. ASSUME NEW k \in Keys PROVE WriterAt(k, visible)' = WriterAt(k, visible)
  <2>1. PICK s \in Nat : s = visible
    BY <1>2, ReaderWrites, Zenon
  <2>2. CoverAt(k, s) /\ s <= visible
    BY <1>2, <2>1, ReaderWrites
  <2>3. WriterAt(k, s)' = WriterAt(k, s)
    BY <1>2, <2>2, WriterKept, Zenon
  <2>4. WriterAt(k, visible)' = WriterAt(k, s)'
    BY <1>1, <2>1 DEF WriterAt, ReadAt, VisibleTo
  <2> QED BY <2>1, <2>3, <2>4, Zenon
<1> QED BY <1>2, Zenon DEF StoreBar

\* begin_inner takes its snapshot by loading visible.
LEMMA BeginRefines ==
  ASSUME Mapped, Mapped', [Next]_vars, \A c \in Committers : ~Publish(c),
         NEW t \in Txns, BeginLoad(t), \A u \in Txns \ {t} : Stays(u)
  PROVE  SI!AbsBegin(t)
<1>1. /\ pc[t] = "pending" /\ snapshot'[t] = visible /\ pc'[t] = "loaded"
  BY ConstAssumption, Zenon DEF BeginLoad, Goto, Mapped, IInv, TypeOK, Committers
<1>2. StatusOf(t) = "new" /\ StatusOf(t)' = "running" /\ Reading(t)'
  BY <1>1, Zenon DEF StatusOf, Reading
<1>3. ViewOf(t)' = StoreBar
  <2>1. ASSUME NEW k \in Keys PROVE WriterAt(k, snapshot[t])' = WriterAt(k, visible)
    <3>1. PICK s \in Nat : s = visible
      BY <2>1, ReaderWrites, Zenon
    <3>2. CoverAt(k, s) /\ s <= visible
      BY <2>1, <3>1, ReaderWrites
    <3>3. WriterAt(k, s)' = WriterAt(k, s)
      BY <2>1, <3>2, WriterKept, Zenon
    <3>4. WriterAt(k, snapshot[t])' = WriterAt(k, s)'
      BY <1>1, <3>1 DEF WriterAt, ReadAt, VisibleTo
    <3> QED BY <3>1, <3>3, <3>4, Zenon
  <2> QED BY <1>2, <2>1, Zenon DEF ViewOf, StoreBar
<1>4. \A u \in Txns \ {t} : ViewOf(u)' = ViewOf(u) /\ StatusOf(u)' = StatusOf(u)
  BY ViewKept, Zenon DEF Stays
<1>5. StoreBar' = StoreBar
  BY StoreKept, Zenon
<1>6. /\ StatusBar[t] = "new"
      /\ StatusBar' = [StatusBar EXCEPT ![t] = "running"]
  BY <1>2, <1>4, MappingAt, Zenon
<1>7. ViewBar' = [ViewBar EXCEPT ![t] = StoreBar]
  BY <1>3, <1>4, MappingAt, Zenon
<1> QED BY <1>5, <1>6, <1>7, Zenon DEF SI!AbsBegin

\* Abort, a commit with nothing to do, a conflict, a failed builder and the end of
\* a rollback give the handle up and leave the store.
LEMMA AbortRefines ==
  ASSUME Mapped, Mapped', [Next]_vars, \A c \in Committers : ~Publish(c),
         NEW t \in Txns, StatusOf(t) = "running", StatusOf(t)' = "done",
         \A u \in Txns \ {t} : Stays(u)
  PROVE  SI!AbsAbort(t)
<1>1. ViewOf(t)' = [k \in Keys |-> NoTxn]
  BY Zenon DEF StatusOf, ViewOf, Reading
<1>2. \A u \in Txns \ {t} : ViewOf(u)' = ViewOf(u) /\ StatusOf(u)' = StatusOf(u)
  BY ViewKept, Zenon DEF Stays
<1>3. StoreBar' = StoreBar
  BY StoreKept, Zenon
<1>4. /\ StatusBar[t] = "running"
      /\ StatusBar' = [StatusBar EXCEPT ![t] = "done"]
  BY <1>2, MappingAt, Zenon
<1>5. ViewBar' = [ViewBar EXCEPT ![t] = [k \in Keys |-> NoTxn]]
  BY <1>1, <1>2, MappingAt, Zenon
<1> QED BY <1>3, <1>4, <1>5, Zenon DEF SI!AbsAbort, SI!EmptyStore

\* Publish: one store to visible makes all the writes of the commit readable.
LEMMA CommitRefines ==
  ASSUME Mapped, Mapped', [Next]_vars, NEW t \in Txns, Publish(t),
         StatusOf(t) = "running", StatusOf(t)' = "done", \A u \in Txns \ {t} : Stays(u)
  PROVE  SI!AbsCommit(t, writes[t]) /\ writes[t] \in SUBSET Keys
<1>0. pc[t] = "turn" /\ t \in Committers /\ writes[t] \in SUBSET Keys /\ Reading(t)
  BY Zenon DEF Publish, Mapped, IInv, TypeOK, Committers, Reading
<1>1. ViewOf(t)' = [k \in Keys |-> NoTxn]
  BY Zenon DEF StatusOf, ViewOf, Reading
<1>2. \A u \in Txns \ {t} : ViewOf(u)' = ViewOf(u) /\ StatusOf(u)' = StatusOf(u)
  BY ViewKept, Zenon DEF Stays
<1>3. StoreBar' = [k \in Keys |-> IF k \in writes[t] THEN t ELSE StoreBar[k]]
  <2>1. \A k \in Keys : WriterAt(k, visible)' = IF k \in writes[t] THEN t ELSE WriterAt(k, visible)
    BY <1>0, PublishWrites, Zenon
  <2> QED BY <2>1, Zenon DEF StoreBar
<1>4. /\ StatusBar[t] = "running"
      /\ StatusBar' = [StatusBar EXCEPT ![t] = "done"]
  BY <1>2, MappingAt, Zenon
<1>5. ViewBar' = [ViewBar EXCEPT ![t] = [k \in Keys |-> NoTxn]]
  BY <1>1, <1>2, MappingAt, Zenon
<1>6. \A k \in writes[t] : StoreBar[k] = ViewBar[t][k]
  <2>1. ASSUME NEW k \in writes[t] PROVE WriterAt(k, visible) = WriterAt(k, snapshot[t])
    BY <1>0, <2>1, PublishSawLast, Zenon
  <2>2. \A k \in writes[t] : StoreBar[k] = WriterAt(k, visible)
    BY <1>0, Zenon DEF StoreBar
  <2>3. \A k \in writes[t] : ViewBar[t][k] = WriterAt(k, snapshot[t])
    BY <1>0, MappingAt, Zenon DEF ViewOf
  <2> QED BY <2>1, <2>2, <2>3, Zenon
<1> QED BY <1>0, <1>3, <1>4, <1>5, <1>6, Zenon DEF SI!AbsCommit, SI!EmptyStore

\* Every step of the manager is a begin, an abort or a commit of one transaction,
\* or changes nothing that snapshot isolation talks about.
LEMMA RefinesStep ==
  Mapped /\ Mapped' /\ [Next]_vars => [SI!AbsNext]_(SI!absVars)
<1> SUFFICES ASSUME Mapped, Mapped', [Next]_vars
             PROVE  SI!AbsNext \/ UNCHANGED <<StoreBar, ViewBar, StatusBar>>
  BY Zenon DEF SI!absVars
<1>0. TypeOK
  BY Zenon DEF Mapped, IInv
<1>1. CASE \A u \in Txns : Stays(u) /\ ~Publish(u)
  <2>1. StoreBar' = StoreBar
    <3>1. CASE \A c \in Committers : ~Publish(c)
      BY <3>1, StoreKept, Zenon
    <3>2. ASSUME NEW m \in Smos, Publish(m) PROVE StoreBar' = StoreBar
      <4>1. m \in Committers /\ writes[m] = {}
        BY Zenon DEF Committers, Mapped, ReadInv, AuthorInv
      <4>2. \A k \in Keys : WriterAt(k, visible)' = WriterAt(k, visible)
        BY <3>2, <4>1, PublishWrites, Zenon
      <4> QED BY <4>2, Zenon DEF StoreBar
    <3> QED BY <1>1, <3>1, <3>2, Zenon DEF Committers
  <2>2. \A u \in Txns : ViewOf(u)' = ViewOf(u) /\ StatusOf(u)' = StatusOf(u)
    BY <1>1, ViewKept, Zenon DEF Stays
  <2>3. ViewBar' = ViewBar /\ StatusBar' = StatusBar
    BY <2>2, MappingAt, Zenon
  <2> QED BY <2>1, <2>3, Zenon
<1>2. ASSUME NEW t \in Txns, \A u \in Txns \ {t} : Stays(u),
             BeginLoad(t), \A c \in Committers : ~Publish(c)
      PROVE  SI!AbsNext
  BY <1>2, BeginRefines, Zenon DEF SI!AbsNext
<1>3. ASSUME NEW t \in Txns, \A u \in Txns \ {t} : Stays(u),
             StatusOf(t) = "running", StatusOf(t)' = "done"
      PROVE  SI!AbsNext
  <2>1. CASE Publish(t)
    BY <1>3, <2>1, CommitRefines, Zenon DEF SI!AbsNext
  <2>2. CASE \A c \in Committers : ~Publish(c)
    BY <1>3, <2>2, AbortRefines, Zenon DEF SI!AbsNext
  <2>3. ASSUME NEW c \in Committers, Publish(c) PROVE c = t
    <3>1. pc[c] = "turn" /\ pc' = [pc EXCEPT ![c] = "published"] /\ pc \in [Committers -> Pcs]
      BY <1>0, <2>3, Zenon DEF Publish, Goto, TypeOK
    <3>2. pc'[t] # pc[t] /\ t \in Committers
      BY <1>3, Zenon DEF StatusOf, Reading, Committers
    <3> QED BY <3>1, <3>2, Zenon
  <2> QED BY <2>1, <2>2, <2>3, Zenon
<1> QED BY <1>0, <1>1, <1>2, <1>3, StatusStep, Zenon

\* The initial state of the manager maps to that of snapshot isolation.
LEMMA RefinesInit == Init => SI!AbsInit
<1> SUFFICES ASSUME Init PROVE SI!AbsInit
  BY Zenon
<1>1. \A t \in Txns : pc[t] = "idle" /\ ~Reading(t)
  BY Zenon DEF Init, Committers, Reading
<1>2. \A k \in Keys : ReadAt(k, visible) = 0
  BY Zenon DEF Init, ReadAt, AllKeys
<1>3. StoreBar = [k \in Keys |-> NoTxn]
  BY <1>2, Zenon DEF StoreBar, WriterAt
<1>4. ViewBar = [t \in Txns |-> [k \in Keys |-> NoTxn]]
  BY <1>1, Zenon DEF ViewBar
<1>5. StatusBar = [t \in Txns |-> "new"]
  BY <1>1, MappingAt, Zenon DEF StatusOf
<1> QED BY <1>3, <1>4, <1>5, Zenon DEF SI!AbsInit, SI!EmptyStore

\* The commit pipeline implements snapshot isolation for any number of
\* transactions, index operations and keys: a begin takes its view from one load of
\* visible, a commit shows in one store to visible, and every key it wrote was
\* then as it had seen it.  gc is off, as two windows of its fence change views.
THEOREM RefinesSnapshotIsolation ==
  ASSUME ~GcOn PROVE Spec => ImplementsSnapshotIsolation
<1>1. IInv /\ ReadInv => Mapped
  <2> SUFFICES ASSUME IInv, ReadInv PROVE WriterInv
    BY Zenon DEF Mapped
  <2> QED BY WriterIsLast, Zenon DEF WriterInv
<1>2. Spec => []Mapped
  BY <1>1, ReadInvariance, PTL
<1> QED BY <1>2, RefinesInit, RefinesStep, PTL DEF Spec, ImplementsSnapshotIsolation, SI!AbsSpec
=============================================================================
