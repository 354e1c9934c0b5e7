--------------------------- MODULE TxnStepProofs ----------------------------
(***************************************************************************)
(* The steps of TxnManager, for every value of its constants: types, then  *)
(* phase 1 (validation, allocation, silent install), phases 2 and 3 (turn, *)
(* sidechannel, publication), and gc, rollback, the locks and the floors   *)
(* each preserve their part of the invariant of TxnInvariant.              *)
(***************************************************************************)
EXTENDS TxnInvariant, TLAPS

\* A leaf that names no prover goes to the SMT solver; the limit is generous, so
\* that a proof does not depend on how busy the machine is.
USE SMTT(60)

-----------------------------------------------------------------------------
\* Type correctness.

\* What Push (commit and sidechannel install) returns is a set of versions.
LEMMA PushType ==
  ASSUME NEW vs \in SUBSET Version, NEW l \in Lsn
  PROVE  Push(vs, l) \in SUBSET Version
<1>1. LsnMax \in Lsn
  BY ConstAssumption DEF Lsn
<1>2. \A v \in vs : Expire(v, l) \in Version
  BY Zenon DEF Version, Expire
<1>3. [created |-> l, expired |-> LsnMax] \in Version
  BY <1>1, Zenon DEF Version
<1> QED BY <1>2, <1>3, Zenon DEF Push

\* What Pop (rollback_writes) returns is a set of versions.
LEMMA PopType ==
  ASSUME NEW vs \in SUBSET Version, NEW l \in Lsn
  PROVE  Pop(vs, l) \in SUBSET Version
<1>1. LsnMax \in Lsn
  BY ConstAssumption DEF Lsn
<1>2. \A v \in vs : Expire(v, LsnMax) \in Version
  BY <1>1, Zenon DEF Version, Expire
<1> QED BY <1>2, Zenon DEF Pop

\* Every step of the manager, the checkpointer and gc preserves the types; LSNs
\* stay below the Lsn::MAX sentinel because allocation is bounded.
LEMMA TypeStep == TypeOK /\ [Next]_vars => TypeOK'
<1> USE ConstAssumption DEF Committers, AllKeys, Lsn, Version
<1> SUFFICES ASSUME TypeOK, [Next]_vars PROVE TypeOK'
  BY Zenon
<1>1. ASSUME NEW t \in Txns, BeginStep(t) PROVE TypeOK'
  BY <1>1 DEF TypeOK, Pcs, Span, Goto, BeginStep, BeginBump, BeginSentinel, BeginLoad,
              BeginPublish, lsnVars, gcVars
<1>2. ASSUME NEW t \in Txns, Abort(t) PROVE TypeOK'
  BY <1>2, Zenon DEF TypeOK, Pcs, Span, Goto, Abort, lsnVars, gcVars
<1>3. ASSUME NEW t \in Txns, TxnCommitStep(t) PROVE TypeOK'
  <2> USE DEF TypeOK, Pcs, Span, Goto, lsnVars, gcVars, beginVars
  <2>1. CASE CommitNoop(t) \/ Conflict(t) \/ DeltaBuilderError(t)
    BY <2>1 DEF CommitNoop, Conflict, DeltaBuilderError
  <2>2. CASE ValidateAndAllocate(t)
    BY <2>2 DEF ValidateAndAllocate, AllocateRange
  <2>3. CASE ReleaseGate(t) \/ Build(t) \/ EndUndo(t)
    BY <2>3 DEF ReleaseGate, Build, EndUndo
  <2>4. ASSUME NEW k \in Keys, InstallKey(t, k) PROVE TypeOK'
    BY <2>4, PushType, Zenon DEF InstallKey
  <2>5. ASSUME NEW k \in Keys, UndoKey(t, k) PROVE TypeOK'
    BY <2>5, PopType, Zenon DEF UndoKey
  <2> HIDE DEF TypeOK
  <2> QED BY <1>3, <2>1, <2>2, <2>3, <2>4, <2>5, Zenon DEF TxnCommitStep
<1>4. ASSUME NEW t \in Txns, NEW k \in Keys, Write(t, k) PROVE TypeOK'
  BY <1>4, Zenon DEF TypeOK, Write, lsnVars, gcVars, beginVars
<1>5. ASSUME NEW m \in Smos, IndexAllocate(m) PROVE TypeOK'
  BY <1>5 DEF TypeOK, Pcs, Span, Goto, IndexAllocate, AllocateRange, lsnVars, gcVars, beginVars
<1>6. ASSUME NEW c \in Committers, EnterCommit(c) \/ PipelineStep(c) PROVE TypeOK'
  <2> USE DEF TypeOK, Pcs, Span, Goto, lsnVars, gcVars, beginVars
  <2>1. CASE EnterCommit(c) \/ WalOk(c) \/ WalFail(c) \/ Publish(c)
    BY <2>1 DEF EnterCommit, WalOk, WalFail, Publish
  <2>2. CASE BeginUndo(c) \/ Advance(c) \/ Retire(c)
    BY <2>2 DEF BeginUndo, Advance, Retire
  <2>3. ASSUME NEW k \in SysKeys, ApplySide(c, k) PROVE TypeOK'
    BY <2>3, PushType, Zenon DEF ApplySide
  <2> HIDE DEF TypeOK
  <2> QED BY <1>6, <2>1, <2>2, <2>3, Zenon DEF PipelineStep
<1>7. CASE Freeze \/ Unfreeze
  BY <1>7, Zenon DEF TypeOK, Freeze, Unfreeze, lsnVars, gcVars, beginVars
<1>8. CASE GcStep
  <2> USE DEF TypeOK, lsnVars, gcVars, beginVars
  <2>1. CASE GcStart
    <3>1. gcPending' \in BOOLEAN
      BY <2>1, Zenon DEF GcStart
    <3> QED BY <2>1, <3>1 DEF GcStart
  <2>4. CASE GcFence
    BY <2>4 DEF GcFence
  <2>5. CASE GcLoadVisible \/ GcEnd
    <3>1. gcPending' \in BOOLEAN
      BY <2>5, Zenon DEF GcLoadVisible, GcEnd
    <3> QED BY <2>5, <3>1 DEF GcLoadVisible, GcEnd
  <2>2. ASSUME NEW t \in Txns, GcVisit(t) PROVE TypeOK'
    BY <2>2, Zenon DEF GcVisit
  <2>3. ASSUME NEW k \in AllKeys, GcReclaim(k) PROVE TypeOK'
    BY <2>3, Zenon DEF GcReclaim, Retain
  <2> HIDE DEF TypeOK
  <2> QED BY <1>8, <2>1, <2>2, <2>3, <2>4, <2>5, Zenon DEF GcStep
<1>9. CASE UNCHANGED vars
  BY <1>9, Zenon DEF TypeOK, vars, lsnVars, gcVars, beginVars
<1> QED BY <1>1, <1>2, <1>3, <1>4, <1>5, <1>6, <1>7, <1>8, <1>9, Zenon DEF Next

\* The types hold in a fresh manager.
LEMMA TypeInit == Init => TypeOK
<1> USE ConstAssumption DEF Committers, AllKeys, Lsn, Version
<1>1. 0 \in Lsn /\ 0 \in Nat /\ LsnMax \in Lsn
  OBVIOUS
<1>2. Init => frozen \in BOOLEAN /\ gcPending \in BOOLEAN
  BY Zenon DEF Init
<1> QED BY <1>1, <1>2 DEF Init, TypeOK, Pcs, Span

\* Type correctness: every watermark, LSN, snapshot and version bound is an LSN,
\* and the active map, write buffers and gc locals keep their shape, for every
\* set of transactions and keys.
THEOREM TypeCorrect == Spec => []TypeOK
BY TypeInit, TypeStep, PTL DEF Spec

-----------------------------------------------------------------------------
\* Phase 1: validation, allocation and the silent install.

\* Where a committer has no LSN range, or has given its range up.
Settled == {"idle", "bumped", "pending", "loaded", "active", "guarded", "readonly",
            "conflict", "aborted", "retireErr"}

\* The invariant without types, locks and floors.
PipelineInv ==
  LsnInv /\ TurnInv /\ ChainInv /\ PendingInv /\ InstallInv /\ KeptInv /\ WinsInv

\* Begin, buffered writes, aborts, conflicts, retirement, the freeze and the
\* reading part of gc do not disturb the pipeline.
LEMMA QuietStep ==
  ASSUME TypeOK, TypeOK', PipelineInv,
         UNCHANGED <<visible, installOrder, chain, counter, base, lsn>>,
         \A c \in Committers : \/ pc'[c] = pc[c]
                               \/ pc[c] \in Settled /\ pc'[c] \in Settled
                               \/ pc[c] = "retireOk" /\ pc'[c] = "committed",
         \A c \in Committers : writes'[c] = writes[c] \/ pc[c] \in Settled,
         \A t \in Txns : snapshot'[t] = snapshot[t] \/ pc[t] \in Settled
  PROVE  PipelineInv'
<1> USE ConstAssumption DEF Committers, AllKeys, Lsn, Settled
<1>1. InFlight' = InFlight /\ Committed' = Committed /\ Numbered' = Numbered
  BY Zenon DEF InFlight, Committed, Numbered
<1>2. \A t \in Txns : pc'[t] \in Kept \cup {"install"} =>
         pc[t] \in Kept \cup {"install"} /\ writes'[t] = writes[t] /\ snapshot'[t] = snapshot[t]
  BY DEF Kept
<1>3. LsnInv'
  BY <1>1, Zenon DEF PipelineInv, LsnInv
<1>4. TurnInv'
  BY <1>1, Zenon DEF PipelineInv, TurnInv, MyTurn
<1>5. ChainInv'
  BY Zenon DEF PipelineInv, ChainInv
<1>6. PendingInv'
  BY <1>1 DEF PipelineInv, PendingInv, Installer, IsLast, MyTurn, InFlight
<1>7. InstallInv'
  BY Zenon DEF PipelineInv, InstallInv
<1>8. KeptInv'
  BY Zenon DEF PipelineInv, KeptInv, InTheWay, Kept
<1>9. WinsInv'
  BY <1>2 DEF PipelineInv, WinsInv
<1> QED BY <1>3, <1>4, <1>5, <1>6, <1>7, <1>8, <1>9, Zenon DEF PipelineInv

\* allocate_range hands out a range above every other one.
LEMMA AllocateStep ==
  ASSUME TypeOK, TypeOK', PipelineInv,
         NEW c \in Committers, NEW n \in Nat \ {0}, NEW l \in {"install", "append"},
         pc[c] = "guarded", AllocateRange(c, n), Goto(c, l),
         UNCHANGED <<visible, installOrder, chain, writes>>
  PROVE  LsnInv' /\ TurnInv' /\ ChainInv' /\ PendingInv'
<1> USE ConstAssumption DEF Committers, AllKeys, Lsn
<1>1. InFlight' = InFlight \cup {c} /\ c \notin Numbered /\ Numbered' = Numbered \cup {c}
  BY DEF InFlight, Committed, Numbered, TypeOK, Goto
<1>2. /\ pc'[c] \notin {"undo", "undone", "published"}
      /\ counter' = counter + n /\ base'[c] = counter + 1 /\ lsn'[c] = counter + n
      /\ \A d \in Committers : d # c => base'[d] = base[d] /\ lsn'[d] = lsn[d] /\ pc'[d] = pc[d]
      /\ counter + n < LsnMax /\ counter \in Nat /\ visible \in Nat /\ installOrder \in Nat
  BY DEF AllocateRange, TypeOK, Goto
<1>3. /\ Numbered \subseteq Committers /\ InFlight \subseteq Numbered
      /\ \A d \in Committers : base[d] \in Nat /\ lsn[d] \in Nat
  BY DEF Numbered, InFlight, Committed, TypeOK
<1>4. LsnInv'
  BY <1>1, <1>2, <1>3 DEF PipelineInv, LsnInv
<1>5. TurnInv'
  BY <1>1, <1>2, <1>3 DEF PipelineInv, TurnInv, LsnInv, MyTurn, TypeOK
<1>6. ChainInv'
  BY Zenon DEF PipelineInv, ChainInv
<1>7. PendingInv'
  BY <1>1, <1>2, <1>3 DEF PipelineInv, PendingInv, Installer, IsLast, MyTurn
<1> QED BY <1>4, <1>5, <1>6, <1>7, Zenon

\* Phase 1 validation and allocation under commit_gate: no kept writer of the
\* same key is newer than the snapshot.
LEMMA ValidateStep ==
  ASSUME TypeOK, TypeOK', PipelineInv, FloorInv, NEW t \in Txns, ValidateAndAllocate(t)
  PROVE  PipelineInv'
<1> USE ConstAssumption DEF Committers, AllKeys, Lsn
<1>1. PICK n \in Nat \ {0} : AllocateRange(t, n)
  BY DEF ValidateAndAllocate
<1>2. LsnInv' /\ TurnInv' /\ ChainInv' /\ PendingInv'
  BY <1>1, AllocateStep, Zenon DEF ValidateAndAllocate
<1>3. /\ \A a \in Txns : a # t => pc'[a] = pc[a] /\ lsn'[a] = lsn[a]
      /\ pc'[t] = "install" /\ UNCHANGED <<writes, chain, snapshot, visible>>
  BY <1>1, Zenon DEF ValidateAndAllocate, Goto, AllocateRange, beginVars, TypeOK
<1>4. InstallInv'
  <2>1. ASSUME NEW k \in writes[t], NEW v \in chain[k] PROVE v.created <= snapshot[t]
    BY <2>1 DEF ValidateAndAllocate, Conflicts, TypeOK, Version
  <2> QED BY <1>3, <2>1, Zenon DEF PipelineInv, InstallInv
<1>5. KeptInv'
  BY <1>3 DEF PipelineInv, KeptInv, InTheWay, Kept
<1>6. WinsInv'
  <2>1. ASSUME NEW a \in Txns, a # t, pc[a] \in Kept \cup {"install"},
               writes[a] \cap writes[t] # {}
        PROVE  lsn[a] <= snapshot[t]
    <3>1. PICK k \in writes[a] : k \in writes[t]
      BY <2>1, Zenon
    <3>2. pc[a] \in Kept
      BY <2>1, Zenon DEF ValidateAndAllocate, GateFree
    <3>3. PICK v \in chain[k] : lsn[a] <= v.created
      BY <3>1, <3>2, Zenon DEF PipelineInv, KeptInv, InTheWay
    <3>4. ~(v.created > snapshot[t])
      BY <3>1, Zenon DEF ValidateAndAllocate, Conflicts
    <3>5. v.created \in Nat /\ snapshot[t] \in Nat /\ lsn[a] \in Nat
      BY <3>1 DEF TypeOK, Version
    <3> QED BY <3>3, <3>4, <3>5
  <2> QED BY <2>1, <1>3 DEF PipelineInv, WinsInv
<1> QED BY <1>2, <1>4, <1>5, <1>6, Zenon DEF PipelineInv

\* commit_index_pages_atomic takes its range without validation.
LEMMA IndexAllocateStep ==
  ASSUME TypeOK, TypeOK', PipelineInv, NEW m \in Smos, IndexAllocate(m)
  PROVE  PipelineInv'
<1> USE ConstAssumption DEF Committers, AllKeys, Lsn
<1>1. LsnInv' /\ TurnInv' /\ ChainInv' /\ PendingInv'
  BY 1 \in Nat \ {0}, AllocateStep DEF IndexAllocate
<1>2. /\ \A t \in Txns : pc'[t] = pc[t] /\ lsn'[t] = lsn[t]
      /\ UNCHANGED <<writes, chain, snapshot, visible>>
  BY DEF IndexAllocate, Goto, AllocateRange, beginVars, TypeOK
<1>3. InstallInv' /\ KeptInv' /\ WinsInv'
  BY <1>2 DEF PipelineInv, InstallInv, KeptInv, InTheWay, WinsInv
<1> QED BY <1>1, <1>3, Zenon DEF PipelineInv

\* The version a commit at LSN l pushes.
Top(l) == [created |-> l, expired |-> LsnMax]

\* Every version of vs is in us, the live one expired at l.
Carries(vs, us, l) ==
  \A v \in vs : \E u \in us :
    u.created = v.created /\ (u.expired = v.expired \/ u.expired = l)

\* us has nothing but the versions of vs and the one pushed at l.
AddsOnly(vs, us, l) ==
  \A u \in us : u = Top(l) \/ \E v \in vs : u.created = v.created

\* A push above all versions of an adjoining chain keeps it adjoining and adds
\* exactly one version, the last one.
LEMMA PushFacts ==
  ASSUME NEW vs \in SUBSET Version, NEW l \in Lsn, l < LsnMax, Adjoining(vs),
         \A v \in vs : v.created < l
  PROVE  /\ Top(l) \in Push(vs, l)
         /\ Carries(vs, Push(vs, l), l)
         /\ AddsOnly(vs, Push(vs, l), l)
         /\ Adjoining(Push(vs, l))
<1> USE ConstAssumption DEF Lsn
<1> DEFINE top == Top(l)
           Img(v) == IF IsLast(v, vs) /\ v.expired = LsnMax THEN Expire(v, l) ELSE v
<1>1. \A u : u \in Push(vs, l) <=> u = top \/ \E v \in vs : u = Img(v)
  BY Zenon DEF Push, Top
<1>2. \A v \in vs : v.created \in Nat /\ v.expired \in Nat /\ v.expired <= LsnMax
  BY DEF Version
<1>3. top.created = l /\ top.expired = LsnMax /\ l \in Nat /\ LsnMax \in Nat
  BY DEF Top
<1>4. ASSUME NEW v \in vs
      PROVE  /\ Img(v).created = v.created
             /\ Img(v).expired = v.expired \/ Img(v).expired = l
             /\ Img(v).expired <= l /\ v.created < Img(v).expired
             /\ Img(v).expired = l \/ \E w \in vs : w.created = Img(v).expired
    <2>1. CASE IsLast(v, vs)
      <3>1. v.expired = LsnMax
        BY <1>2, <2>1 DEF Adjoining, IsLast
      <3> QED BY <1>2, <2>1, <3>1 DEF Expire
    <2>2. CASE ~IsLast(v, vs)
      <3>1. Img(v) = v
        BY <2>2, Zenon
      <3>2. PICK w \in vs : v.created < w.created
        BY <1>2, <2>2 DEF IsLast
      <3>3. v.expired <= w.created /\ w.created < l
        BY <3>2, Zenon DEF Adjoining
      <3>4. v.expired < LsnMax
        BY <1>2, <3>3, <1>3
      <3> QED BY <1>2, <3>1, <3>3, <3>4 DEF Adjoining
    <2> QED BY <2>1, <2>2, Zenon
<1>5. ASSUME NEW u \in Push(vs, l), NEW w \in Push(vs, l)
      PROVE  /\ u.created = w.created => u = w
             /\ u.created < w.created => u.expired <= w.created
  <2>1. CASE w = top
    BY <1>1, <1>2, <1>3, <1>4, <2>1
  <2>2. CASE u = top /\ w # top
    BY <1>1, <1>2, <1>3, <1>4, <2>2
  <2>3. CASE u # top /\ w # top
    <3>1. PICK v \in vs : u = Img(v)
      BY <1>1, <2>3, Zenon
    <3>2. PICK x \in vs : w = Img(x)
      BY <1>1, <2>3, Zenon
    <3>3. u.created = v.created /\ w.created = x.created
      BY <1>4, <3>1, <3>2, Zenon
    <3>4. v.created = x.created => v = x
      BY Zenon DEF Adjoining
    <3>5. ASSUME v.created < x.created PROVE u = v /\ v.expired <= x.created
      BY <1>2, <3>1, <3>5 DEF Adjoining, IsLast
    <3> QED BY <3>1, <3>2, <3>3, <3>4, <3>5, Zenon
  <2> QED BY <2>1, <2>2, <2>3, Zenon
<1>6. ASSUME NEW u \in Push(vs, l)
      PROVE  /\ u.created < u.expired
             /\ u.expired = LsnMax \/ \E w \in Push(vs, l) : w.created = u.expired
  <2>1. CASE u = top
    BY <2>1, <1>3, Zenon
  <2>2. CASE u # top
    <3>1. PICK v \in vs : u = Img(v)
      BY <1>1, <2>2, Zenon
    <3>2. CASE u.expired = l
      BY <1>1, <1>3, <1>4, <3>1, <3>2, Zenon
    <3>3. CASE u.expired # l
      <4>1. PICK w \in vs : w.created = u.expired
        BY <1>4, <3>1, <3>3, Zenon
      <4>2. Img(w) \in Push(vs, l) /\ Img(w).created = w.created
        BY <1>1, <1>4, Zenon
      <4> QED BY <1>4, <3>1, <4>1, <4>2, Zenon
    <3> QED BY <3>2, <3>3, Zenon
  <2> QED BY <2>1, <2>2, Zenon
<1>7. Adjoining(Push(vs, l))
  BY <1>5, <1>6, Zenon DEF Adjoining
<1> HIDE DEF Img
<1> QED BY <1>1, <1>4, <1>7 DEF Carries, AddsOnly

\* The silent install of one key lands on top of its chain, above every
\* version that is there.
LEMMA InstallStep ==
  ASSUME TypeOK, TypeOK', PipelineInv, FloorInv, LockInv,
         NEW t \in Txns, NEW k \in Keys, InstallKey(t, k)
  PROVE  /\ PipelineInv'
         /\ \A v \in chain[k] : v.created < lsn[t]
<1> USE ConstAssumption DEF Committers, AllKeys
<1>1. /\ pc[t] = "install" /\ k \in writes[t] /\ ~Holds(k, lsn[t])
      /\ UNCHANGED <<pc, visible, installOrder, writes, counter, base, lsn, snapshot>>
      /\ chain'[k] = Push(chain[k], lsn[t])
      /\ \A j \in AllKeys : j # k => chain'[j] = chain[j]
  BY Zenon DEF InstallKey, beginVars, lsnVars, TypeOK
<1>2. /\ chain[k] \in SUBSET Version /\ lsn[t] \in Lsn /\ visible \in Nat /\ snapshot[t] \in Nat
      /\ lsn[t] \in Nat /\ base[t] \in Nat
      /\ \A v \in chain[k] : v.created \in Nat
  BY DEF TypeOK, Version, Lsn
<1>3. t \in InFlight /\ t \in Numbered
  BY <1>1, Zenon DEF InFlight, Numbered
<1>4. visible < lsn[t] /\ lsn[t] < LsnMax /\ snapshot[t] <= visible
  BY <1>2, <1>3 DEF PipelineInv, LsnInv, TurnInv, FloorInv, TypeOK, Lsn
<1>5. \A v \in chain[k] : v.created <= visible
  <2>1. \A v \in chain[k] : v.created <= snapshot[t]
    BY <1>1, Zenon DEF PipelineInv, InstallInv, Holds
  <2> QED BY <1>2, <1>4, <2>1
<1>6. \A v \in chain[k] : v.created < lsn[t]
  BY <1>2, <1>4, <1>5
<1> DEFINE top == Top(lsn[t])
<1>7. Carries(chain[k], chain'[k], lsn[t]) /\ AddsOnly(chain[k], chain'[k], lsn[t]) /\ Adjoining(chain'[k])
  <2>1. Adjoining(chain[k]) /\ lsn[t] < LsnMax
    BY <1>4, Zenon DEF PipelineInv, ChainInv
  <2> QED BY <1>1, <1>2, <1>6, <2>1, PushFacts, Zenon
<1>8. LsnInv' /\ TurnInv' /\ WinsInv'
  <2>1. LsnInv'
    <3>1. Numbered' = Numbered
      BY <1>1, Zenon DEF Numbered, InFlight, Committed
    <3> QED BY <1>1, <3>1, Zenon DEF PipelineInv, LsnInv
  <2>2. TurnInv'
    BY <1>1, Zenon DEF PipelineInv, TurnInv, InFlight, MyTurn
  <2>3. WinsInv'
    BY <1>1, Zenon DEF PipelineInv, WinsInv, Committed
  <2> QED BY <2>1, <2>2, <2>3, Zenon
<1>9. ChainInv'
  <2> SUFFICES ASSUME NEW j \in AllKeys PROVE Adjoining(chain'[j])
    BY Zenon DEF ChainInv
  <2>1. CASE j = k
    BY <1>7, <2>1, Zenon
  <2>2. CASE j # k
    <3>1. Adjoining(chain[j])
      BY Zenon DEF PipelineInv, ChainInv
    <3> QED BY <1>1, <2>2, <3>1, Zenon
  <2> QED BY <2>1, <2>2, Zenon
<1>10. PendingInv'
  <2>1. InFlight' = InFlight /\ \A c \in Committers, j \in AllKeys : Installer(c, j)' = Installer(c, j)
    <3>1. InFlight' = InFlight
      BY <1>1, Zenon DEF InFlight
    <3>2. \A c \in Committers : MyTurn(c)' = MyTurn(c)
      BY <1>1, Zenon DEF MyTurn
    <3> QED BY <1>1, <3>1, <3>2, Zenon DEF Installer
  <2>2. Installer(t, k)
    BY <1>1, Zenon DEF Installer
  <2>3. \A u \in chain'[k] : u.created > visible => u = top
    BY <1>2, <1>5, <1>7 DEF AddsOnly
  <2>4. \A u \in chain'[k] : u.created <= lsn[t]
    BY <1>2, <1>6, <1>7 DEF AddsOnly, Top
  <2>5. \A u \in chain'[k] : u.created > visible => IsLast(u, chain'[k])
    BY <2>3, <2>4 DEF IsLast, Top
  <2>6. \A u \in chain'[k] : u.created > visible => lsn[t] = u.created
    BY <2>3 DEF Top
  <2> QED BY <1>1, <1>3, <2>1, <2>2, <2>5, <2>6 DEF PipelineInv, PendingInv, InFlight
<1>11. InstallInv'
  <2>1. \A a \in Txns : pc[a] = "install" => a = t
    BY <1>1, Zenon DEF LockInv
  <2>2. \A u \in chain'[k] : u.created <= snapshot[t] \/ u.created = lsn[t]
    BY <1>1, <1>7 DEF PipelineInv, InstallInv, AddsOnly, Top
  <2>3. \A j \in writes[t] : j \in AllKeys
    BY Zenon DEF TypeOK
  <2> QED BY <1>1, <2>1, <2>2, <2>3 DEF PipelineInv, InstallInv
<1>12. KeptInv'
  <2>1. \A a \in Txns : InTheWay(a, k) => InTheWay(a, k)'
    BY <1>1, <1>4, <1>7 DEF InTheWay, Carries
  <2>2. \A a \in Txns : \A j \in writes[a] : InTheWay(a, j) => InTheWay(a, j)'
    <3>1. \A a \in Txns : \A j \in writes[a] : j \in AllKeys
      BY Zenon DEF TypeOK
    <3>2. ASSUME NEW a \in Txns, NEW j \in writes[a], j # k, InTheWay(a, j)
          PROVE  InTheWay(a, j)'
      <4>1. chain'[j] = chain[j] /\ UNCHANGED <<lsn, visible>>
        BY <1>1, <3>1, <3>2, Zenon
      <4> QED BY <3>2, <4>1, Zenon DEF InTheWay
    <3> QED BY <2>1, <3>2, Zenon
  <2> QED BY <1>1, <2>2, Zenon DEF PipelineInv, KeptInv
<1> QED BY <1>6, <1>8, <1>9, <1>10, <1>11, <1>12, Zenon DEF PipelineInv

-----------------------------------------------------------------------------
\* Phases 2 and 3: the turn, the sidechannel install, publication, the advance of
\* install_order.

\* wait_for_install_turn admits one committer: whoever is past its wait has the
\* lowest unfinished range.
LEMMA TurnIsUnique ==
  ASSUME TypeOK, PipelineInv, NEW c \in InFlight, MyTurn(c), NEW d \in Committers,
         d \in InFlight \/ pc[d] = "published", d # c
  PROVE  lsn[c] < base[d] /\ (MyTurn(d) => FALSE)
<1> USE DEF Committers, Lsn
<1>1. /\ c \in Committers /\ c \in Numbered /\ d \in Numbered
      /\ installOrder \in Nat /\ base[c] \in Nat /\ base[d] \in Nat /\ lsn[c] \in Nat /\ lsn[d] \in Nat
  BY ConstAssumption DEF InFlight, Numbered, Committed, TypeOK
<1>2. installOrder < base[c] /\ installOrder < base[d] /\ installOrder >= base[c] - 1
  BY <1>1, Zenon DEF PipelineInv, TurnInv, MyTurn
<1>3. base[c] <= lsn[c] /\ base[d] <= lsn[d] /\ (lsn[c] < base[d] \/ lsn[d] < base[c])
  BY <1>1, Zenon DEF PipelineInv, LsnInv
<1> QED BY <1>1, <1>2, <1>3 DEF MyTurn

\* apply_sidechannel_mvcc_write pushes on top of its chain, because only the
\* committer whose turn it is writes SYSTEM keys.
LEMMA ApplySideStep ==
  ASSUME TypeOK, TypeOK', PipelineInv, NEW c \in Committers, NEW k \in SysKeys, ApplySide(c, k)
  PROVE  PipelineInv' /\ \A v \in chain[k] : v.created < lsn[c]
<1> USE ConstAssumption DEF Committers, AllKeys
<1>1. /\ pc[c] = "turn" /\ MyTurn(c) /\ ~Holds(k, lsn[c]) /\ k \notin Keys
      /\ UNCHANGED <<pc, visible, installOrder, writes, counter, base, lsn, snapshot>>
      /\ chain'[k] = Push(chain[k], lsn[c])
      /\ \A j \in AllKeys : j # k => chain'[j] = chain[j]
  BY Zenon DEF ApplySide, beginVars, lsnVars, TypeOK
<1>2. /\ chain[k] \in SUBSET Version /\ lsn[c] \in Lsn /\ visible \in Nat
      /\ lsn[c] \in Nat /\ base[c] \in Nat
      /\ \A v \in chain[k] : v.created \in Nat
  BY DEF TypeOK, Version, Lsn
<1>3. c \in InFlight /\ c \in Numbered
  BY <1>1, Zenon DEF InFlight, Numbered
<1>4. visible < lsn[c] /\ lsn[c] < LsnMax
  BY <1>2, <1>3 DEF PipelineInv, LsnInv, TurnInv, TypeOK, Lsn
<1>5. \A v \in chain[k] : v.created <= visible
  <2> SUFFICES ASSUME NEW v \in chain[k], v.created > visible PROVE FALSE
    BY <1>2
  <2>1. PICK d \in InFlight : lsn[d] = v.created /\ Installer(d, k)
    BY Zenon DEF PipelineInv, PendingInv
  <2>2. d \in Committers /\ MyTurn(d)
    BY <1>1, <2>1, Zenon DEF Installer, InFlight
  <2>3. d = c
    BY <1>1, <1>3, <2>2, TurnIsUnique, Zenon
  <2> QED BY <1>1, <2>1, <2>3, Zenon DEF Holds
<1>6. \A v \in chain[k] : v.created < lsn[c]
  BY <1>2, <1>4, <1>5
<1>7. AddsOnly(chain[k], chain'[k], lsn[c]) /\ Adjoining(chain'[k])
  <2>1. Adjoining(chain[k]) /\ lsn[c] < LsnMax
    BY <1>4, Zenon DEF PipelineInv, ChainInv
  <2> QED BY <1>1, <1>2, <1>6, <2>1, PushFacts, Zenon
<1>8. LsnInv' /\ TurnInv' /\ WinsInv'
  BY <1>1, Zenon DEF PipelineInv, LsnInv, TurnInv, WinsInv, InFlight, Numbered, Committed,
     MyTurn
<1>9. ChainInv'
  BY <1>1, <1>7, Zenon DEF PipelineInv, ChainInv
<1>10. PendingInv'
  <2>1. InFlight' = InFlight /\ \A d \in Committers, j \in AllKeys : Installer(d, j)' = Installer(d, j)
    BY <1>1, Zenon DEF InFlight, Installer, MyTurn
  <2>2. Installer(c, k)
    BY <1>1, Zenon DEF Installer
  <2>3. \A u \in chain'[k] : u.created > visible => lsn[c] = u.created
    BY <1>2, <1>5, <1>7 DEF AddsOnly, Top
  <2> QED BY <1>1, <1>3, <2>1, <2>2, <2>3 DEF PipelineInv, PendingInv, InFlight
<1>11. InstallInv' /\ KeptInv'
  <2>1. \A t \in Txns : \A j \in writes[t] : j \in AllKeys /\ j # k
    BY <1>1 DEF TypeOK
  <2>2. \A t \in Txns : \A j \in writes[t] : InTheWay(t, j)' = InTheWay(t, j)
    BY <1>1, <2>1, Zenon DEF InTheWay
  <2> QED BY <1>1, <2>1, <2>2 DEF PipelineInv, InstallInv, KeptInv
<1> QED BY <1>6, <1>8, <1>9, <1>10, <1>11, Zenon DEF PipelineInv

\* A committer that only moves on (gate release, build, WAL answer, start and
\* end of the rollback) keeps the invariant.
LEMMA MoveStep ==
  ASSUME TypeOK, TypeOK', PipelineInv, NEW c \in Committers, NEW l \in Pcs, Goto(c, l),
         UNCHANGED <<visible, installOrder, chain, writes, counter, base, lsn, snapshot>>,
         c \in InFlight, l \in {"build", "append", "turn", "failed", "undo", "undone"},
         l \in {"undo", "undone"} => MyTurn(c),
         l \in Kept => pc[c] \in Kept \/ \A k \in writes[c] : Holds(k, lsn[c]),
         l \in Kept => pc[c] \in Kept \cup {"install"},
         pc[c] # "turn",
         (l = "undone" /\ c \in Txns) => \A k \in writes[c] : ~Holds(k, lsn[c])
  PROVE  PipelineInv'
<1> USE ConstAssumption DEF Committers, AllKeys
<1>1. /\ pc'[c] = l /\ \A d \in Committers : d # c => pc'[d] = pc[d]
      /\ InFlight' = InFlight /\ Numbered' = Numbered /\ pc[c] # "published"
  BY DEF Goto, TypeOK, InFlight, Numbered, Committed
<1>2. LsnInv'
  BY <1>1, Zenon DEF PipelineInv, LsnInv
<1>3. TurnInv'
  BY <1>1, Zenon DEF PipelineInv, TurnInv, MyTurn
<1>4. ChainInv'
  BY Zenon DEF PipelineInv, ChainInv
<1>5. PendingInv'
  <2>1. ASSUME NEW k \in AllKeys, NEW v \in chain[k], v.created > visible
        PROVE  \E d \in InFlight : lsn[d] = v.created /\ Installer(d, k)'
    <3>1. PICK d \in InFlight : lsn[d] = v.created /\ Installer(d, k)
      BY <2>1, Zenon DEF PipelineInv, PendingInv
    <3>2. d \in Committers
      BY Zenon DEF InFlight
    <3>3. CASE d # c
      BY <1>1, <3>1, <3>2, <3>3, Zenon DEF Installer, MyTurn
    <3>4. CASE d = c
      BY <1>1, <2>1, <3>1, <3>4, Zenon DEF Installer, MyTurn, Holds
    <3> QED BY <3>3, <3>4, Zenon
  <2> QED BY <1>1, <2>1, Zenon DEF PipelineInv, PendingInv, IsLast
<1>6. InstallInv'
  BY <1>1, Zenon DEF PipelineInv, InstallInv
<1>7. KeptInv'
  <2>1. ASSUME NEW k \in writes[c], Holds(k, lsn[c]) PROVE InTheWay(c, k)
    <3>1. PICK v \in chain[k] : v.created = lsn[c]
      BY <2>1, Zenon DEF Holds
    <3>2. k \in AllKeys /\ v.created < v.expired /\ c \in Numbered
      BY <3>1, Zenon DEF PipelineInv, ChainInv, Adjoining, TypeOK, Numbered
    <3>3. visible < lsn[c] /\ visible \in Nat /\ lsn[c] \in Nat /\ v.expired \in Nat
      BY <3>1, <3>2 DEF PipelineInv, LsnInv, TurnInv, TypeOK, Lsn, Version
    <3> QED BY <3>1, <3>2, <3>3 DEF InTheWay
  <2> QED BY <1>1, <2>1 DEF PipelineInv, KeptInv, InTheWay
<1>8. WinsInv'
  BY <1>1 DEF PipelineInv, WinsInv, Kept
<1> QED BY <1>2, <1>3, <1>4, <1>5, <1>6, <1>7, <1>8, Zenon DEF PipelineInv

\* Publishing raises the watermark over exactly one finished commit.
LEMMA PublishStep ==
  ASSUME TypeOK, TypeOK', PipelineInv, NEW c \in Committers, Publish(c)
  PROVE  PipelineInv' /\ visible < visible'
<1> USE ConstAssumption DEF Committers, AllKeys
<1>1. /\ pc[c] = "turn" /\ MyTurn(c) /\ visible' = lsn[c] /\ pc'[c] = "published"
      /\ \A d \in Committers : d # c => pc'[d] = pc[d]
      /\ UNCHANGED <<installOrder, chain, writes, counter, base, lsn, snapshot>>
  BY Zenon DEF Publish, Goto, beginVars, lsnVars, TypeOK
<1>2. /\ c \in InFlight /\ c \in Numbered /\ InFlight' = InFlight \ {c} /\ Numbered' = Numbered
      /\ InFlight \subseteq Committers /\ InFlight \subseteq Numbered
  BY <1>1, Zenon DEF InFlight, Numbered, Committed
<1>3. /\ visible \in Nat /\ counter \in Nat /\ \A d \in Committers : lsn[d] \in Nat /\ base[d] \in Nat
      /\ \A k \in AllKeys : \A v \in chain[k] : v.created \in Nat /\ v.expired \in Nat
  BY DEF TypeOK, Version, Lsn
<1>4. visible < lsn[c] /\ lsn[c] <= counter /\ counter < LsnMax
  BY <1>2, <1>3 DEF PipelineInv, LsnInv, TurnInv
<1>5. \A d \in InFlight : d # c => lsn[c] < base[d] /\ lsn[c] < lsn[d]
  <2> SUFFICES ASSUME NEW d \in InFlight, d # c PROVE lsn[c] < base[d] /\ lsn[c] < lsn[d]
    BY Zenon
  <2>1. lsn[c] < base[d]
    BY <1>1, <1>2, TurnIsUnique, Zenon
  <2> QED BY <1>2, <1>3, <2>1 DEF PipelineInv, LsnInv
<1>6. LsnInv'
  BY <1>1, <1>2, <1>4, Zenon DEF PipelineInv, LsnInv
<1>7. TurnInv'
  BY <1>1, <1>2, <1>5, Zenon DEF PipelineInv, TurnInv, MyTurn
<1>8. ChainInv'
  BY <1>1, Zenon DEF PipelineInv, ChainInv
<1>9. PendingInv'
  <2>1. ASSUME NEW k \in AllKeys, NEW v \in chain[k], v.created > lsn[c]
        PROVE  \E d \in InFlight' : lsn[d] = v.created /\ Installer(d, k)'
    <3>1. PICK d \in InFlight : lsn[d] = v.created /\ Installer(d, k)
      BY <1>3, <1>4, <2>1 DEF PipelineInv, PendingInv
    <3> QED BY <1>1, <1>2, <1>3, <2>1, <3>1 DEF Installer, MyTurn
  <2>2. ASSUME NEW k \in Keys, NEW v \in chain[k], v.created > lsn[c] PROVE IsLast(v, chain[k])
    BY <1>3, <1>4, <2>2 DEF PipelineInv, PendingInv
  <2> QED BY <1>1, <2>1, <2>2, Zenon DEF PendingInv, IsLast
<1>10. InstallInv'
  BY <1>1, Zenon DEF PipelineInv, InstallInv
<1>11. KeptInv'
  <2>1. ASSUME NEW t \in Txns, pc[t] \in Kept, NEW k \in writes[t]
        PROVE  InTheWay(t, k)'
    <3>1. PICK v \in chain[k] : /\ lsn[t] <= v.created /\ visible < v.expired
                                /\ v.created <= visible \/ v.created = lsn[t]
      BY <2>1, Zenon DEF PipelineInv, KeptInv, InTheWay
    <3>2. k \in AllKeys
      BY Zenon DEF TypeOK
    <3>3. CASE lsn[c] < v.expired
      <4>1. v.created <= lsn[c] \/ v.created = lsn[t]
        BY <1>3, <1>4, <3>1, <3>2
      <4> QED BY <1>1, <3>1, <3>3, <4>1, Zenon DEF InTheWay
    <3>4. CASE ~(lsn[c] < v.expired)
      <4>1. v.expired # LsnMax /\ v.expired <= lsn[c]
        BY <1>3, <1>4, <3>2, <3>4
      <4>2. PICK w \in chain[k] : w.created = v.expired
        BY <3>1, <3>2, <4>1, Zenon DEF PipelineInv, ChainInv, Adjoining
      <4>3. PICK d \in InFlight : lsn[d] = w.created
        BY <3>1, <3>2, <4>2, <1>3, Zenon DEF PipelineInv, PendingInv
      <4>4. d = c
        BY <1>2, <1>3, <1>5, <3>2, <4>1, <4>2, <4>3
      <4>5. v.created < v.expired /\ w.created < w.expired
        BY <3>2, Zenon DEF PipelineInv, ChainInv, Adjoining
      <4>6. lsn[t] <= w.created /\ lsn[c] < w.expired /\ w.created <= lsn[c]
        BY <1>3, <3>1, <3>2, <4>2, <4>3, <4>4, <4>5
      <4> QED BY <1>1, <4>6, Zenon DEF InTheWay
    <3> QED BY <3>3, <3>4, Zenon
  <2> QED BY <1>1, <2>1, Zenon DEF KeptInv, Kept
<1>12. WinsInv'
  BY <1>1 DEF PipelineInv, WinsInv, Kept
<1> QED BY <1>1, <1>4, <1>6, <1>7, <1>8, <1>9, <1>10, <1>11, <1>12, Zenon DEF PipelineInv

\* advance_install_order_and_notify only raises the install order, and stays
\* below every unfinished range.
LEMMA AdvanceStep ==
  ASSUME TypeOK, TypeOK', PipelineInv, NEW c \in Committers, Advance(c)
  PROVE  PipelineInv' /\ installOrder <= installOrder'
<1> USE ConstAssumption DEF Committers, AllKeys
<1>1. /\ pc[c] \in {"published", "undone"} /\ pc'[c] \in {"retireOk", "retireErr"}
      /\ pc'[c] = "retireOk" <=> pc[c] = "published"
      /\ \A d \in Committers : d # c => pc'[d] = pc[d]
      /\ UNCHANGED <<visible, chain, writes, counter, base, lsn, snapshot>>
  BY Zenon DEF Advance, Goto, beginVars, lsnVars, TypeOK
<1>2. /\ c \in Numbered /\ InFlight' = InFlight \ {c} /\ Numbered' \subseteq Numbered
      /\ InFlight \subseteq Committers /\ InFlight \subseteq Numbered
      /\ \A d \in Committers : pc[d] = "published" => d \in Numbered
  BY <1>1, Zenon DEF InFlight, Numbered, Committed
<1>3. /\ installOrder \in Nat /\ counter \in Nat
      /\ \A d \in Committers : lsn[d] \in Nat /\ base[d] \in Nat
  BY DEF TypeOK, Lsn
<1>4. /\ installOrder < base[c] /\ installOrder >= base[c] - 1
      /\ base[c] <= lsn[c] /\ lsn[c] <= counter
  BY <1>1, <1>2, Zenon DEF PipelineInv, LsnInv, TurnInv, MyTurn, InFlight
<1>5. installOrder' = lsn[c] /\ installOrder < lsn[c]
  BY <1>3, <1>4 DEF Advance
<1>6. \A d \in Committers : d # c /\ (d \in InFlight \/ pc[d] = "published") => lsn[c] < base[d]
  BY <1>2, <1>3, <1>4 DEF PipelineInv, LsnInv, TurnInv
<1>7. LsnInv'
  BY <1>1, <1>2, <1>4, <1>5, Zenon DEF PipelineInv, LsnInv
<1>8. TurnInv'
  BY <1>1, <1>2, <1>3, <1>5, <1>6 DEF PipelineInv, TurnInv, MyTurn
<1>9. ChainInv' /\ InstallInv' /\ WinsInv'
  BY <1>1 DEF PipelineInv, ChainInv, InstallInv, WinsInv, Kept
<1>10. PendingInv'
  <2>1. ASSUME NEW k \in AllKeys, NEW v \in chain[k], v.created > visible
        PROVE  \E d \in InFlight' : lsn[d] = v.created /\ Installer(d, k)'
    <3>1. PICK d \in InFlight : lsn[d] = v.created /\ Installer(d, k)
      BY <2>1, Zenon DEF PipelineInv, PendingInv
    <3>2. d # c
      BY <1>1, <3>1, Zenon DEF Installer, InFlight
    <3> QED BY <1>1, <1>2, <1>3, <1>5, <3>1, <3>2 DEF Installer, MyTurn
  <2> QED BY <1>1, <2>1, Zenon DEF PipelineInv, PendingInv, IsLast
<1>11. KeptInv'
  BY <1>1, Zenon DEF PipelineInv, KeptInv, InTheWay, Kept
<1> QED BY <1>3, <1>5, <1>7, <1>8, <1>9, <1>10, <1>11 DEF PipelineInv

-----------------------------------------------------------------------------
\* Garbage collection, rollback, the locks and the floors.

\* gc of one chain keeps it adjoining and keeps the version that stands in the
\* way of older snapshots, since the anchor is at or below the watermark.
LEMMA ReclaimStep ==
  ASSUME TypeOK, TypeOK', PipelineInv, FloorInv, NEW k \in AllKeys, GcReclaim(k)
  PROVE  PipelineInv'
<1> USE ConstAssumption DEF Committers, AllKeys
<1>1. /\ UNCHANGED <<pc, visible, installOrder, writes, counter, base, lsn, snapshot>>
      /\ chain'[k] = {v \in chain[k] : v.expired > gcAnchor}
      /\ \A j \in AllKeys : j # k => chain'[j] = chain[j]
  BY Zenon DEF GcReclaim, Retain, beginVars, lsnVars, TypeOK
<1>2. /\ gcAnchor <= visible /\ gcAnchor \in Nat /\ visible \in Nat
      /\ \A j \in AllKeys : \A v \in chain[j] : v.created \in Nat /\ v.expired \in Nat
  BY DEF FloorInv, TypeOK, Version, Lsn
<1>3. \A j \in AllKeys : chain'[j] \subseteq chain[j]
  BY <1>1, Zenon
<1>4. LsnInv' /\ TurnInv' /\ WinsInv'
  BY <1>1, Zenon DEF PipelineInv, LsnInv, TurnInv, WinsInv, InFlight, Numbered, Committed,
     MyTurn
<1>5. ChainInv'
  <2>1. Adjoining(chain[k])
    BY Zenon DEF PipelineInv, ChainInv
  <2>2. Adjoining(chain'[k])
    <3> SUFFICES ASSUME NEW v \in chain'[k]
                 PROVE  v.expired = LsnMax \/ \E w \in chain'[k] : w.created = v.expired
      BY <1>3, <2>1, Zenon DEF Adjoining
    <3>1. CASE v.expired = LsnMax
      BY <3>1, Zenon
    <3>2. CASE v.expired # LsnMax
      <4>1. PICK w \in chain[k] : w.created = v.expired
        BY <1>3, <2>1, <3>2, Zenon DEF Adjoining
      <4>2. w.created < w.expired /\ v.expired > gcAnchor
        BY <1>1, <2>1, Zenon DEF Adjoining
      <4>3. w.expired > gcAnchor
        BY <1>2, <4>1, <4>2
      <4> QED BY <1>1, <4>1, <4>3, Zenon
    <3> QED BY <3>1, <3>2, Zenon
  <2> QED BY <1>1, <2>2, Zenon DEF PipelineInv, ChainInv
<1>6. PendingInv'
  <2>1. InFlight' = InFlight /\ \A d \in Committers, j \in AllKeys : Installer(d, j)' = Installer(d, j)
    BY <1>1, Zenon DEF InFlight, Installer, MyTurn
  <2> QED BY <1>1, <1>3, <2>1 DEF PipelineInv, PendingInv, IsLast, InFlight
<1>7. InstallInv'
  <2>1. \A t \in Txns : \A j \in writes[t] : chain'[j] \subseteq chain[j]
    BY <1>3, Zenon DEF TypeOK
  <2> QED BY <1>1, <2>1, Zenon DEF PipelineInv, InstallInv
<1>8. KeptInv'
  <2>1. ASSUME NEW t \in Txns, NEW j \in writes[t], InTheWay(t, j) PROVE InTheWay(t, j)'
    <3>1. PICK v \in chain[j] : /\ lsn[t] <= v.created /\ visible < v.expired
                                /\ v.created <= visible \/ v.created = lsn[t]
      BY <2>1, Zenon DEF InTheWay
    <3>2. j \in AllKeys
      BY Zenon DEF TypeOK
    <3>3. v.expired > gcAnchor
      BY <1>2, <3>1, <3>2
    <3>4. v \in chain'[j]
      BY <1>1, <3>1, <3>2, <3>3, Zenon
    <3> QED BY <1>1, <3>1, <3>4, Zenon DEF InTheWay
  <2> QED BY <1>1, <2>1, Zenon DEF PipelineInv, KeptInv
<1> QED BY <1>4, <1>5, <1>6, <1>7, <1>8, Zenon DEF PipelineInv

\* Popping the last version of an adjoining chain and reviving its predecessor
\* leaves an adjoining chain.
LEMMA PopFacts ==
  ASSUME NEW vs \in SUBSET Version, NEW l \in Lsn, l < LsnMax, Adjoining(vs),
         \A v \in vs : v.created <= l
  PROVE  /\ \A v \in vs : v.created # l => \E u \in Pop(vs, l) :
              u.created = v.created /\ (u.expired = v.expired \/ u.expired = LsnMax)
         /\ \A u \in Pop(vs, l) : u.created # l /\ \E v \in vs : u.created = v.created
         /\ Adjoining(Pop(vs, l))
<1> USE ConstAssumption DEF Lsn
<1> DEFINE rest == {v \in vs : v.created # l}
           Img(v) == IF IsLast(v, rest) /\ v.expired = l THEN Expire(v, LsnMax) ELSE v
<1>1. \A u : u \in Pop(vs, l) <=> \E v \in rest : u = Img(v)
  BY Zenon DEF Pop
<1>2. \A v \in vs : v.created \in Nat /\ v.expired \in Nat /\ v.expired <= LsnMax
  BY DEF Version
<1>3. l \in Nat /\ LsnMax \in Nat
  OBVIOUS
<1>4. ASSUME NEW v \in rest
      PROVE  /\ Img(v).created = v.created /\ v.created < Img(v).expired
             /\ Img(v).expired = v.expired \/ Img(v).expired = LsnMax
    BY <1>2, <1>3 DEF Expire, Adjoining
<1>5. ASSUME NEW v \in rest, v.expired = l PROVE Img(v).expired = LsnMax
  <2>1. ASSUME NEW w \in rest PROVE w.created <= v.created
    <3>1. v.created < w.created => l <= w.created
      BY <1>5, Zenon DEF Adjoining
    <3>2. w.created <= l /\ w.created # l
      BY Zenon
    <3> QED BY <1>2, <1>3, <3>1, <3>2
  <2>2. IsLast(v, rest)
    BY <2>1, Zenon DEF IsLast
  <2> QED BY <1>5, <2>2, Zenon DEF Expire
<1>6. ASSUME NEW v \in rest, NEW x \in rest
      PROVE  /\ v.created = x.created => Img(v) = Img(x)
             /\ v.created < x.created => Img(v).expired <= x.created
  <2>1. v.created = x.created => v = x
    BY Zenon DEF Adjoining
  <2>2. ASSUME v.created < x.created PROVE Img(v) = v /\ v.expired <= x.created
    BY <1>2, <2>2 DEF IsLast, Adjoining
  <2> QED BY <2>1, <2>2, Zenon
<1>7. ASSUME NEW v \in rest
      PROVE  Img(v).expired = LsnMax \/ \E u \in Pop(vs, l) : u.created = Img(v).expired
  <2>1. CASE v.expired = l \/ v.expired = LsnMax
    BY <1>4, <1>5, <2>1, Zenon
  <2>2. CASE v.expired # l /\ v.expired # LsnMax
    <3>1. PICK w \in vs : w.created = v.expired
      BY <2>2, Zenon DEF Adjoining
    <3>2. w \in rest /\ Img(v) = v
      BY <2>2, <3>1, Zenon
    <3> QED BY <1>1, <1>4, <3>1, <3>2, Zenon
  <2> QED BY <2>1, <2>2, Zenon
<1> HIDE DEF Img
<1>8. Adjoining(Pop(vs, l))
  <2> SUFFICES ASSUME NEW u \in Pop(vs, l), NEW w \in Pop(vs, l)
               PROVE  /\ u.created < u.expired
                      /\ u.expired = LsnMax \/ \E x \in Pop(vs, l) : x.created = u.expired
                      /\ u.created = w.created => u = w
                      /\ u.created < w.created => u.expired <= w.created
    BY Zenon DEF Adjoining
  <2>1. PICK v \in rest : u = Img(v)
    BY <1>1, Zenon
  <2>2. PICK x \in rest : w = Img(x)
    BY <1>1, Zenon
  <2> QED BY <1>4, <1>6, <1>7, <2>1, <2>2, Zenon
<1> QED BY <1>1, <1>4, <1>8

\* rollback_writes of one key removes only the failed commit's own version.
LEMMA UndoStep ==
  ASSUME TypeOK, TypeOK', PipelineInv, LockInv, NEW t \in Txns, NEW k \in Keys, UndoKey(t, k)
  PROVE  /\ PipelineInv'
         /\ \A u \in chain'[k] : \E v \in chain[k] : u.created = v.created
<1> USE ConstAssumption DEF Committers, AllKeys
<1>1. /\ pc[t] = "undo" /\ k \in writes[t] /\ OursIsLast(k, lsn[t])
      /\ UNCHANGED <<pc, visible, installOrder, writes, counter, base, lsn, snapshot>>
      /\ chain'[k] = Pop(chain[k], lsn[t])
      /\ \A j \in AllKeys : j # k => chain'[j] = chain[j]
  BY Zenon DEF UndoKey, beginVars, lsnVars, TypeOK
<1>2. /\ chain[k] \in SUBSET Version /\ lsn[t] \in Lsn /\ visible \in Nat
      /\ \A c \in Committers : lsn[c] \in Nat /\ base[c] \in Nat
      /\ \A v \in chain[k] : v.created \in Nat
  BY DEF TypeOK, Version, Lsn
<1>3. t \in InFlight /\ t \in Numbered
  BY <1>1, Zenon DEF InFlight, Numbered
<1>4. visible < lsn[t] /\ lsn[t] < LsnMax /\ visible < LsnMax
  BY <1>2, <1>3 DEF PipelineInv, LsnInv, TurnInv, TypeOK, Lsn
<1>5. \A v \in chain[k] : v.created <= lsn[t]
  BY <1>1, Zenon DEF OursIsLast, IsLast
<1>6. /\ \A v \in chain[k] : v.created # lsn[t] => \E u \in chain'[k] :
           u.created = v.created /\ (u.expired = v.expired \/ u.expired = LsnMax)
      /\ \A u \in chain'[k] : u.created # lsn[t] /\ \E v \in chain[k] : u.created = v.created
      /\ Adjoining(chain'[k])
  <2>1. Adjoining(chain[k]) /\ lsn[t] < LsnMax
    BY <1>4, Zenon DEF PipelineInv, ChainInv
  <2> QED BY <1>1, <1>2, <1>5, <2>1, PopFacts
<1>7. LsnInv' /\ TurnInv' /\ WinsInv'
  BY <1>1, Zenon DEF PipelineInv, LsnInv, TurnInv, WinsInv, InFlight, Numbered, Committed,
     MyTurn
<1>8. ChainInv'
  <2> SUFFICES ASSUME NEW j \in AllKeys PROVE Adjoining(chain'[j])
    BY Zenon DEF ChainInv
  <2>1. CASE j = k
    BY <1>6, <2>1, Zenon
  <2>2. CASE j # k
    <3>1. Adjoining(chain[j])
      BY Zenon DEF PipelineInv, ChainInv
    <3> QED BY <1>1, <2>2, <3>1, Zenon
  <2> QED BY <2>1, <2>2, Zenon
<1>9. PendingInv'
  <2>1. InFlight' = InFlight /\ \A c \in Committers, j \in AllKeys : Installer(c, j)' = Installer(c, j)
    BY <1>1, Zenon DEF InFlight, Installer, MyTurn
  <2>2. ASSUME NEW u \in chain'[k], u.created > visible
        PROVE  \E c \in InFlight : lsn[c] = u.created /\ Installer(c, k)
    <3>1. PICK v \in chain[k] : u.created = v.created
      BY <1>6, Zenon
    <3>2. v.created > visible
      BY <2>2, <3>1, Zenon
    <3>3. \E c \in InFlight : lsn[c] = v.created /\ Installer(c, k)
      BY <3>2, Zenon DEF PipelineInv, PendingInv
    <3> QED BY <3>1, <3>3, Zenon
  <2>3. ASSUME NEW u \in chain'[k], u.created > visible PROVE IsLast(u, chain'[k])
    <3>1. PICK v \in chain[k] : u.created = v.created
      BY <1>6, Zenon
    <3>2. \A w \in chain[k] : w.created <= u.created
      BY <2>3, <3>1, Zenon DEF PipelineInv, PendingInv, IsLast
    <3> QED BY <1>6, <3>2, Zenon DEF IsLast
  <2> QED BY <1>1, <2>1, <2>2, <2>3 DEF PipelineInv, PendingInv, InFlight
<1>10. InstallInv'
  BY <1>1, Zenon DEF LockInv, InstallInv
<1>11. KeptInv'
  <2>1. ASSUME NEW a \in Txns, pc[a] \in Kept, k \in writes[a] PROVE InTheWay(a, k)'
    <3>1. PICK v \in chain[k] : /\ lsn[a] <= v.created /\ visible < v.expired
                                /\ v.created <= visible \/ v.created = lsn[a]
      BY <2>1, Zenon DEF PipelineInv, KeptInv, InTheWay
    <3>2. lsn[a] # lsn[t]
      <4>1. a \in Numbered /\ a # t
        BY <1>1, <2>1, Zenon DEF Kept, Numbered, InFlight, Committed
      <4> QED BY <1>2, <1>3, <4>1 DEF PipelineInv, LsnInv
    <3>3. v.created # lsn[t]
      BY <1>2, <1>4, <3>1, <3>2
    <3>4. PICK u \in chain'[k] : u.created = v.created /\ (u.expired = v.expired \/ u.expired = LsnMax)
      BY <1>6, <3>3, Zenon
    <3> QED BY <1>1, <1>4, <3>1, <3>4, Zenon DEF InTheWay
  <2>2. ASSUME NEW a \in Txns, NEW j \in writes[a], j # k PROVE InTheWay(a, j)' = InTheWay(a, j)
    BY <1>1, <2>2, Zenon DEF InTheWay, TypeOK
  <2> QED BY <1>1, <2>1, <2>2, Zenon DEF PipelineInv, KeptInv
<1> QED BY <1>6, <1>7, <1>8, <1>9, <1>10, <1>11, Zenon DEF PipelineInv

\* commit_gate and checkpoint_lock exclude after every step.
LEMMA LockStep ==
  ASSUME TypeOK, LockInv, [Next]_vars
  PROVE  LockInv'
<1> USE ConstAssumption DEF Committers, LockInv, Goto, TypeOK, Span
<1>1. ASSUME NEW t \in Txns, BeginStep(t) \/ Abort(t) PROVE LockInv'
  BY <1>1 DEF BeginStep, BeginBump, BeginSentinel, BeginLoad, BeginPublish, Abort
<1>2. ASSUME NEW t \in Txns, TxnCommitStep(t) PROVE LockInv'
  <2>1. CASE CommitNoop(t) \/ Conflict(t) \/ DeltaBuilderError(t)
    BY <2>1 DEF CommitNoop, Conflict, DeltaBuilderError
  <2>2. CASE ValidateAndAllocate(t)
    BY <2>2, Zenon DEF ValidateAndAllocate, GateFree
  <2>3. CASE ReleaseGate(t) \/ Build(t) \/ EndUndo(t)
    BY <2>3 DEF ReleaseGate, Build, EndUndo
  <2>4. CASE \E k \in Keys : InstallKey(t, k) \/ UndoKey(t, k)
    BY <2>4 DEF InstallKey, UndoKey
  <2> QED BY <1>2, <2>1, <2>2, <2>3, <2>4, Zenon DEF TxnCommitStep
<1>3. ASSUME NEW t \in Txns, NEW k \in Keys, Write(t, k) PROVE LockInv'
  BY <1>3, Zenon DEF Write
<1>4. ASSUME NEW m \in Smos, IndexAllocate(m) PROVE LockInv'
  BY <1>4, Zenon DEF IndexAllocate
<1>5. ASSUME NEW c \in Committers, EnterCommit(c) \/ PipelineStep(c) PROVE LockInv'
  <2>1. CASE EnterCommit(c) \/ WalOk(c) \/ WalFail(c) \/ Publish(c)
    BY <2>1 DEF EnterCommit, WalOk, WalFail, Publish
  <2>2. CASE BeginUndo(c)
    BY <2>2, Zenon DEF BeginUndo, GateFree
  <2>3. CASE Advance(c) \/ Retire(c)
    BY <2>3 DEF Advance, Retire
  <2>4. CASE \E k \in SysKeys : ApplySide(c, k)
    BY <2>4 DEF ApplySide
  <2> QED BY <1>5, <2>1, <2>2, <2>3, <2>4, Zenon DEF PipelineStep
<1>6. CASE Freeze \/ Unfreeze
  BY <1>6, Zenon DEF Freeze, Unfreeze
<1>7. CASE GcStep
  <2>1. UNCHANGED <<pc, frozen>>
    BY <1>7, Zenon DEF GcStep, GcStart, GcFence, GcLoadVisible, GcEnd, GcVisit, GcReclaim
  <2> QED BY <2>1, Zenon
<1>8. CASE UNCHANGED vars
  BY <1>8, Zenon DEF vars
<1> QED BY <1>1, <1>2, <1>3, <1>4, <1>5, <1>6, <1>7, <1>8, Zenon DEF Next

\* Snapshots, active-map entries and gc anchors stay at or below the watermark
\* as long as the watermark does not go back.
LEMMA FloorStep ==
  ASSUME TypeOK, TypeOK', FloorInv, [Next]_vars, visible <= visible'
  PROVE  FloorInv'
<1> USE ConstAssumption DEF Committers, Lsn
<1>0. /\ visible \in Nat /\ visible' \in Nat /\ gcFloor \in Nat /\ gcAnchor \in Nat
      /\ \A t \in Txns : snapshot[t] \in Nat /\ slot[t] \in Nat
  BY DEF TypeOK
<1>1. CASE UNCHANGED <<snapshot, slot, gcFloor, gcAnchor>>
  BY <1>0, <1>1 DEF FloorInv
<1>2. ASSUME NEW t \in Txns, BeginStep(t) PROVE FloorInv'
  <2>1. CASE BeginBump(t) \/ BeginSentinel(t)
    BY <1>0, <2>1 DEF FloorInv, BeginBump, BeginSentinel, gcVars, TypeOK
  <2>2. CASE BeginLoad(t) \/ BeginPublish(t)
    BY <1>0, <2>2 DEF FloorInv, BeginLoad, BeginPublish, gcVars, TypeOK
  <2> QED BY <1>2, <2>1, <2>2, Zenon DEF BeginStep
<1>3. ASSUME NEW t \in Txns, GcVisit(t) PROVE FloorInv'
  BY <1>0, <1>3, Zenon DEF FloorInv, GcVisit, beginVars
<1>4. CASE GcStart \/ GcFence \/ GcLoadVisible \/ GcEnd
  <2>1. /\ UNCHANGED <<snapshot, slot>> /\ (gcFloor' = gcFloor \/ gcFloor' = LsnMax)
        /\ \/ gcAnchor' = gcAnchor \/ gcAnchor' = 0 \/ gcAnchor' = visible
           \/ gcAnchor' = gcFloor /\ gcFloor # LsnMax
    BY <1>4, Zenon DEF GcStart, GcFence, GcLoadVisible, GcEnd, beginVars
  <2>2. gcAnchor' <= visible'
    BY <1>0, <2>1 DEF FloorInv
  <2>3. gcFloor' = LsnMax \/ gcFloor' <= visible'
    BY <1>0, <2>1 DEF FloorInv
  <2>4. \A t \in Txns : snapshot'[t] <= visible' /\ (slot'[t] = LsnMax \/ slot'[t] <= visible')
    BY <1>0, <2>1 DEF FloorInv
  <2> QED BY <2>2, <2>3, <2>4, Zenon DEF FloorInv
<1> USE DEF beginVars, gcVars
<1>5. ASSUME NEW t \in Txns, Abort(t) \/ TxnCommitStep(t)
      PROVE  UNCHANGED <<snapshot, slot, gcFloor, gcAnchor>>
  BY <1>5, Zenon DEF Abort, TxnCommitStep, CommitNoop, Conflict, DeltaBuilderError,
              ValidateAndAllocate, ReleaseGate, Build, EndUndo, InstallKey, UndoKey
<1>6. ASSUME NEW c \in Committers, EnterCommit(c) \/ PipelineStep(c) \/ IndexAllocate(c)
      PROVE  UNCHANGED <<snapshot, slot, gcFloor, gcAnchor>>
  BY <1>6, Zenon DEF EnterCommit, PipelineStep, IndexAllocate, WalOk, WalFail, Publish, BeginUndo,
              Advance, Retire, ApplySide
<1>7. ASSUME NEW t \in Txns, NEW k \in Keys, Write(t, k)
      PROVE  UNCHANGED <<snapshot, slot, gcFloor, gcAnchor>>
  BY <1>7, Zenon DEF Write
<1>8. CASE Freeze \/ Unfreeze \/ UNCHANGED vars \/ \E k \in AllKeys : GcReclaim(k)
  <2>1. UNCHANGED <<snapshot, slot, gcFloor, gcAnchor>>
    BY <1>8, Zenon DEF Freeze, Unfreeze, vars, GcReclaim
  <2> QED BY <1>1, <2>1, Zenon
<1> QED BY <1>1, <1>2, <1>3, <1>4, <1>5, <1>6, <1>7, <1>8, Zenon DEF Next, GcStep, AllKeys
=============================================================================
