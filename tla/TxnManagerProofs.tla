-------------------------- MODULE TxnManagerProofs --------------------------
(***************************************************************************)
(* The inductive invariant of TxnInvariant holds of TxnManager for every   *)
(* value of its constants, and from it follow commit atomicity,            *)
(* first-committer-wins, the clean checkpoint freeze, monotone watermarks  *)
(* and sorted chains.                                                      *)
(***************************************************************************)
EXTENDS TxnStepProofs

\* A leaf that names no prover goes to the SMT solver; the limit is generous, so
\* that a proof does not depend on how busy the machine is.
USE SMTT(60)

\* A version that was not in its chain before is above all that were.
Ascend ==
  \A k \in AllKeys : \A v \in chain'[k] :
    (\A w \in chain[k] : w.created # v.created) => \A w \in chain[k] : w.created < v.created

\* What the step lemmas establish together.
Good == PipelineInv' /\ Ascend /\ visible <= visible' /\ installOrder <= installOrder'

\* Every step of the manager preserves the pipeline invariant, pushes upwards
\* and moves no watermark back: one case per action.
LEMMA GoodStep ==
  ASSUME TypeOK, TypeOK', PipelineInv, FloorInv, LockInv, [Next]_vars
  PROVE  Good
<1> USE ConstAssumption DEF Committers, AllKeys
<1>0. /\ visible \in Nat /\ installOrder \in Nat
      /\ \A k \in AllKeys : \A v \in chain[k] : v.created \in Nat
  BY DEF TypeOK, Lsn, Version
<1>a. ASSUME UNCHANGED <<chain, visible, installOrder>>, PipelineInv' PROVE Good
  BY <1>0, <1>a DEF Good, Ascend
<1>1. ASSUME NEW t \in Txns, BeginStep(t) \/ Abort(t) PROVE Good
  <2>1. PipelineInv' /\ UNCHANGED <<chain, visible, installOrder>>
    BY <1>1, QuietStep, Zenon DEF BeginStep, BeginBump, BeginSentinel, BeginLoad, BeginPublish,
       Abort, Goto, Settled, lsnVars, TypeOK
  <2> QED BY <2>1, <1>a, Zenon
<1>2. ASSUME NEW t \in Txns, CommitNoop(t) \/ Conflict(t) \/ DeltaBuilderError(t) PROVE Good
  <2>1. PipelineInv' /\ UNCHANGED <<chain, visible, installOrder>>
    BY <1>2, QuietStep, Zenon DEF CommitNoop, Conflict, DeltaBuilderError, Goto, Settled,
       lsnVars, beginVars, TypeOK
  <2> QED BY <2>1, <1>a, Zenon
<1>3. ASSUME NEW t \in Txns, NEW k \in Keys, Write(t, k) PROVE Good
  <2>1. PipelineInv' /\ UNCHANGED <<chain, visible, installOrder>>
    BY <1>3, QuietStep, Zenon DEF Write, Settled, lsnVars, beginVars, TypeOK
  <2> QED BY <2>1, <1>a, Zenon
<1>4. ASSUME NEW c \in Committers, EnterCommit(c) \/ Retire(c) PROVE Good
  <2>1. PipelineInv' /\ UNCHANGED <<chain, visible, installOrder>>
    BY <1>4, QuietStep, Zenon DEF EnterCommit, Retire, Goto, Settled, lsnVars, beginVars, TypeOK
  <2> QED BY <2>1, <1>a, Zenon
<1>5. CASE Freeze \/ Unfreeze \/ UNCHANGED vars
  <2>1. PipelineInv' /\ UNCHANGED <<chain, visible, installOrder>>
    BY <1>5, QuietStep, Zenon DEF Freeze, Unfreeze, vars, lsnVars, beginVars
  <2> QED BY <2>1, <1>a, Zenon
<1>6. CASE GcStart \/ GcFence \/ GcLoadVisible \/ GcEnd \/ \E t \in Txns : GcVisit(t)
  <2>1. PipelineInv' /\ UNCHANGED <<chain, visible, installOrder>>
    BY <1>6, QuietStep, Zenon DEF GcStart, GcFence, GcLoadVisible, GcEnd, GcVisit, lsnVars,
       beginVars
  <2> QED BY <2>1, <1>a, Zenon
<1>7. ASSUME NEW t \in Txns, ValidateAndAllocate(t) PROVE Good
  BY <1>7, <1>a, ValidateStep, Zenon DEF ValidateAndAllocate
<1>8. ASSUME NEW m \in Smos, IndexAllocate(m) PROVE Good
  BY <1>8, <1>a, IndexAllocateStep, Zenon DEF IndexAllocate
<1>9. ASSUME NEW t \in Txns, NEW k \in Keys, InstallKey(t, k) PROVE Good
  <2>1. PipelineInv' /\ \A v \in chain[k] : v.created < lsn[t]
    BY <1>9, InstallStep, Zenon
  <2>2. \A v \in chain'[k] : (\A w \in chain[k] : w.created # v.created) => v.created = lsn[t]
    BY <1>9 DEF InstallKey, Push, Expire, TypeOK
  <2>3. UNCHANGED <<visible, installOrder>> /\ \A j \in AllKeys : j # k => chain'[j] = chain[j]
    BY <1>9, Zenon DEF InstallKey, TypeOK
  <2> QED BY <1>0, <2>1, <2>2, <2>3 DEF Good, Ascend
<1>10. ASSUME NEW c \in Committers, NEW k \in SysKeys, ApplySide(c, k) PROVE Good
  <2>1. PipelineInv' /\ \A v \in chain[k] : v.created < lsn[c]
    BY <1>10, ApplySideStep, Zenon
  <2>2. \A v \in chain'[k] : (\A w \in chain[k] : w.created # v.created) => v.created = lsn[c]
    BY <1>10 DEF ApplySide, Push, Expire, TypeOK
  <2>3. UNCHANGED <<visible, installOrder>> /\ \A j \in AllKeys : j # k => chain'[j] = chain[j]
    BY <1>10, Zenon DEF ApplySide, TypeOK
  <2> QED BY <1>0, <2>1, <2>2, <2>3 DEF Good, Ascend
<1>11. ASSUME NEW t \in Txns, ReleaseGate(t) \/ Build(t) PROVE Good
  <2>1. PICK l \in {"build", "append", "failed"} :
          /\ Goto(t, l) /\ pc[t] \in {"install", "build"}
          /\ pc[t] = "install" => \A k \in writes[t] : Holds(k, lsn[t])
          /\ UNCHANGED <<visible, installOrder, chain, writes, counter, base, lsn, snapshot>>
    BY <1>11, Zenon DEF ReleaseGate, Build, beginVars, lsnVars
  <2>2. t \in InFlight /\ l \in Pcs
    BY <2>1, Zenon DEF InFlight, Pcs, Span
  <2> QED BY <1>a, <2>1, <2>2, MoveStep, Zenon DEF Kept
<1>12. ASSUME NEW c \in Committers, WalOk(c) \/ WalFail(c) PROVE Good
  <2>1. PICK l \in {"turn", "failed"} :
          /\ Goto(c, l) /\ pc[c] = "append"
          /\ UNCHANGED <<visible, installOrder, chain, writes, counter, base, lsn, snapshot>>
    BY <1>12, Zenon DEF WalOk, WalFail, beginVars, lsnVars
  <2>2. c \in InFlight /\ l \in Pcs
    BY <2>1, Zenon DEF InFlight, Pcs, Span
  <2> QED BY <1>a, <2>1, <2>2, MoveStep, Zenon DEF Kept
<1>13. ASSUME NEW c \in Committers, BeginUndo(c) PROVE Good
  <2>1. PICK l \in {"undo", "undone"} :
          /\ Goto(c, l) /\ pc[c] = "failed" /\ MyTurn(c) /\ (l = "undone" => c \notin Txns)
          /\ UNCHANGED <<visible, installOrder, chain, writes, counter, base, lsn, snapshot>>
    BY <1>13, Zenon DEF BeginUndo, beginVars, lsnVars
  <2>2. c \in InFlight /\ l \in Pcs
    BY <2>1, Zenon DEF InFlight, Pcs, Span
  <2> QED BY <1>a, <2>1, <2>2, MoveStep, Zenon DEF Kept
<1>14. ASSUME NEW t \in Txns, EndUndo(t) PROVE Good
  <2>1. /\ Goto(t, "undone") /\ pc[t] = "undo"
        /\ UNCHANGED <<visible, installOrder, chain, writes, counter, base, lsn, snapshot>>
    BY <1>14, Zenon DEF EndUndo, beginVars, lsnVars
  <2>2. t \in InFlight /\ t \in Numbered /\ "undone" \in Pcs /\ MyTurn(t)
    BY <2>1, Zenon DEF InFlight, Numbered, Pcs, Span, PipelineInv, TurnInv
  <2>3. visible < lsn[t] /\ lsn[t] \in Nat
    BY <1>0, <2>2 DEF PipelineInv, TurnInv, LsnInv, TypeOK, Lsn
  <2>4. \A k \in writes[t] : ~Holds(k, lsn[t])
    <3> SUFFICES ASSUME NEW k \in writes[t], NEW v \in chain[k], v.created = lsn[t] PROVE FALSE
      BY Zenon DEF Holds
    <3>1. k \in Keys
      BY Zenon DEF TypeOK
    <3>2. IsLast(v, chain[k])
      BY <1>0, <2>3, <3>1, Zenon DEF PipelineInv, PendingInv
    <3> QED BY <1>14, <3>2, Zenon DEF EndUndo, OursIsLast
  <2> QED BY <1>a, <2>1, <2>2, <2>4, MoveStep, Zenon DEF Kept
<1>15. ASSUME NEW t \in Txns, NEW k \in Keys, UndoKey(t, k) PROVE Good
  <2>1. PipelineInv' /\ \A u \in chain'[k] : \E v \in chain[k] : u.created = v.created
    BY <1>15, UndoStep, Zenon
  <2>2. UNCHANGED <<visible, installOrder>> /\ \A j \in AllKeys : j # k => chain'[j] = chain[j]
    BY <1>15, Zenon DEF UndoKey, TypeOK
  <2> QED BY <1>0, <2>1, <2>2 DEF Good, Ascend
<1>16. ASSUME NEW c \in Committers, Publish(c) PROVE Good
  <2>1. PipelineInv' /\ visible < visible'
    BY <1>16, PublishStep, Zenon
  <2>2. UNCHANGED <<chain, installOrder>>
    BY <1>16, Zenon DEF Publish
  <2>3. visible' \in Nat
    BY DEF TypeOK, Lsn
  <2> QED BY <1>0, <2>1, <2>2, <2>3 DEF Good, Ascend
<1>17. ASSUME NEW c \in Committers, Advance(c) PROVE Good
  <2>1. PipelineInv' /\ installOrder <= installOrder' /\ UNCHANGED <<chain, visible>>
    BY <1>17, AdvanceStep, Zenon DEF Advance
  <2> QED BY <1>0, <2>1 DEF Good, Ascend
<1>18. ASSUME NEW k \in AllKeys, GcReclaim(k) PROVE Good
  <2>1. PipelineInv' /\ UNCHANGED <<visible, installOrder>>
    BY <1>18, ReclaimStep, Zenon DEF GcReclaim
  <2>2. \A j \in AllKeys : chain'[j] \subseteq chain[j]
    BY <1>18, Zenon DEF GcReclaim, Retain, TypeOK
  <2> QED BY <1>0, <2>1, <2>2 DEF Good, Ascend
<1> QED
  BY <1>1, <1>2, <1>3, <1>4, <1>5, <1>6, <1>7, <1>8, <1>9, <1>10, <1>11, <1>12, <1>13, <1>14,
     <1>15, <1>16, <1>17, <1>18, Zenon DEF Next, TxnCommitStep, PipelineStep, GcStep

\* A fresh manager satisfies the inductive invariant.
LEMMA InvInit == Init => IInv
<1> SUFFICES ASSUME Init PROVE IInv
  BY Zenon
<1> USE ConstAssumption DEF Init, Committers, AllKeys
<1>1. TypeOK
  BY TypeInit, Zenon
<1>2. InFlight = {} /\ Numbered = {}
  BY Zenon DEF InFlight, Numbered, Committed
<1>3. LsnInv
  BY <1>2 DEF LsnInv
<1>4. TurnInv
  BY <1>2, Zenon DEF TurnInv
<1>5. FloorInv /\ LockInv
  BY DEF FloorInv, LockInv
<1>6. ChainInv /\ PendingInv
  BY Zenon DEF ChainInv, Adjoining, PendingInv
<1>7. InstallInv /\ KeptInv /\ WinsInv
  BY Zenon DEF InstallInv, KeptInv, WinsInv, Kept
<1> QED BY <1>1, <1>3, <1>4, <1>5, <1>6, <1>7, Zenon DEF IInv

\* The invariant is inductive.
LEMMA InvStep == IInv /\ [Next]_vars => IInv'
<1> SUFFICES ASSUME IInv, [Next]_vars PROVE IInv'
  BY Zenon
<1>1. TypeOK /\ FloorInv /\ LockInv /\ PipelineInv
  BY Zenon DEF IInv, PipelineInv
<1>2. TypeOK'
  BY <1>1, TypeStep, Zenon
<1>3. Good
  BY <1>1, <1>2, GoodStep, Zenon
<1>4. LockInv'
  BY <1>1, LockStep, Zenon
<1>5. FloorInv'
  BY <1>1, <1>2, <1>3, FloorStep, Zenon DEF Good
<1> QED BY <1>2, <1>3, <1>4, <1>5, Zenon DEF Good, PipelineInv, IInv

\* The inductive invariant holds in every reachable state, for any number of
\* transactions, index operations, keys and interleavings, with WAL failures,
\* rollbacks, checkpoint freezes and gc.
THEOREM Invariance == Spec => []IInv
BY InvInit, InvStep, PTL DEF Spec

\* Commit atomicity (transaction.rs, Phase 3): a commit that has an LSN and is
\* not published is above the watermark, hence in no snapshot, and no successor
\* overtakes it in the install order.
THEOREM CommitAtomicity == Spec => []UnpublishedInvisible
<1>1. IInv => UnpublishedInvisible
  <2> SUFFICES ASSUME IInv, NEW c \in InFlight PROVE visible < lsn[c] /\ installOrder < base[c]
    BY Zenon DEF UnpublishedInvisible
  <2>1. c \in Committers /\ c \in Numbered
    BY Zenon DEF InFlight, Numbered
  <2>2. visible < base[c] /\ base[c] <= lsn[c] /\ installOrder < base[c]
    BY <2>1, Zenon DEF IInv, TurnInv, LsnInv
  <2>3. visible \in Int /\ base[c] \in Int /\ lsn[c] \in Int
    BY <2>1, ConstAssumption DEF IInv, TypeOK, Lsn
  <2> QED BY <2>2, <2>3
<1> QED BY Invariance, <1>1, PTL

\* First-committer-wins OCC (Phase 1): of two committed writers of a key, one
\* had the other in its snapshot; silent installs, rollbacks and gc in between
\* cannot make validation miss a committed writer.
THEOREM NoLostUpdate == Spec => []FirstCommitterWins
<1>1. IInv => FirstCommitterWins
  BY Zenon DEF IInv, WinsInv, FirstCommitterWins, Committed, Kept
<1> QED BY Invariance, <1>1, PTL

\* checkpoint_freeze: while the freeze is held, every version of every chain is
\* published and no version is left expired by an unfinished commit.
THEOREM FreezeIsClean == Spec => []FreezeSeesOnlyPublished
<1>1. IInv => FreezeSeesOnlyPublished
  <2> SUFFICES ASSUME IInv, frozen, NEW k \in AllKeys, NEW v \in chain[k]
               PROVE  v.created <= visible /\ (v.expired <= visible \/ v.expired = LsnMax)
    BY Zenon DEF FreezeSeesOnlyPublished
  <2>1. InFlight = {}
    BY Zenon DEF IInv, LockInv, InFlight, Span
  <2>2. \A w \in chain[k] : ~(w.created > visible)
    BY <2>1, Zenon DEF IInv, PendingInv
  <2>3. visible \in Int /\ \A w \in chain[k] : w.created \in Int
    BY ConstAssumption DEF IInv, TypeOK, Lsn, Version
  <2>4. \A w \in chain[k] : w.created <= visible
    BY <2>2, <2>3
  <2>5. v.expired = LsnMax \/ \E w \in chain[k] : w.created = v.expired
    BY Zenon DEF IInv, ChainInv, Adjoining
  <2> QED BY <2>4, <2>5, Zenon
<1> QED BY Invariance, <1>1, PTL

\* Every step from a state of the invariant is a good one.
LEMMA GoodAlways ==
  ASSUME IInv, [Next]_vars PROVE Good
<1>1. TypeOK /\ FloorInv /\ LockInv /\ PipelineInv
  BY Zenon DEF IInv, PipelineInv
<1>2. TypeOK'
  BY <1>1, TypeStep, Zenon
<1> QED BY <1>1, <1>2, GoodStep, Zenon

\* visible and install_order never go back, although Publish stores its own LSN
\* without comparing it with the current value.
THEOREM WatermarksNeverRegress == Spec => Monotone
<1>1. IInv /\ [Next]_vars => [visible' >= visible /\ installOrder' >= installOrder]_vars
  <2> SUFFICES ASSUME IInv, [Next]_vars
               PROVE  visible' >= visible /\ installOrder' >= installOrder
    BY Zenon
  <2>1. visible <= visible' /\ installOrder <= installOrder'
    BY GoodAlways, Zenon DEF Good
  <2> QED BY <2>1, Zenon
<1> QED BY Invariance, <1>1, PTL DEF Spec, Monotone

\* Every push is above all versions of its chain: the Vec is sorted by created
\* LSN, which justifies modelling it as a set and the reverse scan of read_at.
THEOREM ChainsStaySorted == Spec => PushesAscend
<1>1. IInv /\ [Next]_vars => [Ascend]_vars
  BY GoodAlways, Zenon DEF Good
<1> QED BY Invariance, <1>1, PTL DEF Spec, PushesAscend, Ascend
=============================================================================
