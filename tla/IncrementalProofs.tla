------------------------- MODULE IncrementalProofs -------------------------
(***************************************************************************)
(* The page tier, for any number of pages, commits, passes and faults.     *)
(***************************************************************************)
EXTENDS IncrementalInvariant, TLAPS

\* A leaf that names no prover goes to the SMT solver.
USE SMTT(60)

\* The LSNs that a new commit takes follow the last one.
NewRecord(b) ==
  /\ b \in Records /\ b.first = clock + 1 /\ clock + 1 <= b.lsn
  /\ \A o \in b.ops : clock + 1 <= o.lsn /\ o.lsn <= b.lsn
  /\ \A o, q \in b.ops : o.lsn = q.lsn => o = q

LEMMA BundleIsNew ==
  ASSUME TypeInv, NEW b \in Bundles, b.lsn <= MaxLsn
  PROVE  NewRecord(b)
<1>1. clock \in Nat /\ MaxLsn \in Nat /\ live \subseteq Pages
  BY ConstAssumption DEF TypeInv, CommitType, Marks
<1>2. CASE \E p \in Pages : b = Bundle(clock + 2, {Op(clock + 1, p, "alloc"), Op(clock + 2, p, "put")})
  BY <1>1, <1>2 DEF NewRecord, Bundle, Op, Records, Ops, Lsns
<1>3. CASE \E p \in Pages : b = Bundle(clock + 1, {Op(clock + 1, p, "put")})
  BY <1>1, <1>3 DEF NewRecord, Bundle, Op, Records, Ops, Lsns
<1>4. CASE \E p, q \in Pages : b = Bundle(clock + 2, {Op(clock + 1, p, "put"), Op(clock + 2, q, "put")})
  BY <1>1, <1>4 DEF NewRecord, Bundle, Op, Records, Ops, Lsns
<1>5. \A x \in live \X live : x[1] \in Pages /\ x[2] \in Pages
  BY <1>1
<1> QED BY <1>1, <1>2, <1>3, <1>4, <1>5, Zenon DEF Bundles
-----------------------------------------------------------------------------
\* Which actions change which variables.
LEMMA CommitSteps ==
  Next => \/ UNCHANGED commitVars
          \/ Allocate \/ Turn \/ DrainFront \/ DrainStop \/ ApplyOrDefer \/ ApplyFront
          \/ ApplyOwn \/ CkDrain \/ CkDrained \/ Crash \/ RedoDone
BY Zenon DEF Next, CommitStep, CheckpointStep, LogAppend, LogSync, CkBegin, CkFlush,
   CkSnapshot, CkCopy, CkCopied, CkStage, CkHome, CkComplete, CkCapture, CkMetadata,
   CkHorizon, CkSidecar, CkReclaim, CkDone, CkIoError, RedoDelta, RedoPage

LEMMA PageSteps ==
  Next => \/ UNCHANGED pageVars
          \/ ApplyFront \/ ApplyOwn \/ CkComplete \/ CkIoError \/ Crash \/ RedoDelta
BY Zenon DEF Next, CommitStep, CheckpointStep, Allocate, LogAppend, LogSync, Turn,
   DrainFront, DrainStop, ApplyOrDefer, CkBegin, CkFlush, CkDrain, CkDrained,
   CkSnapshot, CkCopy, CkCopied, CkStage, CkHome, CkCapture, CkMetadata,
   CkHorizon, CkSidecar, CkReclaim, CkDone, RedoDone

LEMMA WalSteps ==
  Next => \/ UNCHANGED walVars
          \/ LogAppend \/ LogSync \/ CkFlush \/ CkReclaim \/ Crash
BY Zenon DEF Next, CommitStep, CheckpointStep, Allocate, Turn,
   DrainFront, DrainStop, ApplyOrDefer, ApplyFront, ApplyOwn, CkBegin, CkDrain, CkDrained,
   CkSnapshot, CkCopy, CkCopied, CkStage, CkHome, CkComplete, CkCapture, CkMetadata,
   CkHorizon, CkSidecar, CkDone, CkIoError, RedoDelta, RedoDone

LEMMA DiskSteps ==
  Next => \/ UNCHANGED diskVars
          \/ CkStage \/ CkHome \/ CkSidecar \/ CkIoError \/ Crash
BY Zenon DEF Next, CommitStep, CheckpointStep, Allocate, LogAppend, LogSync, Turn,
   DrainFront, DrainStop, ApplyOrDefer, ApplyFront, ApplyOwn, CkBegin, CkFlush, CkDrain,
   CkDrained, CkSnapshot, CkCopy, CkCopied, CkComplete, CkCapture, CkMetadata,
   CkHorizon, CkReclaim, CkDone, RedoDelta, RedoDone

LEMMA PassSteps ==
  Next => \/ UNCHANGED passVars
          \/ CheckpointStep \/ Crash
BY Zenon DEF Next, CommitStep, Allocate, LogAppend, LogSync, Turn,
   DrainFront, DrainStop, ApplyOrDefer, ApplyFront, ApplyOwn, RedoDelta, RedoDone

LEMMA ModeSteps ==
  Next => UNCHANGED modeVars \/ Crash \/ RedoDelta \/ RedoDone
BY Zenon DEF Next, CommitStep, CheckpointStep, Allocate, LogAppend, LogSync, Turn,
   DrainFront, DrainStop, ApplyOrDefer, ApplyFront, ApplyOwn, CkBegin, CkFlush, CkDrain,
   CkDrained, CkSnapshot, CkCopy, CkCopied, CkStage, CkHome, CkComplete, CkCapture,
   CkMetadata, CkHorizon, CkSidecar, CkReclaim, CkDone, CkIoError
-----------------------------------------------------------------------------
\* Types.
LEMMA Consts ==
  /\ MaxLsn \in Nat \ {0} /\ NumPages \in Nat \ {0} /\ MaxInflight \in Nat \ {0}
  /\ BatchPages \in Nat \ {0} /\ 1 \in Pages /\ NoPage \in Contents
BY ConstAssumption DEF Pages, NoPage, Contents, Lsns

\* What the sets of records are made of.
RecordType(b) == b \in Records /\ b.first \in Nat /\ b.lsn \in Marks /\ b.ops \in SUBSET Ops
CkType(s) ==
  /\ s.lsn \in Nat /\ s.lsn \in Marks /\ s.redo \in Nat /\ s.capture \in Nat
  /\ s.rec \in [Pages -> Marks]

LEMMA RecordTypes == \A b \in Records : RecordType(b)
BY Consts DEF RecordType, Records, Lsns, Marks

LEMMA Members ==
  ASSUME TypeInv
  PROVE  /\ \A i \in 1 .. Len(wal) : RecordType(wal[i].bundle) /\ wal[i].seg \in Nat
         /\ \A i \in 1 .. Len(inflight) : RecordType(inflight[i].bundle)
         /\ \A i \in 1 .. Len(deferred) : RecordType(deferred[i])
         /\ Len(wal) \in Nat /\ Len(inflight) \in Nat /\ Len(deferred) \in Nat
         /\ synced \in 0 .. Len(wal)
<1>1. wal \in Seq(Entries) /\ synced \in 0 .. Len(wal)
  BY Zenon DEF TypeInv, WalType
<1>2. inflight \in Seq(Flights) /\ deferred \in Seq(Records)
  BY Zenon DEF TypeInv, CommitType
<1>3. /\ \A i \in 1 .. Len(wal) : wal[i] \in Entries
      /\ \A i \in 1 .. Len(inflight) : inflight[i] \in Flights
      /\ \A i \in 1 .. Len(deferred) : deferred[i] \in Records
      /\ Len(wal) \in Nat /\ Len(inflight) \in Nat /\ Len(deferred) \in Nat
  BY <1>1, <1>2
<1>4. /\ \A e \in Entries : e.bundle \in Records /\ e.seg \in Nat
      /\ \A e \in Flights : e.bundle \in Records
  BY DEF Entries, Flights
<1> QED BY <1>1, <1>3, <1>4, RecordTypes, Zenon

LEMMA Sets ==
  ASSUME TypeInv
  PROVE  /\ \A b \in Known \cup Unsettled : RecordType(b)
         /\ Durable \subseteq Logged /\ Disk \subseteq Logged
<1>1. 1 .. synced \subseteq 1 .. Len(wal)
  BY Members
<1>2. Durable \subseteq Logged /\ Disk \subseteq Logged
  BY <1>1, Zenon DEF Durable, Logged, Disk, OnDisk
<1>3. \A b \in Logged : RecordType(b)
  BY Members, Zenon DEF Logged
<1>4. \A b \in InFlight : RecordType(b)
  BY Members, Zenon DEF InFlight
<1>5. \A b \in Queued : RecordType(b)
  BY Members, Zenon DEF Queued
<1> QED BY <1>2, <1>3, <1>4, <1>5, Zenon DEF Known, Unsettled

LEMMA CkTypes ==
  ASSUME TypeInv
  PROVE  CkType(sidecar) /\ CkType(meta)
<1>1. \A s \in Checkpoints : CkType(s)
  BY Consts DEF Checkpoints, CkType, Marks
<1> QED BY <1>1, Zenon DEF TypeInv, DiskType, PassType

LEMMA InitType == Init => TypeInv
<1> SUFFICES ASSUME Init PROVE TypeInv
  OBVIOUS
<1>1. CommitType
  BY Consts DEF Init, CommitType, Marks
<1>2. OnePage \in [Pages -> Contents]
  BY Consts DEF OnePage, NoPage, Contents, Lsns
<1>3. NoCheckpoint \in Checkpoints
  BY Consts DEF NoCheckpoint, Checkpoints, Marks
<1>4. DOMAIN NoBatch = {} /\ NoBatch \in [{} -> Contents]
  BY DEF NoBatch
<1>5. PageType
  BY <1>2, Consts DEF Init, PageType, Marks
<1>6. WalType
  BY DEF Init, WalType
<1>7. DiskType
  BY <1>2, <1>3, <1>4 DEF Init, DiskType
<1>8. PassType
  BY <1>3, <1>4, Consts DEF Init, PassType, Marks
<1>9. ModeType
  BY DEF Init, ModeType
<1> QED BY <1>1, <1>5, <1>6, <1>7, <1>8, <1>9 DEF TypeInv

\* One delta: the page's content, its recLSN and what is left.
LEMMA DeltaType ==
  ASSUME TypeInv, ApplyDelta
  PROVE  PageType' /\ work' \in SUBSET Ops
<1>1. PICK op \in work :
        /\ MarkDirty(op)
        /\ IF op.kind = "alloc" /\ cache[op.page] = NoPage
             THEN cache' = [cache EXCEPT ![op.page] = Fresh] /\ UNCHANGED work
             ELSE /\ cache' = [cache EXCEPT ![op.page] = Newer(cache[op.page], op)]
                  /\ work' = work \ {op}
  BY DEF ApplyDelta
<1>2. op \in Ops /\ work \in SUBSET Ops /\ PageType
  BY DEF TypeInv, CommitType
<1>3. op.page \in Pages /\ op.lsn \in Lsns /\ Lsns \subseteq Marks /\ op.lsn \in -2 .. MaxLsn
  BY <1>2, Consts DEF Ops, Lsns, Marks
<1>4. rec' \in [Pages -> Marks] /\ stale' \in SUBSET Pages
  BY <1>1, <1>2, <1>3 DEF MarkDirty, MarkedRec, PageType
<1>5. Fresh \in Contents
  BY Consts DEF Fresh, Contents
<1>6. cache[op.page] \in Contents
  BY <1>2, <1>3 DEF PageType
<1>7. Newer(cache[op.page], op) \in Contents
  BY <1>3, <1>6 DEF Newer, Contents
<1>8. cache' \in [Pages -> Contents]
  BY <1>1, <1>2, <1>3, <1>5, <1>7 DEF PageType
<1> QED BY <1>1, <1>2, <1>4, <1>8 DEF PageType

LEMMA CommitTypeStep == TypeInv /\ ApplyInv /\ Next => CommitType'
<1> SUFFICES ASSUME TypeInv, ApplyInv, Next PROVE CommitType'
  OBVIOUS
<1>1. CommitType
  BY DEF TypeInv
<1>2. CASE UNCHANGED commitVars
  BY <1>1, <1>2, Zenon DEF CommitType, commitVars
<1>3. CASE Allocate
  <2>1. PICK b \in Bundles, t \in Tiers :
          b.lsn <= MaxLsn /\ clock' = b.lsn /\ inflight' = Append(inflight, [bundle |-> b, tier |-> t])
    BY <1>3 DEF Allocate
  <2>2. NewRecord(b)
    BY <2>1, BundleIsNew
  <2>3. b \in Records /\ b.lsn \in Marks
    BY <2>2, Consts DEF NewRecord, Records, Lsns, Marks
  <2>4. [bundle |-> b, tier |-> t] \in Flights
    BY <2>3 DEF Flights
  <2>5. inflight' \in Seq(Flights) /\ Len(inflight') <= MaxInflight
    BY <1>1, <1>3, <2>1, <2>4, Consts DEF CommitType, Allocate
  <2> QED BY <1>1, <1>3, <2>1, <2>3, <2>5, Zenon DEF CommitType, Allocate
<1>4. CASE Turn \/ DrainStop \/ CkDrain \/ CkDrained
  BY <1>1, <1>4, Zenon DEF CommitType, Turn, DrainStop, CkDrain, CkDrained
<1>5. \A b \in Records : b.ops \in SUBSET Ops /\ b.lsn \in Marks
  BY Consts DEF Records, Lsns, Marks
<1>6. CASE DrainFront
  <2>1. deferred[1] \in Records
    BY <1>1, <1>6 DEF CommitType, DrainFront, FrontDurable
  <2> QED BY <1>1, <1>5, <1>6, <2>1, Zenon DEF CommitType, DrainFront
<1>7. \A b \in Records : Allocated(b) \in SUBSET Pages
  BY <1>5 DEF Allocated, Ops
<1>8. ASSUME inflight # <<>>
      PROVE  /\ inflight[1].bundle \in Records /\ Tail(inflight) \in Seq(Flights)
             /\ Len(Tail(inflight)) <= MaxInflight
  <2>1. inflight \in Seq(Flights) /\ Len(inflight) <= MaxInflight
    BY <1>1, Zenon DEF CommitType
  <2>2. inflight[1] \in Flights
    BY <1>8, <2>1
  <2>3. inflight[1].bundle \in Records
    BY <2>2 DEF Flights
  <2>4. Tail(inflight) \in Seq(Flights) /\ Len(Tail(inflight)) <= MaxInflight
    BY <1>8, <2>1, Consts
  <2> QED BY <2>3, <2>4
<1>9. ASSUME inflight # <<>>, Publish PROVE /\ visible' \in Marks /\ live' \in SUBSET Pages
        /\ inflight' \in Seq(Flights) /\ Len(inflight') <= MaxInflight /\ apc' = "idle"
  BY <1>1, <1>5, <1>7, <1>8, <1>9, Zenon DEF Publish, CommitType
<1>10. apc \in {"decide", "own"} => inflight # <<>>
  BY Zenon DEF ApplyInv
<1>11. CASE ApplyOrDefer
  <2>1. inflight # <<>> /\ inflight[1].bundle \in Records
    BY <1>8, <1>10, <1>11, Zenon DEF ApplyOrDefer
  <2>2. Append(deferred, inflight[1].bundle) \in Seq(Records)
    BY <1>1, <2>1 DEF CommitType
  <2>3. clock' = clock
    BY <1>11, Zenon DEF ApplyOrDefer
  <2>4. CASE deferred = <<>> /\ inflight[1].bundle \in Durable
    BY <1>1, <1>5, <1>11, <2>1, <2>3, <2>4, Zenon DEF CommitType, ApplyOrDefer
  <2>5. CASE ~(deferred = <<>> /\ inflight[1].bundle \in Durable)
    <3>1. Publish /\ work' = work /\ deferred' = Append(deferred, inflight[1].bundle)
      BY <1>11, <2>5, Zenon DEF ApplyOrDefer
    <3> QED BY <1>1, <1>9, <2>1, <2>2, <2>3, <3>1, Zenon DEF CommitType
  <2> QED BY <2>4, <2>5
<1>12. CASE ApplyFront
  <2>1. work' \in SUBSET Ops
    BY <1>12, DeltaType DEF ApplyFront
  <2>2. deferred # <<>>
    BY <1>12, Zenon DEF ApplyFront, ApplyInv
  <2>3. Tail(deferred) \in Seq(Records)
    BY <1>1, <2>2 DEF CommitType
  <2> QED BY <1>1, <1>12, <2>1, <2>3, Zenon DEF CommitType, ApplyFront
<1>13. CASE ApplyOwn
  <2>1. work' \in SUBSET Ops
    BY <1>13, DeltaType DEF ApplyOwn
  <2>2. CASE work' = {}
    <3>1. Publish /\ inflight # <<>> /\ clock' = clock /\ deferred' = deferred
      BY <1>10, <1>13, <2>2, Zenon DEF ApplyOwn
    <3> QED BY <1>1, <1>9, <2>1, <3>1, Zenon DEF CommitType
  <2>3. CASE work' # {}
    BY <1>1, <1>13, <2>1, <2>3, Zenon DEF CommitType, ApplyOwn
  <2> QED BY <2>2, <2>3
<1>14. CASE Crash
  <2>1. /\ inflight' = <<>> /\ deferred' = <<>> /\ apc' = "idle" /\ work' = {}
        /\ clock' = clock /\ visible' = visible /\ live' = live
    BY <1>14, Zenon DEF Crash
  <2> QED BY <1>1, <2>1, Consts DEF CommitType
<1>15. CASE RedoDone
  <2>1. /\ inflight' = inflight /\ deferred' = deferred /\ apc' = apc /\ work' = work
        /\ visible' = clock' /\ live' \in SUBSET Pages
    BY <1>15, Zenon DEF RedoDone
  <2>2. clock' \in {sidecar.lsn} \cup {b.lsn : b \in Disk}
    BY <1>15, Zenon DEF RedoDone, Disk
  <2>3. Disk \subseteq Records /\ sidecar.lsn \in Marks
    BY Sets, CkTypes, Zenon DEF Known, RecordType, CkType
  <2> QED BY <1>1, <1>5, <2>1, <2>2, <2>3, Zenon DEF CommitType
<1> QED BY <1>2, <1>3, <1>4, <1>6, <1>11, <1>12, <1>13, <1>14, <1>15, CommitSteps
\* What an interrupted stage or home write leaves is made of old and new pages.
Batch(d) == DOMAIN d \in SUBSET Pages /\ d \in [DOMAIN d -> Contents]

LEMMA LeftTypes ==
  ASSUME TypeInv
  PROVE  /\ \A h \in HomeLeft : h \in [Pages -> Contents]
         /\ \A d \in StageLeft : Batch(d)
         /\ \A h \in HomeLeft, d \in StageLeft : Restored(h, d) \in [Pages -> Contents]
<1>1. home \in [Pages -> Contents] /\ Batch(dwb) /\ Batch(image)
  BY Zenon DEF TypeInv, DiskType, PassType, Batch
<1>2. Batch(NoBatch)
  BY DEF Batch, NoBatch
<1>3. Torn \in Contents
  BY Consts DEF Torn, Contents
<1>4. ASSUME NEW h \in HomeLeft PROVE h \in [Pages -> Contents]
  <2>1. CASE cpc # "home"
    BY <1>1, <1>4, <2>1, Zenon DEF HomeLeft
  <2>2. CASE cpc = "home"
    <3>1. PICK o \in [DOMAIN image -> {"old", "new", "torn"}] :
            h = [p \in Pages |-> IF p \notin DOMAIN image \/ o[p] = "old" THEN home[p]
                                 ELSE IF o[p] = "new" THEN image[p] ELSE Torn]
      BY <1>4, <2>2, Zenon DEF HomeLeft
    <3>2. \A p \in Pages : home[p] \in Contents /\ (p \in DOMAIN image => image[p] \in Contents)
      BY <1>1, Zenon DEF Batch
    <3> QED BY <1>3, <3>1, <3>2
  <2> QED BY <2>1, <2>2
<1>5. ASSUME NEW d \in StageLeft PROVE Batch(d)
  BY <1>1, <1>2, <1>5, Zenon DEF StageLeft
<1>6. ASSUME NEW h \in HomeLeft, NEW d \in StageLeft PROVE Restored(h, d) \in [Pages -> Contents]
  <2>1. \A p \in Pages : h[p] \in Contents /\ (p \in DOMAIN d => d[p] \in Contents)
    BY <1>4, <1>5, <1>6, Zenon DEF Batch
  <2> QED BY <2>1 DEF Restored
<1> QED BY <1>4, <1>5, <1>6, Zenon

LEMMA PageTypeStep == TypeInv /\ Next => PageType'
<1> SUFFICES ASSUME TypeInv, Next PROVE PageType'
  OBVIOUS
<1>1. PageType /\ DiskType
  BY DEF TypeInv
<1>2. CASE UNCHANGED pageVars
  BY <1>1, <1>2, Zenon DEF PageType, pageVars
<1>3. CASE ApplyFront \/ ApplyOwn
  BY <1>3, DeltaType, Zenon DEF ApplyFront, ApplyOwn
<1>4. CASE CkComplete
  <2>1. rec' \in [Pages -> Marks]
    BY <1>1, <1>4, Consts DEF CkComplete, PageType, Marks
  <2> QED BY <1>1, <1>4, <2>1, Zenon DEF PageType, CkComplete
<1>5. CASE CkIoError
  BY <1>1, <1>5, Zenon DEF PageType, CkIoError, PassOver
<1>6. CASE Crash
  <2>1. cache' \in [Pages -> Contents]
    BY <1>6, LeftTypes, Zenon DEF Crash
  <2>2. rec' \in [Pages -> Marks] /\ stale' = {}
    BY <1>6, CkTypes, Zenon DEF Crash, PassOver, CkType
  <2> QED BY <2>1, <2>2, Zenon DEF PageType
<1>7. CASE RedoDelta
  <2>1. stale' = stale
    BY <1>7, Zenon DEF RedoDelta
  <2>2. CASE UNCHANGED <<cache, rec>>
    BY <1>1, <2>1, <2>2, Zenon DEF PageType
  <2>3. CASE ~UNCHANGED <<cache, rec>>
    <3>1. PICK op \in redo : \E c \in {[lsn |-> op.lsn, has |-> {op.lsn}], Newer(cache[op.page], op)} :
            RedoPage(op, c)
      BY <1>7, <2>3, Zenon DEF RedoDelta
    <3>2. op \in Ops
      BY Zenon DEF TypeInv, ModeType
    <3>3. op.page \in Pages /\ op.lsn \in Lsns /\ op.lsn \in Marks /\ op.lsn \in -2 .. MaxLsn
      BY <3>2, Consts DEF Ops, Lsns, Marks
    <3>4. cache[op.page] \in Contents
      BY <1>1, <3>3 DEF PageType
    <3>5. /\ [lsn |-> op.lsn, has |-> {op.lsn}] \in Contents
          /\ Newer(cache[op.page], op) \in Contents
      BY <3>3, <3>4 DEF Newer, Contents
    <3>6. PICK c \in Contents : RedoPage(op, c)
      BY <3>1, <3>5, Zenon
    <3>7. cache' \in [Pages -> Contents] /\ rec' \in [Pages -> Marks]
      BY <1>1, <3>3, <3>6 DEF PageType, RedoPage, MarkedRec
    <3> QED BY <1>1, <2>1, <3>7, Zenon DEF PageType
  <2> QED BY <2>2, <2>3
<1> QED BY <1>2, <1>3, <1>4, <1>5, <1>6, <1>7, PageSteps

LEMMA WalTypeStep == TypeInv /\ Next => WalType'
<1> SUFFICES ASSUME TypeInv, Next PROVE WalType'
  OBVIOUS
<1>1. WalType
  BY DEF TypeInv
<1>2. CASE UNCHANGED walVars
  BY <1>1, <1>2, Zenon DEF WalType, walVars
<1>3. CASE LogAppend
  <2>1. PICK i \in 1 .. Len(inflight) :
          \/ /\ wal' = Append(wal, Entry(inflight[i].bundle, seg))
             /\ UNCHANGED <<synced, seg>>
          \/ /\ wal' = Append(wal, Entry(inflight[i].bundle, seg + 1))
             /\ synced' = Len(wal) /\ seg' = seg + 1
    BY <1>3, Zenon DEF LogAppend
  <2>2. inflight[i].bundle \in Records
    BY Members, Zenon DEF RecordType
  <2>3. oldest' = oldest
    BY <1>3, Zenon DEF LogAppend
  <2>4. \A s \in Nat : Entry(inflight[i].bundle, s) \in Entries
    BY <2>2 DEF Entry, Entries
  <2> QED BY <1>1, <2>1, <2>3, <2>4 DEF WalType
<1>4. CASE LogSync \/ CkFlush
  <2>1. wal' = wal /\ seg' = seg /\ oldest' = oldest /\ synced' = Len(wal)
    BY <1>4, Zenon DEF LogSync, CkFlush
  <2> QED BY <1>1, <2>1 DEF WalType
<1>5. CASE CkReclaim
  <2>1. wal' = wal /\ seg' = seg /\ synced' = synced /\ oldest' = oldest + 1 /\ oldest < seg
    BY <1>5, Zenon DEF CkReclaim, Reclaimable
  <2> QED BY <1>1, <2>1 DEF WalType
<1>6. CASE Crash
  <2>1. PICK n \in synced .. Len(wal) : wal' = SubSeq(wal, 1, n) /\ synced' = n
    BY <1>6, Zenon DEF Crash
  <2>2. seg' = seg /\ oldest' = oldest
    BY <1>6, Zenon DEF Crash
  <2> QED BY <1>1, <2>1, <2>2 DEF WalType
<1> QED BY <1>2, <1>3, <1>4, <1>5, <1>6, WalSteps

LEMMA DiskTypeStep == TypeInv /\ Next => DiskType'
<1> SUFFICES ASSUME TypeInv, Next PROVE DiskType'
  OBVIOUS
<1>1. DiskType /\ PassType
  BY DEF TypeInv
<1>2. CASE UNCHANGED diskVars
  BY <1>1, <1>2, Zenon DEF DiskType, diskVars
<1>3. CASE CkStage \/ CkSidecar
  BY <1>1, <1>3, Zenon DEF DiskType, PassType, CkStage, CkSidecar
<1>4. CASE CkHome
  <2>1. home' \in [Pages -> Contents]
    BY <1>1, <1>4 DEF DiskType, PassType, CkHome
  <2> QED BY <1>1, <1>4, <2>1, Zenon DEF DiskType, CkHome
<1>5. CASE CkIoError \/ Crash
  <2>1. home' \in [Pages -> Contents] /\ Batch(dwb') /\ sidecar' = sidecar
    BY <1>5, LeftTypes, Zenon DEF CkIoError, Crash
  <2> QED BY <1>1, <2>1, Zenon DEF DiskType, Batch
<1> QED BY <1>2, <1>3, <1>4, <1>5, DiskSteps

LEMMA ModeTypeStep == TypeInv /\ Next => ModeType'
<1> SUFFICES ASSUME TypeInv, Next PROVE ModeType'
  OBVIOUS
<1>1. ModeType
  BY DEF TypeInv
<1>2. CASE UNCHANGED modeVars
  BY <1>1, <1>2, Zenon DEF ModeType, modeVars
<1>3. CASE Crash
  <2>1. PICK n \in synced .. Len(wal) : redo' = RedoOps(SubSeq(wal, 1, n))
    BY <1>3, Zenon DEF Crash
  <2>2. \A i \in 1 .. Len(SubSeq(wal, 1, n)) : i \in 1 .. Len(wal) /\ SubSeq(wal, 1, n)[i] = wal[i]
    BY <2>1 DEF TypeInv, WalType
  <2>3. OnDisk(SubSeq(wal, 1, n)) \subseteq Records
    BY <2>2, Members, Zenon DEF OnDisk, RecordType
  <2>4. redo' \in SUBSET Ops
    BY <2>1, <2>3, RecordTypes, Zenon DEF RedoOps, RecordType
  <2>5. mode' \in {"refused", "redo"}
    BY <1>3, Zenon DEF Crash
  <2> QED BY <2>4, <2>5, Zenon DEF ModeType
<1>4. CASE RedoDelta
  <2>1. redo' \subseteq redo /\ mode' \in {mode, "refused"}
    BY <1>4, Zenon DEF RedoDelta, RedoPage
  <2> QED BY <1>1, <2>1, Zenon DEF ModeType
<1>5. CASE RedoDone
  BY <1>1, <1>5, Zenon DEF ModeType, RedoDone
<1> QED BY <1>2, <1>3, <1>4, <1>5, ModeSteps

LEMMA PassTypeStep == TypeInv /\ Next => PassType'
<1> SUFFICES ASSUME TypeInv, Next PROVE PassType'
  OBVIOUS
<1>1. PassType
  BY DEF TypeInv
<1>2. CASE UNCHANGED passVars
  BY <1>1, <1>2, Zenon DEF PassType, passVars
<1>3. Batch(NoBatch) /\ NoCheckpoint \in Checkpoints /\ 0 \in Marks
  BY Consts DEF Batch, NoBatch, NoCheckpoint, Checkpoints, Marks
<1>4. visible \in Marks /\ clock \in Marks /\ rec \in [Pages -> Marks] /\ Dirty \in SUBSET Pages
  BY Zenon DEF TypeInv, CommitType, PageType, Dirty
<1>5. CASE CkBegin \/ CkFlush \/ CkDrain \/ CkDrained \/ CkCopied \/ CkStage \/ CkHome
             \/ CkHorizon \/ CkSidecar \/ CkReclaim
  <2>1. todo' = todo /\ meta' = meta /\ image' = image
    BY <1>5, Zenon DEF CkBegin, CkFlush, CkDrain, CkDrained, CkCopied, CkStage, CkHome,
       CkHorizon, CkSidecar, CkReclaim, passVars
  <2>2. horizon' \in Marks
    BY <1>1, <1>4, <1>5, Zenon DEF CkBegin, CkFlush, CkDrain, CkDrained, CkCopied, CkStage,
       CkHome, CkHorizon, CkSidecar, CkReclaim, PassType, passVars
  <2>3. cpc' \in {"flush", "drain", "drain2", "draining", "draining2", "snapshot", "sidecar",
                  "stage", "capture", "home", "complete", "flush2", "reclaim"}
    BY <1>5, Zenon DEF CkBegin, CkFlush, CkDrain, CkDrained, CkCopied, CkStage, CkHome,
       CkHorizon, CkSidecar, CkReclaim, CkGoto, passVars
  <2> QED BY <1>1, <2>1, <2>2, <2>3, Zenon DEF PassType
<1>6. CASE CkSnapshot
  BY <1>1, <1>4, <1>6, Zenon DEF PassType, CkSnapshot, CkGoto
<1>7. CASE CkCopy
  <2>1. PICK p \in todo :
          /\ image' = [q \in DOMAIN image \cup {p} |-> IF q = p THEN cache[p] ELSE image[q]]
          /\ todo' = todo \ {p}
    BY <1>7, Zenon DEF CkCopy
  <2>2. p \in Pages /\ cache[p] \in Contents
    BY <1>1, <2>1 DEF PassType, TypeInv, PageType
  <2>3. Batch(image')
    BY <1>1, <2>1, <2>2 DEF PassType, Batch
  <2>4. todo' \in SUBSET Pages /\ cpc' = cpc /\ horizon' = horizon /\ meta' = meta
    BY <1>1, <1>7, <2>1, Zenon DEF PassType, CkCopy
  <2> QED BY <1>1, <2>3, <2>4, Zenon DEF PassType, Batch
<1>8. CASE CkComplete
  BY <1>1, <1>3, <1>8, Zenon DEF PassType, CkComplete, CkGoto, Batch
<1>9. CASE CkCapture \/ CkMetadata
  <2>1. meta' \in Checkpoints
    <3>1. CASE CkCapture
      <4>1. PICK r \in Floors : meta' = [lsn |-> Frontier, redo |-> r, rec |-> rec, capture |-> 0]
        BY <3>1, Zenon DEF CkCapture
      <4>2. ASSUME deferred # <<>>
            PROVE  deferred[1].lsn - 1 \in Marks /\ deferred[1].first \in Marks
        <5>1. deferred[1] \in Records
          BY <4>2 DEF TypeInv, CommitType
        <5> QED BY <5>1, Consts DEF Records, Lsns, Marks
      <4>3. Frontier \in Marks
        BY <1>4, <4>2, Zenon DEF Frontier
      <4>4. {rec[p] : p \in Dirty} \subseteq Marks
        BY <1>4
      <4>5. Floors \subseteq Marks
        BY <4>2, <4>3, <4>4, Zenon DEF Floors
      <4> QED BY <1>3, <1>4, <4>1, <4>3, <4>5 DEF Checkpoints
    <3>2. CASE CkMetadata
      BY <1>1, <1>4, <3>2 DEF PassType, CkMetadata, Checkpoints
    <3> QED BY <1>9, <3>1, <3>2
  <2>2. /\ todo' = todo /\ image' = image /\ horizon' = horizon
        /\ cpc' \in {"metadata", "horizon2"}
    BY <1>9, Zenon DEF CkCapture, CkMetadata, CkGoto
  <2> QED BY <1>1, <2>1, <2>2, Zenon DEF PassType
<1>10. CASE CkDone
  BY <1>1, <1>3, <1>10, Zenon DEF PassType, CkDone, CkGoto
<1>11. CASE CkIoError \/ Crash
  <2>1. PassOver
    BY <1>11, Zenon DEF CkIoError, Crash
  <2> QED BY <1>3, <2>1, Zenon DEF PassType, PassOver, Batch
<1> QED BY <1>2, <1>5, <1>6, <1>7, <1>8, <1>9, <1>10, <1>11, PassSteps, Zenon DEF CheckpointStep

LEMMA TypeStep == TypeInv /\ ApplyInv /\ [Next]_vars => TypeInv'
<1> SUFFICES ASSUME TypeInv, ApplyInv, [Next]_vars PROVE TypeInv'
  OBVIOUS
<1>1. CASE Next
  BY <1>1, CommitTypeStep, PageTypeStep, WalTypeStep, DiskTypeStep, PassTypeStep,
     ModeTypeStep, Zenon DEF TypeInv
<1>2. CASE UNCHANGED vars
  <2>1. UNCHANGED <<commitVars, pageVars, walVars, diskVars, passVars, modeVars>>
    BY <1>2, Zenon DEF vars
  <2> QED BY <2>1, Zenon DEF TypeInv, CommitType, PageType, WalType, DiskType, PassType,
             ModeType, commitVars, pageVars, walVars, diskVars, passVars, modeVars
<1> QED BY <1>1, <1>2
-----------------------------------------------------------------------------
\* How the sets of records change.
LEMMA AppendSets ==
  ASSUME TypeInv, LogAppend
  PROVE  \E b \in InFlight :
           /\ Logged' = Logged \cup {b} /\ Disk' = Disk \cup {b}
           /\ Durable \subseteq Durable' /\ DurableDisk \subseteq DurableDisk'
<1>1. PICK i \in 1 .. Len(inflight), s \in {seg, seg + 1} :
        /\ wal' = Append(wal, Entry(inflight[i].bundle, s))
        /\ synced' \in {synced, Len(wal)} /\ oldest' = oldest
  BY Zenon DEF LogAppend
<1> DEFINE b == inflight[i].bundle
           n == Len(wal)
<1>2. wal \in Seq(Entries) /\ n \in Nat /\ synced \in 0 .. n /\ seg \in Nat /\ oldest \in 1 .. seg
  BY DEF TypeInv, WalType
<1>3. b \in InFlight /\ b \in Records
  BY Members, Zenon DEF InFlight, RecordType
<1>4. Entry(b, s) \in Entries /\ Entry(b, s).bundle = b /\ Entry(b, s).seg = s
  BY <1>2, <1>3 DEF Entry, Entries
<1> HIDE DEF b
<1>5. /\ Len(wal') = n + 1 /\ wal'[n + 1] = Entry(b, s)
      /\ \A j \in 1 .. n : wal'[j] = wal[j]
  BY <1>1, <1>2, <1>4 DEF b
<1>6. /\ s >= oldest /\ s \in Nat
      /\ \A j : j \in 1 .. Len(wal') <=> (j \in 1 .. n \/ j = n + 1)
      /\ \A j \in 1 .. synced : j \in 1 .. n /\ j \in 1 .. synced'
  BY <1>1, <1>2, <1>5
<1> HIDE DEF n
<1>7. Logged' = Logged \cup {b}
  BY <1>4, <1>5, <1>6, Zenon DEF Logged, n
<1>8. Disk' = Disk \cup {b}
  <2>1. \A x : x \in Disk' <=> \E j \in 1 .. Len(wal') : wal'[j].seg >= oldest /\ x = wal'[j].bundle
    BY <1>1, Zenon DEF Disk, OnDisk
  <2>2. \A x : x \in Disk <=> \E j \in 1 .. n : wal[j].seg >= oldest /\ x = wal[j].bundle
    BY Zenon DEF Disk, OnDisk, n
  <2>3. wal'[n + 1].seg >= oldest /\ wal'[n + 1].bundle = b
    BY <1>4, <1>5, <1>6, Zenon
  <2>4. ASSUME NEW x \in Disk' PROVE x \in Disk \cup {b}
    <3>1. PICK j \in 1 .. Len(wal') : wal'[j].seg >= oldest /\ x = wal'[j].bundle
      BY <2>1, <2>4, Zenon
    <3>2. CASE j \in 1 .. n
      BY <1>5, <2>2, <3>1, <3>2, Zenon
    <3>3. CASE j = n + 1
      BY <2>3, <3>1, <3>3, Zenon
    <3> QED BY <1>6, <3>2, <3>3, Zenon
  <2>5. ASSUME NEW x \in Disk PROVE x \in Disk'
    <3>1. PICK j \in 1 .. n : wal[j].seg >= oldest /\ x = wal[j].bundle
      BY <2>2, <2>5, Zenon
    <3>2. j \in 1 .. Len(wal') /\ wal'[j] = wal[j]
      BY <1>5, <1>6, Zenon
    <3> QED BY <2>1, <3>1, <3>2, Zenon
  <2>6. b \in Disk'
    BY <1>6, <2>1, <2>3, Zenon
  <2> QED BY <2>4, <2>5, <2>6, Zenon
<1>9. Durable \subseteq Durable'
  BY <1>5, <1>6, Zenon DEF Durable
<1>10. DurableDisk \subseteq DurableDisk'
  BY <1>1, <1>5, <1>6, Zenon DEF DurableDisk
<1> QED BY <1>3, <1>7, <1>8, <1>9, <1>10, Zenon

LEMMA SyncSets ==
  ASSUME TypeInv, LogSync \/ CkFlush
  PROVE  /\ Logged' = Logged /\ Disk' = Disk /\ Durable' = Logged /\ DurableDisk' = Disk
         /\ Durable \subseteq Durable' /\ DurableDisk \subseteq DurableDisk'
<1>1. wal' = wal /\ synced' = Len(wal) /\ oldest' = oldest
  BY Zenon DEF LogSync, CkFlush
<1>2. 1 .. synced \subseteq 1 .. Len(wal)
  BY Members
<1>3. Logged' = Logged /\ Disk' = Disk /\ Durable' = Logged /\ DurableDisk' = Disk
  BY <1>1, Zenon DEF Logged, Disk, OnDisk, Durable, DurableDisk
<1>4. Durable \subseteq Logged /\ DurableDisk \subseteq Disk
  BY <1>2, Zenon DEF Logged, Disk, OnDisk, Durable, DurableDisk
<1> QED BY <1>3, <1>4, Zenon

LEMMA ReclaimSets ==
  ASSUME TypeInv, CkReclaim
  PROVE  /\ Logged' = Logged /\ Durable' = Durable /\ Disk' \subseteq Disk
         /\ \A b \in Disk \ Disk' : b.lsn <= meta.redo
         /\ \A b \in DurableDisk \ DurableDisk' : b.lsn <= meta.redo
<1>1. wal' = wal /\ synced' = synced /\ oldest' = oldest + 1
  BY Zenon DEF CkReclaim
<1>2. \A j \in 1 .. Len(wal) : wal[j].seg = oldest => wal[j].bundle.lsn <= meta.redo
  BY Zenon DEF CkReclaim, Reclaimable, OldestEntries
<1>3. /\ \A j \in 1 .. Len(wal) : wal[j].seg >= oldest + 1 => wal[j].seg >= oldest
      /\ \A j \in 1 .. Len(wal) : wal[j].seg >= oldest => wal[j].seg = oldest \/ wal[j].seg >= oldest + 1
      /\ 1 .. synced \subseteq 1 .. Len(wal)
  <2>1. oldest \in Nat
    BY DEF TypeInv, WalType
  <2>2. \A n \in Nat : (n >= oldest + 1 => n >= oldest) /\ (n >= oldest => n = oldest \/ n >= oldest + 1)
    BY <2>1
  <2>3. 1 .. synced \subseteq 1 .. Len(wal)
    BY Members
  <2> QED BY <2>2, <2>3, Members, Zenon
<1> QED BY <1>1, <1>2, <1>3, Zenon DEF Logged, Disk, OnDisk, Durable, DurableDisk

LEMMA CrashSets ==
  ASSUME TypeInv, Crash
  PROVE  /\ Logged' \subseteq Logged /\ Durable' = Logged' /\ Disk' \subseteq Disk
         /\ DurableDisk' = Disk' /\ Durable \subseteq Durable' /\ DurableDisk \subseteq DurableDisk'
<1>1. PICK n \in synced .. Len(wal) : wal' = SubSeq(wal, 1, n) /\ synced' = n /\ oldest' = oldest
  BY Zenon DEF Crash
<1>2. wal \in Seq(Entries) /\ synced \in 0 .. Len(wal)
  BY Zenon DEF TypeInv, WalType
<1>3. /\ Len(wal') = n /\ \A j \in 1 .. n : wal'[j] = wal[j] /\ j \in 1 .. Len(wal)
      /\ 1 .. synced \subseteq 1 .. n
  BY <1>1, <1>2
<1> QED BY <1>1, <1>3, Zenon DEF Logged, Disk, OnDisk, Durable, DurableDisk

LEMMA WalSame ==
  ASSUME UNCHANGED walVars
  PROVE  Logged' = Logged /\ Disk' = Disk /\ Durable' = Durable /\ DurableDisk' = DurableDisk
BY Zenon DEF walVars, Logged, Disk, OnDisk, Durable, DurableDisk

\* Records stay in the log, and durable; only a crash drops some.
LEMMA WalGrows ==
  ASSUME TypeInv, Next
  PROVE  Durable \subseteq Durable' /\ (Crash \/ Logged \subseteq Logged')
BY AppendSets, SyncSets, ReclaimSets, CrashSets, WalSame, WalSteps, Zenon

\* The head of the commits in flight leaves.
LEMMA PublishSets ==
  ASSUME TypeInv, inflight # <<>>, Publish
  PROVE  /\ InFlight = {inflight[1].bundle} \cup InFlight'
         /\ Len(inflight') = Len(inflight) - 1
         /\ \A i \in 1 .. Len(inflight') : i + 1 \in 1 .. Len(inflight) /\ inflight'[i] = inflight[i + 1]
         /\ visible' = inflight[1].bundle.lsn /\ 1 \in 1 .. Len(inflight)
<1>1. inflight \in Seq(Flights) /\ inflight' = Tail(inflight) /\ visible' = inflight[1].bundle.lsn
  BY Zenon DEF TypeInv, CommitType, Publish
<1>2. /\ Len(inflight') = Len(inflight) - 1 /\ 1 \in 1 .. Len(inflight)
      /\ \A i \in 1 .. Len(inflight') : i + 1 \in 1 .. Len(inflight) /\ inflight'[i] = inflight[i + 1]
      /\ \A i \in 1 .. Len(inflight) : i = 1 \/ \E j \in 1 .. Len(inflight') : i = j + 1
  <2>1. Len(inflight) \in Nat \ {0}
    BY <1>1
  <2>2. Len(inflight') = Len(inflight) - 1
    BY <1>1, <2>1
  <2>3. \A i \in 1 .. Len(inflight') : i + 1 \in 1 .. Len(inflight) /\ inflight'[i] = inflight[i + 1]
    BY <1>1, <2>1, <2>2
  <2>4. \A i \in 1 .. Len(inflight) : i = 1 \/ (i - 1 \in 1 .. Len(inflight') /\ i = (i - 1) + 1)
    BY <2>1, <2>2
  <2> QED BY <2>1, <2>2, <2>3, <2>4
<1>3. \A x : x \in InFlight' <=> \E j \in 1 .. Len(inflight') : x = inflight[j + 1].bundle
  BY <1>2, Zenon DEF InFlight
<1>4. \A x : x \in InFlight <=> \E j \in 1 .. Len(inflight) : x = inflight[j].bundle
  BY Zenon DEF InFlight
<1>5. ASSUME NEW x \in InFlight PROVE x \in {inflight[1].bundle} \cup InFlight'
  <2>1. PICK i \in 1 .. Len(inflight) : x = inflight[i].bundle
    BY <1>4, <1>5, Zenon
  <2>2. CASE i = 1
    BY <2>1, <2>2, Zenon
  <2>3. CASE \E j \in 1 .. Len(inflight') : i = j + 1
    BY <1>3, <2>1, <2>3, Zenon
  <2> QED BY <1>2, <2>2, <2>3, Zenon
<1>6. InFlight' \subseteq InFlight /\ inflight[1].bundle \in InFlight
  BY <1>2, <1>3, <1>4, Zenon
<1> QED BY <1>1, <1>2, <1>5, <1>6, Zenon

LEMMA AllocateSets ==
  ASSUME TypeInv, Allocate
  PROVE  \E b : /\ NewRecord(b) /\ clock' = b.lsn /\ InFlight' = InFlight \cup {b}
                /\ Len(inflight') = Len(inflight) + 1 /\ inflight'[Len(inflight) + 1].bundle = b
                /\ \A i \in 1 .. Len(inflight) : inflight'[i] = inflight[i]
                /\ \A i \in 1 .. Len(inflight') : i \in 1 .. Len(inflight) \/ i = Len(inflight) + 1
<1>1. PICK b \in Bundles, t \in Tiers :
        b.lsn <= MaxLsn /\ clock' = b.lsn /\ inflight' = Append(inflight, [bundle |-> b, tier |-> t])
  BY Zenon DEF Allocate
<1>2. NewRecord(b)
  BY <1>1, BundleIsNew
<1>3. inflight \in Seq(Flights)
  BY Zenon DEF TypeInv, CommitType
<1>4. [bundle |-> b, tier |-> t] \in Flights /\ [bundle |-> b, tier |-> t].bundle = b
  BY <1>2 DEF Flights, NewRecord
<1>5. /\ Len(inflight') = Len(inflight) + 1 /\ Len(inflight) \in Nat
      /\ inflight'[Len(inflight) + 1] = [bundle |-> b, tier |-> t]
      /\ \A i \in 1 .. Len(inflight) : inflight'[i] = inflight[i]
  BY <1>1, <1>3, <1>4
<1>6. /\ \A i : i \in 1 .. Len(inflight') <=> (i \in 1 .. Len(inflight) \/ i = Len(inflight) + 1)
  BY <1>5
<1>7. InFlight' = InFlight \cup {b}
  BY <1>4, <1>5, <1>6, Zenon DEF InFlight
<1> QED BY <1>1, <1>2, <1>4, <1>5, <1>6, <1>7, Zenon

LEMMA DeferSets ==
  ASSUME TypeInv, inflight # <<>>, deferred' = Append(deferred, inflight[1].bundle)
  PROVE  /\ Queued' = Queued \cup {inflight[1].bundle}
         /\ Len(deferred') = Len(deferred) + 1
         /\ deferred'[Len(deferred) + 1] = inflight[1].bundle
         /\ \A i \in 1 .. Len(deferred) : deferred'[i] = deferred[i]
         /\ \A i : i \in 1 .. Len(deferred') <=> (i \in 1 .. Len(deferred) \/ i = Len(deferred) + 1)
<1>1. deferred \in Seq(Records) /\ inflight \in Seq(Flights)
  BY Zenon DEF TypeInv, CommitType
<1>2. 1 \in 1 .. Len(inflight)
  BY <1>1
<1>3. inflight[1].bundle \in Records
  BY <1>2, Members, Zenon DEF RecordType
<1>4. /\ Len(deferred') = Len(deferred) + 1 /\ Len(deferred) \in Nat
      /\ deferred'[Len(deferred) + 1] = inflight[1].bundle
      /\ \A i \in 1 .. Len(deferred) : deferred'[i] = deferred[i]
  BY <1>1, <1>3
<1>5. \A i : i \in 1 .. Len(deferred') <=> (i \in 1 .. Len(deferred) \/ i = Len(deferred) + 1)
  BY <1>4
<1>6. Queued' = Queued \cup {inflight[1].bundle}
  BY <1>4, <1>5, Zenon DEF Queued
<1> QED BY <1>4, <1>5, <1>6, Zenon

LEMMA FrontSets ==
  ASSUME TypeInv, deferred # <<>>, deferred' = Tail(deferred)
  PROVE  /\ Queued = {deferred[1]} \cup Queued'
         /\ Len(deferred') = Len(deferred) - 1
         /\ \A i \in 1 .. Len(deferred') : i + 1 \in 1 .. Len(deferred) /\ deferred'[i] = deferred[i + 1]
<1>1. deferred \in Seq(Records)
  BY Zenon DEF TypeInv, CommitType
<1>2. Len(deferred) \in Nat \ {0}
  BY <1>1
<1>3. Len(deferred') = Len(deferred) - 1
  BY <1>1, <1>2
<1>4. \A i \in 1 .. Len(deferred') : i + 1 \in 1 .. Len(deferred) /\ deferred'[i] = deferred[i + 1]
  BY <1>1, <1>2, <1>3
<1>5. \A i \in 1 .. Len(deferred) : i = 1 \/ (i - 1 \in 1 .. Len(deferred') /\ i = (i - 1) + 1)
  BY <1>2, <1>3
<1>6. 1 \in 1 .. Len(deferred)
  BY <1>2
<1>7. ASSUME NEW x \in Queued PROVE x \in {deferred[1]} \cup Queued'
  <2>1. PICK i \in 1 .. Len(deferred) : x = deferred[i]
    BY <1>7, Zenon DEF Queued
  <2>2. CASE i = 1
    BY <2>1, <2>2, Zenon
  <2>3. CASE \E j \in 1 .. Len(deferred') : i = j + 1
    BY <1>4, <2>1, <2>3, Zenon DEF Queued
  <2> QED BY <1>5, <2>2, <2>3, Zenon
<1>8. Queued' \subseteq Queued /\ deferred[1] \in Queued
  <2>1. \A x \in Queued' : \E j \in 1 .. Len(deferred') : x = deferred[j + 1]
    BY <1>4, Zenon DEF Queued
  <2> QED BY <1>4, <1>6, <2>1, Zenon DEF Queued
<1> QED BY <1>3, <1>4, <1>7, <1>8, Zenon

-----------------------------------------------------------------------------
\* LSN ranges.
LEMMA RecordSteps ==
  Next => \/ UNCHANGED <<clock, visible, inflight, wal>>
          \/ Allocate \/ LogAppend \/ ApplyOrDefer \/ ApplyOwn \/ Crash \/ RedoDone
BY CommitSteps, WalSteps, Zenon DEF commitVars, walVars, Turn, DrainFront, DrainStop,
   ApplyFront, CkDrain, CkDrained, LogSync, CkFlush, CkReclaim

\* A commit that reaches its decision is in flight and logged.
LEMMA DecideHead ==
  ASSUME TypeInv, ApplyInv, apc \in {"decide", "own"}
  PROVE  inflight # <<>> /\ inflight[1].bundle \in Logged /\ inflight[1].bundle \in InFlight
         /\ 1 \in 1 .. Len(inflight)
<1>1. inflight # <<>> /\ inflight[1].bundle \in Logged
  BY Zenon DEF ApplyInv
<1>2. 1 \in 1 .. Len(inflight)
  BY <1>1 DEF TypeInv, CommitType
<1> QED BY <1>1, <1>2, Zenon DEF InFlight

\* A step of Phase 3 publishes the head or leaves the commits in flight.
LEMMA PublishOrNot ==
  ASSUME TypeInv, ApplyInv, ApplyOrDefer \/ ApplyOwn
  PROVE  /\ inflight # <<>> /\ inflight[1].bundle \in Logged /\ 1 \in 1 .. Len(inflight)
         /\ \/ UNCHANGED <<visible, inflight>>
            \/ Publish
         /\ UNCHANGED walVars /\ clock' = clock /\ mode' = mode /\ cpc' = cpc
         /\ UNCHANGED <<sidecar, meta, horizon>>
<1>1. apc \in {"decide", "own"}
  BY Zenon DEF ApplyOrDefer, ApplyOwn
<1> QED BY <1>1, DecideHead, Zenon DEF ApplyOrDefer, ApplyOwn, passVars, diskVars, modeVars

LEMMA RecordStep ==
  ASSUME TypeInv, RecordInv, QueueInv, ApplyInv, CkInv, Next
  PROVE  RecordInv'
<1>1. CASE UNCHANGED <<clock, visible, inflight, wal>>
  <2>1. Known' = Known
    BY <1>1, Zenon DEF Known, Logged, InFlight
  <2> QED BY <1>1, <2>1, Zenon DEF RecordInv
<1>2. CASE Allocate
  <2>1. PICK b : NewRecord(b) /\ clock' = b.lsn /\ InFlight' = InFlight \cup {b}
    BY <1>2, AllocateSets
  <2>2. Known' = Known \cup {b} /\ visible' = visible
    BY <1>2, <2>1, WalSame, Zenon DEF Allocate, Known
  <2>3. clock \in Nat /\ visible \in Nat /\ b.lsn \in Nat /\ b.first \in Nat
    BY <2>1, Consts DEF TypeInv, CommitType, NewRecord, Records, Marks, Lsns
  <2>4. 1 <= visible /\ visible <= clock
    BY Zenon DEF RecordInv
  <2>5. b.first = clock + 1 /\ clock + 1 <= b.lsn
    BY <2>1, Zenon DEF NewRecord
  <2>6. WellFormed(b)
    BY <2>1, <2>3, <2>4, <2>5 DEF NewRecord, WellFormed
  <2>7. \A a \in Known : a.lsn <= clock /\ a.lsn \in Nat /\ WellFormed(a)
    BY Sets, Consts DEF RecordInv, RecordType, Marks
  <2>8. \A a \in Known : a.lsn <= b.lsn /\ a.lsn < b.first
    BY <2>3, <2>5, <2>7
  <2>9. 1 <= visible' /\ visible' <= clock' /\ b.lsn <= clock'
    BY <2>1, <2>2, <2>3, <2>4, <2>5
  <2>10. \A a, c \in Known' : Apart(a, c)
    BY <2>2, <2>8, Zenon DEF Apart, RecordInv
  <2> QED BY <2>1, <2>2, <2>6, <2>7, <2>8, <2>9, <2>10, Zenon DEF RecordInv
<1>3. CASE LogAppend
  <2>1. Known' = Known /\ clock' = clock /\ visible' = visible
    <3>1. UNCHANGED commitVars
      BY <1>3, Zenon DEF LogAppend
    <3>2. InFlight' = InFlight /\ clock' = clock /\ visible' = visible
      BY <3>1, Zenon DEF commitVars, InFlight
    <3> QED BY <1>3, <3>2, AppendSets, Zenon DEF Known
  <2> QED BY <2>1, Zenon DEF RecordInv
<1>4. CASE ApplyOrDefer \/ ApplyOwn
  <2>1. CASE UNCHANGED <<visible, inflight>>
    <3>1. Known' = Known /\ clock' = clock
      BY <1>4, <2>1, WalSame, PublishOrNot, Zenon DEF Known, InFlight
    <3> QED BY <2>1, <3>1, Zenon DEF RecordInv
  <2>2. CASE Publish
    <3>1. /\ InFlight' \subseteq InFlight /\ inflight[1].bundle \in Known
          /\ visible' = inflight[1].bundle.lsn
      BY <1>4, <2>2, PublishOrNot, PublishSets, Zenon DEF Known
    <3>2. Known' \subseteq Known /\ clock' = clock
      BY <1>4, <3>1, WalSame, PublishOrNot, Zenon DEF Known
    <3>3. visible' <= clock
      BY <3>1, Zenon DEF RecordInv
    <3>4. 2 <= inflight[1].bundle.first /\ inflight[1].bundle.first <= inflight[1].bundle.lsn
      BY <3>1, Zenon DEF RecordInv, WellFormed
    <3>5. 1 <= visible'
      BY <3>1, <3>4, Sets DEF RecordType, Marks
    <3> QED BY <3>2, <3>3, <3>5, Zenon DEF RecordInv
  <2> QED BY <1>4, <2>1, <2>2, PublishOrNot, Zenon
<1>5. CASE Crash
  <2>1. inflight' = <<>> /\ clock' = clock /\ visible' = visible
    BY <1>5, Zenon DEF Crash
  <2>2. InFlight' = {}
    BY <2>1 DEF InFlight
  <2>3. Known' \subseteq Known
    BY <1>5, <2>2, CrashSets, Zenon DEF Known
  <2> QED BY <2>1, <2>3, Zenon DEF RecordInv
<1>6. CASE RedoDone
  <2>1. /\ Known' = Known /\ visible' = clock' /\ sidecar.lsn <= clock'
        /\ \A b \in Disk : b.lsn <= clock'
    BY <1>6, Zenon DEF RedoDone, Known, Logged, InFlight, walVars, Disk
  <2>2. clock' \in Nat
    BY <1>6, CommitTypeStep, Consts DEF CommitType, Marks
  <2>3. Known = Logged
    <3>1. inflight = <<>>
      BY <1>6, Zenon DEF RedoDone, QueueInv, Up
    <3> QED BY <3>1 DEF Known, InFlight
  <2>4. ASSUME NEW b \in Logged PROVE b.lsn <= clock'
    <3>1. PICK i \in 1 .. Len(wal) : b = wal[i].bundle
      BY <2>4, Zenon DEF Logged
    <3>2. CASE wal[i].seg < oldest
      <4>1. b.lsn <= sidecar.lsn
        BY <3>1, <3>2, Zenon DEF CkInv
      <4> QED BY <2>1, <2>2, <3>1, <4>1, Members, CkTypes DEF RecordType, CkType, Marks
    <3>3. CASE ~(wal[i].seg < oldest)
      <4>1. wal[i].seg >= oldest
        BY <3>3, Members DEF TypeInv, WalType
      <4>2. b \in Disk
        BY <3>1, <4>1, Zenon DEF Disk, OnDisk
      <4> QED BY <2>1, <4>2, Zenon
    <3> QED BY <3>2, <3>3
  <2>5. 1 <= visible' /\ visible' <= clock'
    BY <2>1, <2>2, CkTypes DEF CkInv, CkOK, CkType
  <2> QED BY <2>1, <2>3, <2>4, <2>5, Zenon DEF RecordInv
<1> QED BY <1>1, <1>2, <1>3, <1>4, <1>5, <1>6, RecordSteps, Zenon

-----------------------------------------------------------------------------
\* The order of publication.
LEMMA QueueSteps ==
  Next => \/ UNCHANGED <<visible, inflight, deferred, wal, mode>>
          \/ Allocate \/ LogAppend \/ ApplyOrDefer \/ ApplyOwn \/ ApplyFront \/ Crash
          \/ RedoDelta \/ RedoDone
BY CommitSteps, WalSteps, ModeSteps, Zenon DEF commitVars, walVars, modeVars, Turn, DrainFront,
   DrainStop, CkDrain, CkDrained, LogSync, CkFlush, CkReclaim

\* Outside "up" nothing is in flight or queued and no pass runs.
Down == ~Up => inflight = <<>> /\ deferred = <<>> /\ apc = "idle" /\ cpc = "idle"

LEMMA DownStep ==
  ASSUME Down, Next
  PROVE  Down'
<1>1. CASE Crash
  BY <1>1, Zenon DEF Crash, PassOver, Down
<1>2. CASE RedoDelta
  BY <1>2, Zenon DEF RedoDelta, Down, Up, commitVars, passVars
<1>3. CASE RedoDone
  BY <1>3, Zenon DEF RedoDone, Down, Up
<1>4. CASE mode = "up" /\ UNCHANGED modeVars
  BY <1>4, Zenon DEF Down, Up, modeVars
<1> QED BY <1>1, <1>2, <1>3, <1>4, ModeSteps, Zenon DEF Next

\* The publication order without the last conjunct.
Ascending ==
  /\ \A i, j \in 1 .. Len(deferred) : i < j => deferred[i].lsn < deferred[j].first
  /\ \A i, j \in 1 .. Len(inflight) : i < j => inflight[i].bundle.lsn < inflight[j].bundle.first
Around ==
  /\ \A i \in 1 .. Len(deferred) : deferred[i].lsn <= visible /\ deferred[i] \in Logged
  /\ \A i \in 1 .. Len(inflight) : visible < inflight[i].bundle.first
Behind ==
  Up => \A b \in Logged \ Unsettled : b.lsn <= visible /\ \A q \in Queued : b.lsn < q.first

LEMMA QueueSplit == QueueInv <=> Ascending /\ Around /\ Behind /\ Down
BY Zenon DEF QueueInv, Ascending, Around, Behind, Down

LEMMA AscendingStep ==
  ASSUME TypeInv, RecordInv, QueueInv, ApplyInv, Next
  PROVE  Ascending'
<1>1. Ascending /\ Around
  BY QueueSplit
<1>2. /\ \A i \in 1 .. Len(inflight) : inflight[i].bundle.lsn \in Nat /\ inflight[i].bundle.lsn <= clock
      /\ clock \in Nat /\ visible \in Nat
  <2>1. \A i \in 1 .. Len(inflight) : inflight[i].bundle \in Known
    BY Zenon DEF Known, InFlight
  <2>2. \A b \in Known : b.lsn \in Nat
    BY Sets, Consts DEF RecordType, Marks
  <2>3. clock \in Nat /\ visible \in Nat
    BY Consts DEF TypeInv, CommitType, Marks
  <2> QED BY <2>1, <2>2, <2>3, Zenon DEF RecordInv
<1>3. CASE UNCHANGED <<inflight, deferred>>
  BY <1>1, <1>3, Zenon DEF Ascending
<1>4. CASE Allocate
  <2>1. PICK b : /\ NewRecord(b) /\ Len(inflight') = Len(inflight) + 1
                 /\ inflight'[Len(inflight) + 1].bundle = b
                 /\ \A i \in 1 .. Len(inflight) : inflight'[i] = inflight[i]
                 /\ \A i \in 1 .. Len(inflight') : i \in 1 .. Len(inflight) \/ i = Len(inflight) + 1
    BY <1>4, AllocateSets, Zenon
  <2>2. deferred' = deferred
    BY <1>4, Zenon DEF Allocate
  <2>3. \A i \in 1 .. Len(inflight) : inflight[i].bundle.lsn < b.first
    <3>1. b.first = clock + 1
      BY <2>1, Zenon DEF NewRecord
    <3> QED BY <1>2, <3>1
  <2>4. ASSUME NEW i \in 1 .. Len(inflight'), NEW j \in 1 .. Len(inflight'), i < j
        PROVE  inflight'[i].bundle.lsn < inflight'[j].bundle.first
    <3>1. i \in 1 .. Len(inflight)
      BY <2>1, <2>4, Members
    <3>2. CASE j \in 1 .. Len(inflight)
      BY <1>1, <2>1, <2>4, <3>1, <3>2, Zenon DEF Ascending
    <3>3. CASE j = Len(inflight) + 1
      BY <2>1, <2>3, <3>1, <3>3, Zenon
    <3> QED BY <2>1, <3>2, <3>3, Zenon
  <2> QED BY <1>1, <2>2, <2>4, Zenon DEF Ascending
<1>5. ASSUME inflight # <<>>, Publish
      PROVE  \A i, j \in 1 .. Len(inflight') : i < j => inflight'[i].bundle.lsn < inflight'[j].bundle.first
  <2>1. \A i \in 1 .. Len(inflight') : i + 1 \in 1 .. Len(inflight) /\ inflight'[i] = inflight[i + 1]
    BY <1>5, PublishSets, Zenon
  <2>2. \A i, j \in 1 .. Len(inflight') : i < j => i + 1 < j + 1
    OBVIOUS
  <2> QED BY <1>1, <2>1, <2>2, Zenon DEF Ascending
<1>6. CASE ApplyOrDefer \/ ApplyOwn
  <2>1. inflight # <<>> /\ 1 \in 1 .. Len(inflight) /\ (UNCHANGED inflight \/ Publish)
    BY <1>6, PublishOrNot, Zenon
  <2>2. \A i, j \in 1 .. Len(inflight') : i < j => inflight'[i].bundle.lsn < inflight'[j].bundle.first
    BY <1>1, <1>5, <2>1, Zenon DEF Ascending
  <2>3. deferred' = deferred \/ deferred' = Append(deferred, inflight[1].bundle)
    BY <1>6, Zenon DEF ApplyOrDefer, ApplyOwn
  <2>4. CASE deferred' = deferred
    BY <1>1, <2>2, <2>4, Zenon DEF Ascending
  <2>5. CASE deferred' = Append(deferred, inflight[1].bundle)
    <3>1. /\ deferred'[Len(deferred) + 1] = inflight[1].bundle
          /\ Len(deferred') = Len(deferred) + 1
          /\ \A i \in 1 .. Len(deferred) : deferred'[i] = deferred[i]
          /\ \A i \in 1 .. Len(deferred') : i \in 1 .. Len(deferred) \/ i = Len(deferred) + 1
      BY <2>1, <2>5, DeferSets, Zenon
    <3>2. \A i \in 1 .. Len(deferred) : deferred[i].lsn <= visible
      BY <1>1, Zenon DEF Around
    <3>3. visible < inflight[1].bundle.first /\ inflight[1].bundle.first \in Nat
      BY <1>1, <2>1, Members, Zenon DEF Around, RecordType
    <3>4. \A i \in 1 .. Len(deferred) : deferred[i].lsn < inflight[1].bundle.first
      BY <1>2, <3>2, <3>3, Members, Consts DEF RecordType, Marks
    <3>5. ASSUME NEW i \in 1 .. Len(deferred'), NEW j \in 1 .. Len(deferred'), i < j
          PROVE  deferred'[i].lsn < deferred'[j].first
      <4>1. i \in 1 .. Len(deferred)
        BY <3>1, <3>5, Members
      <4>2. CASE j \in 1 .. Len(deferred)
        BY <1>1, <3>1, <3>5, <4>1, <4>2, Zenon DEF Ascending
      <4>3. CASE j = Len(deferred) + 1
        BY <3>1, <3>4, <4>1, <4>3, Zenon
      <4> QED BY <3>1, <4>2, <4>3, Zenon
    <3> QED BY <2>2, <3>5, Zenon DEF Ascending
  <2> QED BY <2>3, <2>4, <2>5
<1>7. CASE ApplyFront
  <2>1. inflight' = inflight /\ deferred # <<>> /\ (deferred' = deferred \/ deferred' = Tail(deferred))
    BY <1>7, Zenon DEF ApplyFront, ApplyInv
  <2>2. CASE deferred' = Tail(deferred)
    <3>1. \A i \in 1 .. Len(deferred') : i + 1 \in 1 .. Len(deferred) /\ deferred'[i] = deferred[i + 1]
      BY <2>1, <2>2, FrontSets, Zenon
    <3>2. \A i, j \in 1 .. Len(deferred') : i < j => i + 1 < j + 1
      OBVIOUS
    <3> QED BY <1>1, <2>1, <3>1, <3>2, Zenon DEF Ascending
  <2> QED BY <1>3, <2>1, <2>2
<1>8. CASE Crash
  <2>1. Len(inflight') = 0 /\ Len(deferred') = 0
    BY <1>8 DEF Crash
  <2> QED BY <2>1 DEF Ascending
<1>9. CASE LogAppend \/ RedoDelta \/ RedoDone
  BY <1>3, <1>9, Zenon DEF LogAppend, RedoDelta, RedoDone, commitVars
<1> QED BY <1>3, <1>4, <1>6, <1>7, <1>8, <1>9, QueueSteps, Zenon

\* What publishing the head does to the LSNs around it.
LEMMA HeadLsns ==
  ASSUME TypeInv, RecordInv, QueueInv, inflight # <<>>
  PROVE  /\ visible < inflight[1].bundle.first
         /\ inflight[1].bundle.first <= inflight[1].bundle.lsn
         /\ visible < inflight[1].bundle.lsn
         /\ visible \in Nat /\ inflight[1].bundle.first \in Nat /\ inflight[1].bundle.lsn \in Nat
         /\ 1 \in 1 .. Len(inflight) /\ inflight[1].bundle \in InFlight
<1>1. 1 \in 1 .. Len(inflight)
  BY DEF TypeInv, CommitType
<1>2. inflight[1].bundle \in InFlight
  BY <1>1, Zenon DEF InFlight
<1>3. visible < inflight[1].bundle.first
  BY <1>1, Zenon DEF QueueInv
<1>4. inflight[1].bundle.first <= inflight[1].bundle.lsn
  BY <1>2, Zenon DEF RecordInv, WellFormed, Known
<1>5. visible \in Nat /\ inflight[1].bundle.first \in Nat /\ inflight[1].bundle.lsn \in Nat
  BY <1>1, Members, Consts DEF RecordType, Marks, TypeInv, CommitType
<1> QED BY <1>1, <1>2, <1>3, <1>4, <1>5

LEMMA AroundStep ==
  ASSUME TypeInv, RecordInv, QueueInv, ApplyInv, Next
  PROVE  Around'
<1>1. Ascending /\ Around /\ Down
  BY QueueSplit
<1>2. CASE UNCHANGED <<visible, inflight, deferred, wal, mode>>
  <2>1. Logged' = Logged
    BY <1>2, Zenon DEF Logged
  <2> QED BY <1>1, <1>2, <2>1, Zenon DEF Around
<1>3. CASE Allocate
  <2>1. PICK b : /\ NewRecord(b) /\ inflight'[Len(inflight) + 1].bundle = b
                 /\ \A i \in 1 .. Len(inflight) : inflight'[i] = inflight[i]
                 /\ \A i \in 1 .. Len(inflight') : i \in 1 .. Len(inflight) \/ i = Len(inflight) + 1
    BY <1>3, AllocateSets, Zenon
  <2>2. visible' = visible /\ deferred' = deferred /\ Logged' = Logged
    BY <1>3, WalSame, Zenon DEF Allocate
  <2>3. visible < b.first
    <3>1. b.first = clock + 1 /\ visible <= clock /\ visible \in Nat /\ clock \in Nat
      BY <2>1, Consts DEF NewRecord, RecordInv, TypeInv, CommitType, Marks
    <3> QED BY <3>1
  <2> QED BY <1>1, <2>1, <2>2, <2>3, Zenon DEF Around
<1>4. CASE LogAppend \/ ApplyFront \/ RedoDelta
  <2>1. visible' = visible /\ inflight' = inflight /\ Logged \subseteq Logged'
    <3>1. visible' = visible /\ inflight' = inflight
      BY <1>4, Zenon DEF LogAppend, ApplyFront, RedoDelta, commitVars
    <3>2. (~ApplyFront /\ ~RedoDelta) \/ Logged' = Logged
      BY <1>4, WalSame, Zenon DEF ApplyFront, RedoDelta
    <3> QED BY <1>4, <3>1, <3>2, AppendSets, Zenon
  <2>2. CASE deferred' = deferred
    BY <1>1, <2>1, <2>2, Zenon DEF Around
  <2>3. CASE deferred # <<>> /\ deferred' = Tail(deferred)
    <3>1. \A i \in 1 .. Len(deferred') : i + 1 \in 1 .. Len(deferred) /\ deferred'[i] = deferred[i + 1]
      BY <2>3, FrontSets, Zenon
    <3> QED BY <1>1, <2>1, <3>1, Zenon DEF Around
  <2>4. deferred' = deferred \/ (deferred # <<>> /\ deferred' = Tail(deferred))
    BY <1>4, Zenon DEF LogAppend, ApplyFront, RedoDelta, commitVars, ApplyInv
  <2> QED BY <2>2, <2>3, <2>4
<1>5. CASE ApplyOrDefer \/ ApplyOwn
  <2>1. /\ inflight # <<>> /\ 1 \in 1 .. Len(inflight) /\ inflight[1].bundle \in Logged
        /\ (UNCHANGED <<visible, inflight>> \/ Publish)
    BY <1>5, PublishOrNot, Zenon
  <2>2. Logged' = Logged
    BY <1>5, PublishOrNot, WalSame, Zenon
  <2>3. deferred' = deferred \/ (Publish /\ deferred' = Append(deferred, inflight[1].bundle))
    BY <1>5, Zenon DEF ApplyOrDefer, ApplyOwn
  <2>4. CASE UNCHANGED <<visible, inflight>> /\ deferred' = deferred
    BY <1>1, <2>2, <2>4, Zenon DEF Around
  <2>5. CASE Publish
    <3>1. /\ \A i \in 1 .. Len(inflight') : i + 1 \in 1 .. Len(inflight) /\ inflight'[i] = inflight[i + 1]
          /\ visible' = inflight[1].bundle.lsn
      BY <2>1, <2>5, PublishSets, Zenon
    <3>2. \A i \in 1 .. Len(inflight') : 1 < i + 1
      OBVIOUS
    <3>3. \A i \in 1 .. Len(inflight') : visible' < inflight'[i].bundle.first
      BY <1>1, <2>1, <3>1, <3>2, Zenon DEF Ascending
    <3>4. visible <= visible' /\ visible \in Nat /\ visible' \in Nat
      BY <2>1, <3>1, HeadLsns
    <3>5. \A i \in 1 .. Len(deferred) : deferred[i].lsn <= visible'
      BY <1>1, <3>4, Members DEF Around, RecordType, Marks
    <3>6. visible' <= visible'
      BY <3>4
    <3>7. \A i \in 1 .. Len(deferred') : deferred'[i].lsn <= visible' /\ deferred'[i] \in Logged
      <4>1. CASE deferred' = deferred
        BY <1>1, <3>5, <4>1, Zenon DEF Around
      <4>2. CASE deferred' = Append(deferred, inflight[1].bundle)
        <5>1. /\ deferred'[Len(deferred) + 1] = inflight[1].bundle
              /\ \A i \in 1 .. Len(deferred) : deferred'[i] = deferred[i]
              /\ \A i \in 1 .. Len(deferred') : i \in 1 .. Len(deferred) \/ i = Len(deferred) + 1
          BY <2>1, <4>2, DeferSets, Zenon
        <5> QED BY <1>1, <2>1, <3>1, <3>5, <3>6, <5>1, Zenon DEF Around
      <4> QED BY <2>3, <4>1, <4>2
    <3> QED BY <2>2, <3>3, <3>7, Zenon DEF Around
  <2> QED BY <2>1, <2>3, <2>4, <2>5
<1>6. CASE Crash
  <2>1. Len(inflight') = 0 /\ Len(deferred') = 0
    BY <1>6 DEF Crash
  <2> QED BY <2>1 DEF Around
<1>7. CASE RedoDone
  <2>1. inflight' = <<>> /\ deferred' = <<>>
    BY <1>1, <1>7, Zenon DEF RedoDone, Down, Up
  <2> QED BY <2>1 DEF Around
<1> QED BY <1>2, <1>3, <1>4, <1>5, <1>6, <1>7, QueueSteps, Zenon

\* Unsettled records: what each step takes out and puts in.
LEMMA BehindStep ==
  ASSUME TypeInv, RecordInv, QueueInv, ApplyInv, Next, RecordInv'
  PROVE  Behind'
<1>1. Ascending /\ Around /\ Behind /\ Down
  BY QueueSplit
<1>2. CASE UNCHANGED <<visible, inflight, deferred, wal, mode>>
  <2>1. Logged' = Logged /\ Unsettled' = Unsettled /\ Queued' = Queued
    BY <1>2, Zenon DEF Logged, Unsettled, InFlight, Queued
  <2> QED BY <1>1, <1>2, <2>1, Zenon DEF Behind, Up
<1>3. CASE Allocate \/ LogAppend
  <2>1. /\ visible' = visible /\ Queued' = Queued /\ mode' = mode
        /\ InFlight \subseteq InFlight' /\ Logged' \subseteq Logged \cup InFlight
    <3>1. CASE Allocate
      <4>1. InFlight \subseteq InFlight'
        BY <3>1, AllocateSets, Zenon
      <4>2. visible' = visible /\ Queued' = Queued /\ mode' = mode /\ Logged' = Logged
        BY <3>1, WalSame, Zenon DEF Allocate, Queued, modeVars
      <4> QED BY <4>1, <4>2, Zenon
    <3>2. CASE LogAppend
      <4>1. visible' = visible /\ Queued' = Queued /\ mode' = mode /\ InFlight' = InFlight
        BY <3>2, Zenon DEF LogAppend, Queued, InFlight, commitVars, modeVars
      <4> QED BY <3>2, <4>1, AppendSets, Zenon
    <3> QED BY <1>3, <3>1, <3>2
  <2> QED BY <1>1, <2>1, Zenon DEF Behind, Up, Unsettled
<1>4. CASE ApplyFront
  <2>1. /\ visible' = visible /\ inflight' = inflight /\ mode' = mode /\ Logged' = Logged
        /\ deferred # <<>> /\ (deferred' = deferred \/ deferred' = Tail(deferred))
    BY <1>4, WalSame, Zenon DEF ApplyFront, ApplyInv, modeVars
  <2>2. CASE deferred' = deferred
    <3>1. Unsettled' = Unsettled /\ Queued' = Queued
      BY <2>1, <2>2, Zenon DEF Unsettled, InFlight, Queued
    <3> QED BY <1>1, <2>1, <3>1, Zenon DEF Behind, Up
  <2>3. CASE deferred' = Tail(deferred)
    <3>1. /\ Queued = {deferred[1]} \cup Queued'
          /\ \A i \in 1 .. Len(deferred') : i + 1 \in 1 .. Len(deferred) /\ deferred'[i] = deferred[i + 1]
      BY <2>1, <2>3, FrontSets, Zenon
    <3>2. InFlight' = InFlight /\ 1 \in 1 .. Len(deferred)
      <4>1. InFlight' = InFlight
        BY <2>1, Zenon DEF InFlight
      <4>2. 1 \in 1 .. Len(deferred)
        BY <2>1 DEF TypeInv, CommitType
      <4> QED BY <4>1, <4>2
    <3>3. \A b \in Logged' \ Unsettled' : b = deferred[1] \/ b \in Logged \ Unsettled
      BY <2>1, <3>1, <3>2, Zenon DEF Unsettled
    <3>4. deferred[1].lsn <= visible
      BY <1>1, <3>2, Zenon DEF Around
    <3>5. \A i \in 1 .. Len(deferred') : 1 < i + 1
      OBVIOUS
    <3>6. \A q \in Queued' : deferred[1].lsn < q.first
      <4>1. \A i \in 1 .. Len(deferred') : deferred[1].lsn < deferred'[i].first
        BY <1>1, <3>1, <3>2, <3>5, Zenon DEF Ascending
      <4> QED BY <4>1, Zenon DEF Queued
    <3> QED BY <1>1, <2>1, <3>1, <3>3, <3>4, <3>6, Zenon DEF Behind, Up
  <2> QED BY <2>1, <2>2, <2>3
<1>5. CASE ApplyOrDefer \/ ApplyOwn
  <2>1. /\ inflight # <<>> /\ 1 \in 1 .. Len(inflight) /\ mode' = mode
        /\ (UNCHANGED <<visible, inflight>> \/ Publish)
    BY <1>5, PublishOrNot, Zenon
  <2>2. Logged' = Logged
    BY <1>5, PublishOrNot, WalSame, Zenon
  <2>3. \/ UNCHANGED <<visible, inflight, deferred>>
        \/ Publish /\ deferred' = Append(deferred, inflight[1].bundle)
        \/ Publish /\ deferred' = <<>> /\ deferred = <<>>
    BY <1>5, Zenon DEF ApplyOrDefer, ApplyOwn, ApplyInv
  <2>4. CASE UNCHANGED <<visible, inflight, deferred>>
    <3>1. Unsettled' = Unsettled /\ Queued' = Queued
      BY <2>4, Zenon DEF Unsettled, InFlight, Queued
    <3> QED BY <1>1, <2>1, <2>2, <2>4, <3>1, Zenon DEF Behind, Up
  <2>5. ASSUME Publish PROVE /\ InFlight = {inflight[1].bundle} \cup InFlight'
                             /\ visible' = inflight[1].bundle.lsn
    BY <2>1, <2>5, PublishSets, Zenon
  <2>6. \A b \in Logged : b.lsn \in Nat
    BY Sets, Consts DEF Known, RecordType, Marks
  <2>7. \A n \in Nat : n <= visible => n <= inflight[1].bundle.lsn /\ n < inflight[1].bundle.first
    BY <2>1, HeadLsns
  <2>8. CASE Publish /\ deferred' = Append(deferred, inflight[1].bundle)
    <3>1. Queued' = Queued \cup {inflight[1].bundle}
      BY <2>1, <2>8, DeferSets, Zenon
    <3>2. Unsettled' = Unsettled
      BY <2>5, <2>8, <3>1, Zenon DEF Unsettled
    <3> QED BY <1>1, <2>1, <2>2, <2>5, <2>6, <2>7, <2>8, <3>1, <3>2, Zenon DEF Behind, Up
  <2>9. CASE Publish /\ deferred' = <<>> /\ deferred = <<>>
    <3>1. Queued = {} /\ Queued' = {}
      BY <2>9 DEF Queued
    <3>2. \A b \in Logged \ Unsettled' : b = inflight[1].bundle \/ b \in Logged \ Unsettled
      BY <2>5, <2>9, <3>1, Zenon DEF Unsettled
    <3>3. inflight[1].bundle.lsn <= inflight[1].bundle.lsn
      BY <2>1, HeadLsns
    <3>4. mode' = "up" => \A b \in Logged \ Unsettled' : b.lsn <= inflight[1].bundle.lsn
      BY <1>1, <2>1, <2>6, <2>7, <3>2, <3>3, Zenon DEF Behind, Up
    <3> QED BY <2>2, <2>5, <2>9, <3>1, <3>4, Zenon DEF Behind, Up
  <2> QED BY <2>3, <2>4, <2>8, <2>9
<1>6. CASE Crash \/ RedoDelta
  <2>1. ~Up'
    BY <1>6, Zenon DEF Crash, RedoDelta, RedoPage, Up
  <2> QED BY <2>1, Zenon DEF Behind
<1>7. CASE RedoDone
  <2>1. deferred' = <<>> /\ visible' = clock'
    BY <1>1, <1>7, Zenon DEF RedoDone, Down, Up
  <2>2. Queued' = {}
    BY <2>1 DEF Queued
  <2>3. \A b \in Logged' : b.lsn <= clock'
    BY Zenon DEF RecordInv, Known
  <2> QED BY <2>1, <2>2, <2>3, Zenon DEF Behind
<1> QED BY <1>2, <1>3, <1>4, <1>5, <1>6, <1>7, QueueSteps, Zenon

LEMMA QueueStep ==
  ASSUME TypeInv, RecordInv, QueueInv, ApplyInv, Next, RecordInv'
  PROVE  QueueInv'
<1>1. Down
  BY QueueSplit
<1>2. Ascending' /\ Around' /\ Behind' /\ Down'
  BY <1>1, AscendingStep, AroundStep, BehindStep, DownStep
<1> QED BY <1>2, Zenon DEF QueueInv, Ascending, Around, Behind, Down

-----------------------------------------------------------------------------
\* Draining and applying.
LEMMA FreezeSteps ==
  Next => (Freezing' <=> Freezing) \/ CkDrain \/ CkDrained \/ Crash
<1>1. CASE UNCHANGED cpc
  BY <1>1, Zenon DEF Freezing
<1>2. ASSUME CkBegin \/ CkFlush \/ CkSnapshot \/ CkCopied \/ CkStage \/ CkHome \/ CkComplete
               \/ CkCapture \/ CkMetadata \/ CkHorizon \/ CkSidecar \/ CkDone \/ CkIoError
      PROVE  ~Freezing /\ ~Freezing'
  BY <1>2, Zenon DEF Freezing, CkBegin, CkFlush, CkSnapshot, CkCopied, CkStage, CkHome,
     CkComplete, CkCapture, CkMetadata, CkHorizon, CkSidecar, CkDone, CkIoError, PassOver, CkGoto
<1>3. CkCopy \/ CkReclaim \/ UNCHANGED passVars => UNCHANGED cpc
  BY Zenon DEF CkCopy, CkReclaim, passVars
<1> QED BY <1>1, <1>2, <1>3, PassSteps, Zenon DEF CheckpointStep

LEMMA ApplyDeltaWork ==
  ASSUME ApplyDelta
  PROVE  work' \subseteq work
BY Zenon DEF ApplyDelta

LEMMA ApplyStep ==
  ASSUME TypeInv, QueueInv, ApplyInv, Next
  PROVE  ApplyInv'
<1>1. CASE (Freezing' <=> Freezing) /\ UNCHANGED commitVars /\ ~Crash
  <2>1. Durable \subseteq Durable' /\ Logged \subseteq Logged'
    BY <1>1, WalGrows, Zenon
  <2>2. Applying' = Applying /\ Current' = Current
    BY <1>1, Zenon DEF Applying, Current, commitVars
  <2> QED BY <1>1, <2>1, <2>2, Zenon DEF ApplyInv, commitVars
<1>2. CASE Allocate
  <2>1. /\ ~Freezing /\ ~Freezing' /\ apc' = apc /\ work' = work /\ deferred' = deferred
        /\ Logged' = Logged /\ Durable' = Durable
    BY <1>2, WalSame, Zenon DEF Allocate, Freezing, passVars
  <2>2. Len(inflight') # 0 /\ (inflight # <<>> => inflight'[1] = inflight[1])
    <3>1. PICK b : /\ Len(inflight') = Len(inflight) + 1
                   /\ \A i \in 1 .. Len(inflight) : inflight'[i] = inflight[i]
      BY <1>2, AllocateSets, Zenon
    <3>2. inflight \in Seq(Flights)
      BY Zenon DEF TypeInv, CommitType
    <3>3. inflight # <<>> => 1 \in 1 .. Len(inflight)
      BY <3>2
    <3> QED BY <3>1, <3>3, Members
  <2>3. inflight' # <<>>
    BY <2>2
  <2>4. apc # "idle" => inflight # <<>>
    BY <2>1, Zenon DEF ApplyInv
  <2>5. Applying' = Applying /\ (Applying => Current' = Current)
    BY <2>1, <2>2, <2>4, Zenon DEF Applying, Current
  <2> QED BY <2>1, <2>2, <2>3, <2>4, <2>5, Zenon DEF ApplyInv
<1>3. CASE Turn
  <2>1. /\ inflight # <<>> /\ inflight[1].bundle \in Logged /\ apc' = "drain"
        /\ inflight' = inflight /\ Logged' = Logged /\ cpc' = cpc
    BY <1>3, WalSame, Zenon DEF Turn, Ready, passVars
  <2> QED BY <2>1, Zenon DEF ApplyInv, Applying, Freezing
<1>4. CASE DrainFront
  <2>1. /\ deferred' = deferred /\ work' = deferred[1].ops /\ apc' = "front" /\ cpc' = cpc
        /\ Durable' = Durable /\ Logged' = Logged /\ inflight' = inflight
        /\ deferred # <<>> /\ deferred[1] \in Durable /\ apc = "drain"
    BY <1>4, WalSame, Zenon DEF DrainFront, FrontDurable, passVars
  <2>2. Current' = deferred[1]
    BY <2>1, Zenon DEF Current
  <2> QED BY <2>1, <2>2, Zenon DEF ApplyInv, Applying, Freezing
<1>5. CASE DrainStop
  <2>1. /\ apc' = "decide" /\ cpc' = cpc /\ ~Freezing /\ apc = "drain"
        /\ Logged' = Logged /\ inflight' = inflight
    BY <1>5, WalSame, Zenon DEF DrainStop, passVars
  <2> QED BY <2>1, Zenon DEF ApplyInv, Applying, Freezing
<1>6. CASE ApplyOrDefer
  <2>1. ~Freezing /\ ~Freezing'
    BY <1>6, Zenon DEF ApplyOrDefer, ApplyInv, Freezing, passVars
  <2>2. CASE deferred = <<>> /\ inflight[1].bundle \in Durable
    <3>1. /\ work' = inflight[1].bundle.ops /\ apc' = "own" /\ deferred' = <<>>
          /\ inflight' = inflight /\ Durable' = Durable /\ Logged' = Logged /\ apc = "decide"
      BY <1>6, <2>2, WalSame, Zenon DEF ApplyOrDefer
    <3>2. Current' = inflight[1].bundle
      BY <3>1, Zenon DEF Current
    <3> QED BY <2>1, <2>2, <3>1, <3>2, Zenon DEF ApplyInv, Applying
  <2>3. CASE apc' = "idle"
    BY <2>1, <2>3, Zenon DEF ApplyInv, Applying
  <2> QED BY <1>6, <2>2, <2>3, Zenon DEF ApplyOrDefer, Publish
<1>7. CASE ApplyFront \/ ApplyOwn
  <2>1. /\ work' \subseteq work /\ Durable' = Durable /\ Logged' = Logged /\ cpc' = cpc
        /\ Applying
    BY <1>7, WalSame, ApplyDeltaWork, Zenon DEF ApplyFront, ApplyOwn, passVars, Applying
  <2>2. CASE UNCHANGED <<deferred, inflight, apc>>
    <3>1. Current' = Current /\ Applying' = Applying
      BY <2>2, Zenon DEF Current, Applying
    <3> QED BY <2>1, <2>2, <3>1, Zenon DEF ApplyInv, Freezing
  <2>3. CASE apc = "front" /\ apc' = "drain" /\ UNCHANGED inflight
    BY <2>1, <2>3, Zenon DEF ApplyInv, Freezing, Applying
  <2>4. CASE apc = "own" /\ apc' = "idle"
    BY <2>1, <2>4, Zenon DEF ApplyInv, Freezing, Applying
  <2> QED BY <1>7, <2>2, <2>3, <2>4, Zenon DEF ApplyFront, ApplyOwn, Publish
<1>8. CASE CkDrain
  <2>1. apc' = "drain" /\ inflight' = <<>> /\ Freezing'
    BY <1>8, Zenon DEF CkDrain, Frozen, CkGoto, Freezing
  <2> QED BY <2>1, Zenon DEF ApplyInv, Applying
<1>9. CASE CkDrained \/ Crash
  <2>1. apc' = "idle" /\ ~Freezing'
    BY <1>9, Zenon DEF CkDrained, CkGoto, Freezing, Crash, PassOver
  <2> QED BY <2>1, Zenon DEF ApplyInv, Applying
<1>10. CASE RedoDone
  <2>1. apc' = "idle" /\ ~Freezing'
    BY <1>10, Zenon DEF RedoDone, QueueInv, Up, Freezing, passVars
  <2> QED BY <2>1, Zenon DEF ApplyInv, Applying
<1> QED BY <1>1, <1>2, <1>3, <1>4, <1>5, <1>6, <1>7, <1>8, <1>9, <1>10, CommitSteps,
           FreezeSteps, Zenon

-----------------------------------------------------------------------------
\* The redo set.
LEMMA RedoStep ==
  ASSUME TypeInv, RedoInv, Next
  PROVE  RedoInv'
<1>1. CASE Crash
  <2>1. redo' = RedoOps(wal') /\ oldest' = oldest /\ ~Up'
    BY <1>1, Zenon DEF Crash, Up
  <2>2. OnDisk(wal') = Disk'
    BY <2>1, Zenon DEF Disk, OnDisk
  <2>3. redo' \subseteq UNION {b.ops : b \in Disk'}
    BY <2>1, <2>2, Zenon DEF RedoOps
  <2> QED BY <1>1, <2>1, <2>3, CrashSets, Zenon DEF RedoInv
<1>2. CASE RedoDelta \/ RedoDone
  <2>1. redo' \subseteq redo /\ DurableDisk' = DurableDisk
    BY <1>2, WalSame, Zenon DEF RedoDelta, RedoPage, RedoDone
  <2>2. Up' => redo' = {}
    BY <1>2, Zenon DEF RedoDelta, RedoPage, RedoDone, Up
  <2> QED BY <2>1, <2>2, Zenon DEF RedoInv
<1>3. CASE mode = "up" /\ UNCHANGED modeVars
  BY <1>3, Zenon DEF RedoInv, Up, modeVars
<1> QED BY <1>1, <1>2, <1>3, ModeSteps, Zenon DEF Next

\* A delta that recovery redoes belongs to a record on disk.
LEMMA RedoRecord ==
  ASSUME TypeInv, RedoInv, NEW op \in redo
  PROVE  \E b \in Disk : b \in Durable /\ op \in b.ops
<1>1. PICK b \in DurableDisk : op \in b.ops
  BY Zenon DEF RedoInv
<1>2. 1 .. synced \subseteq 1 .. Len(wal)
  BY Members
<1> QED BY <1>1, <1>2, Zenon DEF DurableDisk, Disk, OnDisk, Durable
-----------------------------------------------------------------------------
\* recLSNs.
LEMMA FirstUnsettled ==
  ASSUME TypeInv, RecordInv, QueueInv, ApplyInv, Applying
  PROVE  /\ Current \in Unsettled /\ RecordType(Current) /\ WellFormed(Current)
         /\ \A b \in Unsettled : b = Current \/ Current.lsn < b.first
<1>1. Ascending /\ Around
  BY QueueSplit
<1>2. visible \in Nat
  BY Consts DEF TypeInv, CommitType, Marks
<1>3. CASE apc = "front"
  <2>1. deferred # <<>> /\ Current = deferred[1]
    BY <1>3, Zenon DEF ApplyInv, Current
  <2>2. 1 \in 1 .. Len(deferred)
    BY <2>1 DEF TypeInv, CommitType
  <2>3. Current \in Queued /\ RecordType(Current) /\ Current \in Known
    BY <1>1, <2>1, <2>2, Members, Zenon DEF Queued, Around, Known
  <2>4. ASSUME NEW b \in Queued PROVE b = Current \/ Current.lsn < b.first
    <3>1. PICK i \in 1 .. Len(deferred) : b = deferred[i]
      BY <2>4, Zenon DEF Queued
    <3>2. i = 1 \/ 1 < i
      BY <3>1
    <3> QED BY <1>1, <2>1, <2>2, <3>1, <3>2, Zenon DEF Ascending
  <2>5. ASSUME NEW b \in InFlight PROVE Current.lsn < b.first
    <3>1. visible < b.first /\ b.first \in Nat
      BY <1>1, <2>5, Members, Zenon DEF Around, InFlight, RecordType
    <3>2. Current.lsn <= visible
      BY <1>1, <2>1, <2>2, Zenon DEF Around
    <3>3. Current.lsn \in Nat
      BY <2>3, Consts DEF RecordType, Marks
    <3> QED BY <1>2, <3>1, <3>2, <3>3
  <2> QED BY <2>3, <2>4, <2>5, Zenon DEF Unsettled, RecordInv
<1>4. CASE apc = "own"
  <2>1. /\ deferred = <<>> /\ inflight # <<>> /\ Current = inflight[1].bundle
    BY <1>4, Zenon DEF ApplyInv, Current
  <2>2. 1 \in 1 .. Len(inflight)
    BY <2>1 DEF TypeInv, CommitType
  <2>3. Current \in InFlight /\ RecordType(Current)
    BY <2>1, <2>2, Members, Zenon DEF InFlight
  <2>4. Queued = {}
    BY <2>1 DEF Queued
  <2>5. ASSUME NEW b \in InFlight PROVE b = Current \/ Current.lsn < b.first
    <3>1. PICK i \in 1 .. Len(inflight) : b = inflight[i].bundle
      BY <2>5, Zenon DEF InFlight
    <3>2. i = 1 \/ 1 < i
      BY <3>1
    <3> QED BY <1>1, <2>1, <2>2, <3>1, <3>2, Zenon DEF Ascending
  <2> QED BY <2>3, <2>4, <2>5, Zenon DEF Unsettled, RecordInv, Known
<1> QED BY <1>3, <1>4, Zenon DEF Applying

\* One page's recLSN against the commits.
Below(p) ==
  /\ Up => rec[p] <= visible \/ (apc = "own" /\ rec[p] <= inflight[1].bundle.lsn)
  /\ \A b \in Unsettled : rec[p] < b.first \/ (Applying /\ b = Current)
  /\ Applying => \A o \in work : rec[p] <= o.lsn
  /\ ~Up => rec[p] <= sidecar.lsn \/ \E b \in Disk : rec[p] <= b.lsn

LEMMA BelowAll == RecBelow <=> \A p \in Pages : Below(p)
BY Zenon DEF RecBelow, Below

\* A recLSN never exceeds the clock.
LEMMA RecLeClock ==
  ASSUME TypeInv, RecordInv, QueueInv, ApplyInv, CkInv, NEW p \in Pages, Below(p)
  PROVE  rec[p] <= clock
<1>1. clock \in Nat /\ visible \in Nat /\ rec[p] \in Nat /\ visible <= clock
  BY Consts DEF TypeInv, CommitType, PageType, Marks, RecordInv
<1>2. CASE Up
  <2>1. CASE rec[p] <= visible
    BY <1>1, <2>1
  <2>2. CASE apc = "own" /\ rec[p] <= inflight[1].bundle.lsn
    <3>1. inflight[1].bundle \in Known
      BY <2>2, DecideHead, Zenon DEF Known
    <3>2. inflight[1].bundle.lsn <= clock /\ inflight[1].bundle.lsn \in Nat
      BY <3>1, Sets, Consts DEF RecordInv, RecordType, Marks
    <3> QED BY <1>1, <2>2, <3>2
  <2> QED BY <1>2, <2>1, <2>2, Zenon DEF Below
<1>3. CASE ~Up
  <2>1. sidecar.lsn <= clock /\ sidecar.lsn \in Nat
    BY CkTypes, Zenon DEF CkInv, CkOK, CkType
  <2>2. \A b \in Disk : b.lsn <= clock /\ b.lsn \in Nat
    BY Sets, Consts DEF RecordInv, RecordType, Marks, Known
  <2> QED BY <1>1, <1>3, <2>1, <2>2 DEF Below
<1> QED BY <1>2, <1>3

LEMMA UpSteps ==
  Next => (Up /\ Up' /\ UNCHANGED modeVars) \/ Crash \/ RedoDelta \/ RedoDone
BY ModeSteps, Zenon DEF Next, Up, modeVars

\* Applying a delta marks its page with its LSN, or leaves the recLSN.
LEMMA DeltaRec ==
  ASSUME TypeInv, ApplyDelta
  PROVE  \E op \in work : /\ \A o \in work : op.lsn <= o.lsn
                          /\ \A p \in Pages : rec'[p] = rec[p] \/ rec'[p] = op.lsn
<1>1. PICK op \in work : IsNext(op, work) /\ rec' = MarkedRec(rec, op)
  BY Zenon DEF ApplyDelta, MarkDirty
<1>2. rec \in [Pages -> Marks] /\ op.page \in Pages
  <2>1. op \in Ops
    BY <1>1, Zenon DEF TypeInv, CommitType
  <2> QED BY <2>1 DEF Ops, TypeInv, PageType
<1>3. \A p \in Pages : rec'[p] = rec[p] \/ rec'[p] = op.lsn
  BY <1>1, <1>2 DEF MarkedRec
<1> QED BY <1>1, <1>3, Zenon DEF IsNext

\* A redone delta marks its page too.
LEMMA RedoRec ==
  ASSUME TypeInv, RedoDelta
  PROVE  \E op \in redo : \A p \in Pages : rec'[p] = rec[p] \/ rec'[p] = op.lsn
<1>1. PICK op \in redo : rec' = MarkedRec(rec, op) \/ rec' = rec
  BY Zenon DEF RedoDelta, RedoPage
<1>2. rec \in [Pages -> Marks] /\ op.page \in Pages
  <2>1. op \in Ops
    BY <1>1, Zenon DEF TypeInv, ModeType
  <2> QED BY <2>1 DEF Ops, TypeInv, PageType
<1> QED BY <1>1, <1>2 DEF MarkedRec

\* The record that starts being applied is the first unsettled one.
LEMMA BelowStart ==
  ASSUME TypeInv, RecordInv, NEW p \in Pages, NEW b \in Known, rec[p] < b.first
  PROVE  \A o \in b.ops : rec[p] <= o.lsn
<1>1. RecordType(b) /\ WellFormed(b)
  BY Sets, Zenon DEF RecordInv
<1>2. rec[p] \in Nat /\ b.first \in Nat /\ \A o \in b.ops : o.lsn \in Nat
  BY <1>1, Consts DEF RecordType, TypeInv, PageType, Marks, Ops, Lsns
<1>3. \A o \in b.ops : b.first <= o.lsn
  BY <1>1, Zenon DEF WellFormed
<1> QED BY <1>2, <1>3

LEMMA BelowStep ==
  ASSUME TypeInv, RecordInv, QueueInv, ApplyInv, CkInv, RedoInv, Next, RecordInv',
         NEW p \in Pages, Below(p)
  PROVE  Below(p)'
<1>0. /\ clock \in Nat /\ visible \in Nat /\ rec[p] \in Nat /\ visible <= clock
      /\ rec[p] <= clock /\ rec'[p] \in Nat
  <2>1. rec' \in [Pages -> Marks]
    BY PageTypeStep, Zenon DEF PageType
  <2> QED BY <2>1, RecLeClock, Consts DEF TypeInv, CommitType, PageType, Marks, RecordInv
<1>1. CASE /\ Up /\ Up' /\ UNCHANGED <<visible, inflight, deferred, apc, work>>
           /\ (rec'[p] = rec[p] \/ rec'[p] = 0)
  <2>1. Unsettled' = Unsettled /\ Applying' = Applying /\ Current' = Current
    BY <1>1, Zenon DEF Unsettled, InFlight, Queued, Applying, Current
  <2>2. CASE rec'[p] = rec[p]
    BY <1>1, <2>1, <2>2, Zenon DEF Below
  <2>3. CASE rec'[p] = 0
    <3>1. \A b \in Unsettled : 0 < b.first
      <4>1. \A b \in Unsettled : b \in Known
        BY Zenon DEF Unsettled, Known, QueueInv, Queued
      <4>2. \A b \in Known : 2 <= b.first /\ b.first \in Nat
        BY Sets, Zenon DEF RecordInv, WellFormed, RecordType
      <4>3. \A b \in Known : 0 < b.first
        BY <4>2
      <4> QED BY <4>1, <4>3, Zenon
    <3>2. \A o \in work : 0 <= o.lsn
      BY Consts DEF TypeInv, CommitType, Ops, Lsns
    <3>3. 0 <= visible
      BY <1>0
    <3> QED BY <1>1, <2>1, <2>3, <3>1, <3>2, <3>3, Zenon DEF Below
  <2> QED BY <1>1, <2>2, <2>3
<1>2. CASE Up /\ Up' /\ Allocate
  <2>1. PICK b : /\ NewRecord(b) /\ InFlight' = InFlight \cup {b}
                 /\ \A i \in 1 .. Len(inflight) : inflight'[i] = inflight[i]
    BY <1>2, AllocateSets, Zenon
  <2>2. /\ visible' = visible /\ deferred' = deferred /\ apc' = apc /\ work' = work
        /\ rec' = rec /\ ~Freezing
    BY <1>2, Zenon DEF Allocate, pageVars
  <2>3. apc = "own" => inflight'[1] = inflight[1]
    <3>1. apc = "own" => inflight # <<>>
      BY <2>2, Zenon DEF ApplyInv
    <3>2. inflight # <<>> => 1 \in 1 .. Len(inflight)
      BY DEF TypeInv, CommitType
    <3> QED BY <2>1, <3>1, <3>2, Zenon
  <2>4. Applying' = Applying /\ (Applying => Current' = Current)
    BY <2>2, <2>3, Zenon DEF Applying, Current
  <2>5. Unsettled' = Unsettled \cup {b}
    BY <2>1, <2>2, Zenon DEF Unsettled, Queued
  <2>6. rec[p] < b.first
    BY <1>0, <2>1 DEF NewRecord
  <2> QED BY <1>2, <2>2, <2>3, <2>4, <2>5, <2>6, Zenon DEF Below
<1>3. CASE Up /\ Up' /\ (Turn \/ DrainStop \/ CkDrain \/ CkDrained)
  <2>1. /\ UNCHANGED <<visible, inflight, deferred, work, rec>>
        /\ apc' \in {"idle", "drain", "decide"}
    BY <1>3, Zenon DEF Turn, DrainStop, CkDrain, CkDrained, pageVars
  <2>2. apc \in {"idle", "drain"}
    <3>1. CASE Turn \/ DrainStop \/ CkDrained
      BY <3>1, Zenon DEF Turn, DrainStop, CkDrained
    <3>2. CASE CkDrain
      <4>1. inflight = <<>> /\ ~Freezing
        BY <3>2, Zenon DEF CkDrain, Frozen, CkGoto, Freezing
      <4> QED BY <4>1, Zenon DEF ApplyInv
    <3> QED BY <1>3, <3>1, <3>2
  <2>3. ~Applying /\ ~Applying' /\ Unsettled' = Unsettled /\ apc # "own"
    BY <2>1, <2>2, Zenon DEF Applying, Unsettled, InFlight, Queued
  <2> QED BY <1>3, <2>1, <2>3, Zenon DEF Below
<1>4. CASE Up /\ Up' /\ DrainFront
  <2>1. /\ UNCHANGED <<visible, inflight, deferred, rec>> /\ apc = "drain" /\ apc' = "front"
        /\ work' = deferred[1].ops /\ deferred # <<>>
    BY <1>4, Zenon DEF DrainFront, FrontDurable, pageVars
  <2>2. 1 \in 1 .. Len(deferred)
    BY <2>1 DEF TypeInv, CommitType
  <2>3. deferred[1] \in Unsettled /\ deferred[1] \in Known
    BY <2>2, Zenon DEF Queued, Unsettled, QueueInv, Known
  <2>4. Unsettled' = Unsettled /\ ~Applying
    BY <2>1, Zenon DEF Unsettled, InFlight, Queued, Applying
  <2>5. rec[p] < deferred[1].first
    BY <2>3, <2>4, Zenon DEF Below
  <2>6. \A o \in work' : rec'[p] <= o.lsn
    BY <2>1, <2>3, <2>5, BelowStart, Zenon
  <2> QED BY <1>4, <2>1, <2>4, <2>6, Zenon DEF Below
<1>5. CASE Up /\ Up' /\ ApplyOrDefer
  <2>1. rec' = rec /\ apc = "decide" /\ inflight # <<>> /\ inflight[1].bundle \in InFlight /\ ~Applying
    BY <1>5, DecideHead, Zenon DEF ApplyOrDefer, pageVars, Applying
  <2>2. CASE UNCHANGED <<visible, inflight, deferred>> /\ apc' = "own" /\ work' = inflight[1].bundle.ops
    <3>1. Unsettled' = Unsettled
      BY <2>2, Zenon DEF Unsettled, InFlight, Queued
    <3>2. rec[p] < inflight[1].bundle.first
      BY <2>1, Zenon DEF Below, Unsettled
    <3>3. \A o \in work' : rec'[p] <= o.lsn
      BY <2>1, <2>2, <3>2, BelowStart, Zenon DEF Known
    <3> QED BY <1>5, <2>1, <2>2, <3>1, <3>3, Zenon DEF Below
  <2>3. CASE Publish /\ deferred' = Append(deferred, inflight[1].bundle)
    <3>1. Unsettled' = Unsettled /\ visible' = inflight[1].bundle.lsn /\ apc' = "idle"
      BY <2>1, <2>3, DeferSets, PublishSets, Zenon DEF Unsettled, Publish
    <3>2. rec[p] <= visible
      BY <1>5, <2>1, Zenon DEF Below
    <3>3. rec[p] <= visible'
      BY <1>0, <2>1, <3>1, <3>2, HeadLsns
    <3> QED BY <2>1, <3>1, <3>3, <1>5, Zenon DEF Below, Applying
  <2> QED BY <1>5, <2>2, <2>3, Zenon DEF ApplyOrDefer
<1>6. CASE Up /\ Up' /\ (ApplyFront \/ ApplyOwn)
  <2>1. Applying /\ work' \subseteq work
    BY <1>6, ApplyDeltaWork, Zenon DEF ApplyFront, ApplyOwn, Applying
  <2>2. PICK op \in work : /\ \A o \in work : op.lsn <= o.lsn
                           /\ rec'[p] = rec[p] \/ rec'[p] = op.lsn
    BY <1>6, DeltaRec, Zenon DEF ApplyFront, ApplyOwn
  <2>3. /\ Current \in Unsettled /\ RecordType(Current) /\ WellFormed(Current)
        /\ \A b \in Unsettled : b = Current \/ Current.lsn < b.first
    BY <2>1, FirstUnsettled, Zenon
  <2>4. op \in Current.ops
    BY <2>1, <2>2, Zenon DEF ApplyInv
  <2>5. op.lsn <= Current.lsn
    BY <2>3, <2>4, Zenon DEF WellFormed
  <2>6. op.lsn \in Nat /\ Current.lsn \in Nat
    BY <2>3, <2>4, Consts DEF RecordType, Marks, Ops, Lsns
  <2>7. rec[p] <= Current.lsn
    <3>1. rec[p] <= op.lsn
      BY <2>1, <2>2, Zenon DEF Below
    <3> QED BY <1>0, <2>5, <2>6, <3>1
  <2>8. rec'[p] <= Current.lsn
    BY <2>2, <2>5, <2>7, Zenon
  <2>9. \A o \in work' : rec'[p] <= o.lsn
    BY <2>1, <2>2, Zenon DEF Below
  <2>10. \A b \in Unsettled : b # Current => rec'[p] < b.first
    <3>1. \A b \in Unsettled : b.first \in Nat
      BY Sets, Zenon DEF RecordType
    <3> QED BY <1>0, <2>3, <2>6, <2>8, <3>1
  <2>11. CASE UNCHANGED <<visible, deferred, inflight, apc>>
    <3>1. Unsettled' = Unsettled /\ Applying' = Applying /\ Current' = Current
      BY <2>11, Zenon DEF Unsettled, InFlight, Queued, Applying, Current
    <3>2. rec'[p] <= visible' \/ (apc' = "own" /\ rec'[p] <= inflight'[1].bundle.lsn)
      <4>1. CASE apc = "own"
        BY <2>8, <2>11, <4>1, Zenon DEF Current
      <4>2. CASE apc = "front"
        <5>1. deferred # <<>> /\ Current = deferred[1]
          BY <4>2, Zenon DEF ApplyInv, Current
        <5>2. 1 \in 1 .. Len(deferred)
          BY <5>1 DEF TypeInv, CommitType
        <5>3. Current.lsn <= visible
          BY <5>1, <5>2, Zenon DEF QueueInv
        <5> QED BY <1>0, <2>6, <2>8, <2>11, <5>3
      <4> QED BY <2>1, <4>1, <4>2, Zenon DEF Applying
    <3> QED BY <1>6, <2>1, <2>9, <2>10, <3>1, <3>2, Zenon DEF Below
  <2>12. CASE apc = "front" /\ apc' = "drain" /\ UNCHANGED <<visible, inflight>> /\ deferred' = Tail(deferred)
    <3>1. deferred # <<>> /\ Current = deferred[1]
      BY <2>12, Zenon DEF ApplyInv, Current
    <3>2. 1 \in 1 .. Len(deferred)
      BY <3>1 DEF TypeInv, CommitType
    <3>3. /\ Queued = {deferred[1]} \cup Queued'
          /\ \A i \in 1 .. Len(deferred') : i + 1 \in 1 .. Len(deferred) /\ deferred'[i] = deferred[i + 1]
      BY <2>12, <3>1, FrontSets, Zenon
    <3>4. \A i \in 1 .. Len(deferred') : 1 < i + 1
      OBVIOUS
    <3>5. \A b \in Queued' : deferred[1].lsn < b.first
      <4>1. \A i \in 1 .. Len(deferred') : deferred[1].lsn < deferred'[i].first
        BY <3>2, <3>3, <3>4, Zenon DEF QueueInv
      <4> QED BY <4>1, Zenon DEF Queued
    <3>6. Current.lsn <= visible
      BY <3>1, <3>2, Zenon DEF QueueInv
    <3>7. rec'[p] <= visible'
      BY <1>0, <2>6, <2>8, <2>12, <3>6
    <3>8. \A b \in Queued' : rec'[p] < b.first
      <4>1. \A b \in Queued' : b.first \in Nat
        BY <3>3, Sets, Zenon DEF RecordType, Unsettled
      <4> QED BY <1>0, <2>6, <2>8, <3>1, <3>5, <4>1
    <3>9. \A b \in InFlight : rec'[p] < b.first
      <4>1. \A b \in InFlight : visible < b.first /\ b.first \in Nat
        BY Sets, Zenon DEF QueueInv, InFlight, Unsettled, RecordType
      <4> QED BY <1>0, <2>12, <3>7, <4>1
    <3>10. InFlight' = InFlight /\ ~Applying'
      BY <2>12, Zenon DEF InFlight, Applying
    <3> QED BY <1>6, <3>7, <3>8, <3>9, <3>10, Zenon DEF Below, Unsettled
  <2>13. CASE apc = "own" /\ Publish /\ UNCHANGED deferred
    <3>1. inflight # <<>> /\ Current = inflight[1].bundle /\ deferred = <<>> /\ 1 \in 1 .. Len(inflight)
      BY <1>6, <2>13, PublishOrNot, Zenon DEF ApplyInv, Current, ApplyFront
    <3>2. /\ \A i \in 1 .. Len(inflight') : i + 1 \in 1 .. Len(inflight) /\ inflight'[i] = inflight[i + 1]
          /\ visible' = inflight[1].bundle.lsn /\ apc' = "idle" /\ InFlight' \subseteq InFlight
      BY <2>13, <3>1, PublishSets, Zenon DEF Publish
    <3>3. \A i \in 1 .. Len(inflight') : 1 < i + 1
      OBVIOUS
    <3>4. \A b \in InFlight' : inflight[1].bundle.lsn < b.first
      BY <3>1, <3>2, <3>3, ZenonT(30) DEF QueueInv, InFlight
    <3>5. \A b \in InFlight' : rec'[p] < b.first
      <4>1. \A b \in InFlight' : b.first \in Nat
        BY <3>2, Sets, Zenon DEF RecordType, Unsettled
      <4> QED BY <1>0, <2>6, <2>8, <3>1, <3>4, <4>1
    <3>6. Queued' = {}
      BY <2>13, <3>1 DEF Queued
    <3> QED BY <1>6, <2>8, <3>1, <3>2, <3>5, <3>6, Zenon DEF Below, Unsettled, Applying
  <2> QED BY <1>6, <2>11, <2>12, <2>13, Zenon DEF ApplyFront, ApplyOwn
<1>7. CASE Crash
  <2>1. inflight' = <<>> /\ deferred' = <<>> /\ apc' = "idle" /\ rec' = sidecar.rec /\ ~Up' /\ sidecar' = sidecar
    BY <1>7, Zenon DEF Crash, Up
  <2>2. Unsettled' = {} /\ ~Applying'
    BY <2>1 DEF Unsettled, InFlight, Queued, Applying
  <2>3. sidecar.rec[p] <= sidecar.lsn
    BY CkTypes, Consts DEF CkInv, CkOK, CkType, Marks
  <2> QED BY <2>1, <2>2, <2>3, Zenon DEF Below
<1>8. CASE RedoDelta
  <2>1. ~Up /\ ~Up' /\ UNCHANGED commitVars /\ UNCHANGED walVars /\ sidecar' = sidecar
    BY <1>8, Zenon DEF RedoDelta, RedoPage, Up, diskVars
  <2>2. PICK op \in redo : rec'[p] = rec[p] \/ rec'[p] = op.lsn
    BY <1>8, RedoRec
  <2>3. PICK b \in Disk : op \in b.ops
    BY RedoRecord
  <2>4. op.lsn <= b.lsn
    BY <2>3, Sets, Zenon DEF RecordInv, WellFormed, Known
  <2>5. rec'[p] <= sidecar.lsn \/ \E c \in Disk : rec'[p] <= c.lsn
    BY <2>1, <2>2, <2>3, <2>4, Zenon DEF Below
  <2>6. inflight' = <<>> /\ deferred' = <<>> /\ apc' = "idle"
    BY <2>1, Zenon DEF QueueInv, commitVars
  <2>7. Unsettled' = {} /\ ~Applying'
    BY <2>6 DEF Unsettled, InFlight, Queued, Applying
  <2> QED BY <2>1, <2>5, <2>7, WalSame, Zenon DEF Below
<1>9. CASE RedoDone
  <2>1. /\ ~Up /\ Up' /\ rec' = rec /\ sidecar.lsn <= visible' /\ \A b \in Disk : b.lsn <= visible'
        /\ inflight' = inflight /\ deferred' = deferred /\ apc' = apc
    BY <1>9, Zenon DEF RedoDone, Disk, Up, pageVars
  <2>2. rec[p] <= visible'
    <3>1. visible' \in Nat /\ sidecar.lsn \in Nat /\ \A b \in Disk : b.lsn \in Nat
      BY CommitTypeStep, CkTypes, Sets, Consts DEF CommitType, Marks, CkType, RecordType, Known
    <3> QED BY <1>0, <2>1, <3>1 DEF Below
  <2>3. inflight' = <<>> /\ deferred' = <<>> /\ apc' = "idle"
    BY <2>1, Zenon DEF QueueInv
  <2>4. Unsettled' = {} /\ ~Applying'
    BY <2>3 DEF Unsettled, InFlight, Queued, Applying
  <2> QED BY <2>1, <2>2, <2>4, Zenon DEF Below
<1>10. CASE UNCHANGED commitVars /\ ~RedoDelta /\ ~Crash /\ ~ApplyFront /\ ~ApplyOwn /\ Up /\ Up'
  <2>1. rec'[p] = rec[p] \/ rec'[p] = 0
    BY <1>10, PageSteps, Zenon DEF pageVars, CkComplete, CkIoError
  <2> QED BY <1>1, <1>10, <2>1, Zenon DEF commitVars
<1> QED BY <1>2, <1>3, <1>4, <1>5, <1>6, <1>7, <1>8, <1>9, <1>10, CommitSteps, UpSteps, Zenon

LEMMA RecBelowStep ==
  ASSUME TypeInv, RecordInv, QueueInv, ApplyInv, CkInv, RedoInv, RecBelow, Next, RecordInv'
  PROVE  RecBelow'
<1>1. \A p \in Pages : Below(p)'
  BY BelowAll, BelowStep, Zenon
<1> QED BY <1>1, Zenon DEF RecBelow, Below
-----------------------------------------------------------------------------
\* Checkpoints.  While the database is up, LSNs grow and a new record is above them all.
LEMMA Settling ==
  ASSUME TypeInv, RecordInv, QueueInv, ApplyInv, Next, Up, Up', ~Crash
  PROVE  /\ visible <= visible' /\ clock <= clock'
         /\ \A b \in Unsettled' : b \in Unsettled \/ (clock < b.first /\ clock < b.lsn)
         /\ \A b \in Known' : b \in Known \/ (clock < b.first /\ clock < b.lsn)
<1>1. clock \in Nat /\ visible \in Nat
  BY Consts DEF TypeInv, CommitType, Marks
<1>2. CASE UNCHANGED <<visible, inflight, deferred, wal, mode>> /\ clock' = clock
  <2>1. Unsettled' = Unsettled /\ Known' = Known
    BY <1>2, Zenon DEF Unsettled, InFlight, Queued, Known, Logged
  <2> QED BY <1>1, <1>2, <2>1
<1>3. CASE Allocate
  <2>1. PICK b : NewRecord(b) /\ clock' = b.lsn /\ InFlight' = InFlight \cup {b}
    BY <1>3, AllocateSets, Zenon
  <2>2. Logged' = Logged /\ Queued' = Queued /\ visible' = visible
    BY <1>3, WalSame, Zenon DEF Allocate, Queued
  <2>3. clock < b.first /\ clock < b.lsn /\ clock <= b.lsn
    BY <1>1, <2>1, Consts DEF NewRecord, Records, Lsns
  <2>4. visible <= visible
    BY <1>1
  <2> QED BY <2>1, <2>2, <2>3, <2>4, Zenon DEF Unsettled, Known
<1>4. CASE LogAppend
  <2>1. UNCHANGED commitVars /\ \E b \in InFlight : Logged' = Logged \cup {b}
    BY <1>4, AppendSets, Zenon DEF LogAppend
  <2>2. Unsettled' = Unsettled /\ InFlight' = InFlight /\ clock' = clock /\ visible' = visible
    BY <2>1, Zenon DEF Unsettled, InFlight, Queued, commitVars
  <2>3. Known' = Known
    BY <2>1, <2>2, Zenon DEF Known
  <2> QED BY <1>1, <2>2, <2>3
<1>5. CASE ApplyFront
  <2>1. /\ UNCHANGED <<clock, visible, inflight>> /\ Logged' = Logged
        /\ deferred # <<>> /\ (deferred' = deferred \/ deferred' = Tail(deferred))
    BY <1>5, WalSame, Zenon DEF ApplyFront, ApplyInv
  <2>2. Queued' \subseteq Queued
    <3>1. CASE deferred' = deferred
      BY <3>1, Zenon DEF Queued
    <3>2. CASE deferred' = Tail(deferred)
      BY <2>1, <3>2, FrontSets, Zenon
    <3> QED BY <2>1, <3>1, <3>2
  <2>3. InFlight' = InFlight
    BY <2>1, Zenon DEF InFlight
  <2> QED BY <1>1, <2>1, <2>2, <2>3 DEF Unsettled, Known
<1>6. CASE ApplyOrDefer \/ ApplyOwn
  <2>1. /\ inflight # <<>> /\ 1 \in 1 .. Len(inflight) /\ clock' = clock
        /\ (UNCHANGED <<visible, inflight>> \/ Publish)
    BY <1>6, PublishOrNot, Zenon
  <2>2. Logged' = Logged
    BY <1>6, PublishOrNot, WalSame, Zenon
  <2>3. \/ UNCHANGED <<visible, inflight, deferred>>
        \/ Publish /\ deferred' = Append(deferred, inflight[1].bundle)
        \/ Publish /\ deferred' = deferred
    BY <1>6, Zenon DEF ApplyOrDefer, ApplyOwn
  <2>4. CASE UNCHANGED <<visible, inflight, deferred>>
    <3>1. Unsettled' = Unsettled /\ InFlight' = InFlight
      BY <2>4, Zenon DEF Unsettled, InFlight, Queued
    <3> QED BY <1>1, <2>1, <2>2, <2>4, <3>1 DEF Known
  <2>5. CASE Publish
    <3>1. InFlight' \subseteq InFlight /\ inflight[1].bundle \in InFlight /\ visible' = inflight[1].bundle.lsn
      BY <2>1, <2>5, PublishSets, Zenon
    <3>2. Queued' = Queued \/ Queued' = Queued \cup {inflight[1].bundle}
      <4>1. CASE deferred' = deferred
        BY <4>1, Zenon DEF Queued
      <4>2. CASE deferred' = Append(deferred, inflight[1].bundle)
        BY <2>1, <4>2, DeferSets, Zenon
      <4> QED BY <2>3, <2>5, <4>1, <4>2, Zenon
    <3>3. visible <= visible'
      BY <1>1, <2>1, <3>1, HeadLsns
    <3>4. clock <= clock'
      BY <1>1, <2>1
    <3> QED BY <2>2, <3>1, <3>2, <3>3, <3>4, Zenon DEF Unsettled, Known
  <2> QED BY <2>3, <2>4, <2>5
<1>7. ~RedoDelta /\ ~RedoDone
  BY Zenon DEF Up, RedoDelta, RedoDone
<1>8. clock' = clock \/ Allocate
  BY <1>7, RecordSteps, PublishOrNot, Zenon DEF LogAppend, commitVars
<1>9. CASE UNCHANGED <<visible, inflight, deferred, wal, mode>> /\ ~Allocate
  BY <1>2, <1>8, <1>9, Zenon
<1> QED BY <1>3, <1>4, <1>5, <1>6, <1>7, <1>9, QueueSteps, Zenon

\* The types of the records after a step.
LsnTypes == \A b \in Known \cup Unsettled : b.lsn \in Nat /\ b.first \in Nat

LEMMA RecordLsns == TypeInv => LsnTypes
BY Sets, Consts DEF RecordType, Marks, LsnTypes

LEMMA SetsAfter == TypeInv' => LsnTypes'
BY RecordLsns, PTL

\* A checkpoint stays one while the database is up.
LEMMA CkFrame ==
  ASSUME TypeInv, RecordInv, QueueInv, ApplyInv, Next, Up, Up', ~Crash,
         TypeInv', RecordInv', NEW s \in Checkpoints, CkOK(s)
  PROVE  CkOK(s)'
<1>1. CkType(s)
  BY Consts DEF Checkpoints, CkType, Marks
<1>2. /\ 1 <= s.lsn /\ s.redo <= s.lsn /\ s.lsn <= clock /\ s.lsn <= visible /\ s.capture <= clock
      /\ \A p \in Pages : s.rec[p] # 0 => s.redo <= s.rec[p] /\ s.rec[p] <= s.lsn
      /\ \A b \in Unsettled : s.lsn < b.lsn
      /\ \A b \in Known : s.lsn < b.lsn => \A p \in Pages : s.rec[p] < b.first
  BY Zenon DEF CkOK
<1>3. /\ visible <= visible' /\ clock <= clock'
      /\ \A b \in Unsettled' : b \in Unsettled \/ (clock < b.first /\ clock < b.lsn)
      /\ \A b \in Known' : b \in Known \/ (clock < b.first /\ clock < b.lsn)
  BY Settling, Zenon
<1>4. clock \in Nat /\ visible \in Nat /\ clock' \in Nat /\ visible' \in Nat
  BY Consts DEF TypeInv, CommitType, Marks
<1>5. s.lsn <= clock' /\ s.lsn <= visible' /\ s.capture <= clock'
  BY <1>1, <1>2, <1>3, <1>4 DEF CkType
<1>6. \A b \in Known' \cup Unsettled' : b.lsn \in Nat /\ b.first \in Nat
  BY SetsAfter, Zenon DEF LsnTypes
<1>7. \A b \in Unsettled' : s.lsn < b.lsn
  <2>1. \A b \in Unsettled' : clock < b.lsn => s.lsn < b.lsn
    BY <1>1, <1>2, <1>4, <1>6 DEF CkType
  <2> QED BY <1>2, <1>3, <2>1, Zenon
<1>8. \A b \in Known' : s.lsn < b.lsn => \A p \in Pages : s.rec[p] < b.first
  <2>1. \A p \in Pages : s.rec[p] \in Nat /\ s.rec[p] <= s.lsn
    BY <1>1, <1>2, Consts DEF CkType, Marks
  <2>2. \A b \in Known', p \in Pages : clock < b.first => s.rec[p] < b.first
    BY <1>1, <1>2, <1>4, <1>6, <2>1 DEF CkType
  <2> QED BY <1>2, <1>3, <2>2, Zenon
<1> QED BY <1>2, <1>5, <1>7, <1>8, Zenon DEF CkOK

\* deferred_v9_boundary: the frontier is the highest published LSN below the queue.
LEMMA FrontierIs ==
  ASSUME TypeInv, RecordInv, QueueInv
  PROVE  /\ Frontier \in Nat /\ 1 <= Frontier /\ Frontier <= visible /\ Frontier \in Marks
         /\ \A b \in Queued : Frontier < b.lsn
         /\ \A n \in Nat : n <= visible /\ (\A q \in Queued : n < q.lsn) => n <= Frontier
<1>1. visible \in Nat /\ 1 <= visible /\ visible \in Marks
  BY Consts DEF TypeInv, CommitType, Marks, RecordInv
<1>2. CASE deferred = <<>>
  <2>1. Queued = {}
    BY <1>2 DEF Queued
  <2> QED BY <1>1, <1>2, <2>1 DEF Frontier
<1>3. CASE deferred # <<>>
  <2>1. 1 \in 1 .. Len(deferred)
    BY <1>3 DEF TypeInv, CommitType
  <2>2. deferred[1] \in Queued /\ deferred[1].lsn <= visible /\ deferred[1] \in Known
    BY <2>1, Zenon DEF Queued, QueueInv, Known
  <2>3. deferred[1].lsn \in Nat /\ deferred[1].first \in Nat
    BY <2>1, Members, Consts DEF RecordType, Marks
  <2>4. 2 <= deferred[1].first /\ deferred[1].first <= deferred[1].lsn
    BY <2>2, Zenon DEF RecordInv, WellFormed
  <2>5. Frontier = deferred[1].lsn - 1
    BY <1>1, <1>3, <2>2, <2>3 DEF Frontier
  <2>6. \A b \in Queued : deferred[1].lsn <= b.lsn /\ b.lsn \in Nat
    <3>1. \A i \in 1 .. Len(deferred) :
            /\ deferred[i].lsn \in Nat /\ deferred[i].first \in Nat /\ deferred[i].first <= deferred[i].lsn
            /\ i # 1 => deferred[1].lsn < deferred[i].first
      <4>1. \A i \in 1 .. Len(deferred) : deferred[i] \in Known
        BY Zenon DEF QueueInv, Known
      <4>2. \A b \in Known : b.lsn \in Nat /\ b.first \in Nat /\ b.first <= b.lsn
        BY Sets, Consts DEF RecordType, Marks, RecordInv, WellFormed
      <4>3. \A i \in 1 .. Len(deferred) : i # 1 => 1 < i
        OBVIOUS
      <4> QED BY <2>1, <4>1, <4>2, <4>3, Zenon DEF QueueInv
    <3>2. \A i \in 1 .. Len(deferred) : deferred[1].lsn <= deferred[i].lsn /\ deferred[i].lsn \in Nat
      BY <2>3, <3>1
    <3> QED BY <3>2, Zenon DEF Queued
  <2>7. Frontier \in Nat /\ 1 <= Frontier /\ Frontier <= visible /\ Frontier \in Marks
    BY <1>1, <2>2, <2>3, <2>4, <2>5, Consts DEF Marks
  <2>8. \A b \in Queued : Frontier < b.lsn
    BY <2>3, <2>5, <2>6
  <2>9. \A n \in Nat : n < deferred[1].lsn => n <= Frontier
    BY <2>3, <2>5
  <2> QED BY <2>2, <2>7, <2>8, <2>9, Zenon
<1> QED BY <1>2, <1>3

\* Which steps change a checkpoint.
LEMMA CkSteps ==
  ASSUME Next
  PROVE  /\ sidecar' = sidecar \/ CkSidecar
         /\ Captured' => (Captured /\ meta' = meta) \/ CkCapture \/ CkMetadata
         /\ cpc' = "reclaim" => (cpc = "reclaim" /\ UNCHANGED <<sidecar, meta>>) \/ CkSidecar
<1>1. sidecar' = sidecar \/ CkSidecar
  BY DiskSteps, Zenon DEF diskVars, CkStage, CkHome, CkIoError, Crash
<1>2. CASE UNCHANGED passVars
  <2>1. ~CkSidecar
    BY <1>2, Zenon DEF CkSidecar, CkGoto, passVars
  <2> QED BY <1>1, <1>2, <2>1, Zenon DEF passVars, Captured
<1>3. CASE CkReclaim
  <2>1. UNCHANGED passVars
    BY <1>3, Zenon DEF CkReclaim
  <2> QED BY <1>2, <2>1
<1>4. CASE Crash \/ CkIoError
  <2>1. cpc' = "idle"
    BY <1>4, Zenon DEF Crash, CkIoError, PassOver
  <2> QED BY <1>1, <2>1, Zenon DEF Captured
<1>5. CASE CkBegin \/ CkFlush \/ CkDrain \/ CkDrained \/ CkSnapshot \/ CkCopied
  BY <1>1, <1>5, Zenon DEF CkBegin, CkFlush, CkDrain, CkDrained, CkSnapshot, CkCopied, CkGoto, Captured
<1>6. CASE CkCopy \/ CkStage \/ CkHome \/ CkComplete \/ CkHorizon \/ CkDone
  BY <1>1, <1>6, Zenon DEF CkCopy, CkStage, CkHome, CkComplete, CkHorizon, CkDone, CkGoto, Captured
<1>7. CASE CkCapture \/ CkMetadata \/ CkSidecar
  BY <1>1, <1>7, Zenon DEF CkCapture, CkMetadata, CkSidecar, CkGoto, Captured
<1> QED BY <1>2, <1>3, <1>4, <1>5, <1>6, <1>7, PassSteps, Zenon DEF CheckpointStep

\* Under the freeze nothing is being applied and no commit is in flight.
LEMMA FrozenIdle ==
  ASSUME ApplyInv, inflight = <<>>, ~Freezing
  PROVE  apc = "idle" /\ InFlight = {} /\ Unsettled = Queued /\ Known = Logged /\ ~Applying
<1>1. apc = "idle" /\ ~Applying
  BY Zenon DEF ApplyInv, Applying
<1>2. InFlight = {}
  BY DEF InFlight
<1> QED BY <1>1, <1>2 DEF Unsettled, Known

\* What the capture takes is a checkpoint, not below the established one.
LEMMA CaptureOK ==
  ASSUME TypeInv, RecordInv, QueueInv, ApplyInv, RecBelow, CkInv, Up, CkCapture, NEW s, s = meta'
  PROVE  CkOK(s) /\ sidecar.lsn <= s.lsn /\ s.lsn = Frontier
<1>1. inflight = <<>> /\ cpc = "capture"
  BY Zenon DEF CkCapture, Frozen, CkGoto
<1>2. apc = "idle" /\ InFlight = {} /\ Unsettled = Queued /\ Known = Logged /\ ~Applying
  BY <1>1, FrozenIdle, Zenon DEF Freezing
<1>3. PICK r \in Floors : /\ \A f \in Floors : r <= f
                          /\ s = [lsn |-> Frontier, redo |-> r, rec |-> rec, capture |-> 0]
  BY Zenon DEF CkCapture
<1>4. s.lsn = Frontier /\ s.redo = r /\ s.rec = rec /\ s.capture = 0
  BY <1>3
<1>5. /\ Frontier \in Nat /\ 1 <= Frontier /\ Frontier <= visible
      /\ \A b \in Queued : Frontier < b.lsn
      /\ \A n \in Nat : n <= visible /\ (\A q \in Queued : n < q.lsn) => n <= Frontier
  BY FrontierIs, Zenon
<1>6. clock \in Nat /\ visible \in Nat /\ visible <= clock /\ rec \in [Pages -> Marks]
  BY Consts DEF TypeInv, CommitType, PageType, Marks, RecordInv
<1>7. \A p \in Pages : rec[p] <= visible /\ \A b \in Queued : rec[p] < b.first
  BY <1>2, Zenon DEF RecBelow
<1>8. \A b \in Known : b.first <= b.lsn /\ b.first \in Nat /\ b.lsn \in Nat
  BY RecordLsns, Zenon DEF LsnTypes, RecordInv, WellFormed
<1>9. Queued \subseteq Known
  BY <1>2, Zenon DEF Queued, QueueInv
<1>10. \A p \in Pages : rec[p] \in Nat /\ rec[p] <= Frontier
  <2>1. \A p \in Pages : rec[p] \in Nat
    BY <1>6, Consts DEF Marks
  <2>2. \A p \in Pages : \A b \in Queued : rec[p] < b.lsn
    BY <1>7, <1>8, <1>9, <2>1
  <2> QED BY <1>5, <1>7, <2>1, <2>2, Zenon
<1>11. \A p \in Pages : rec[p] # 0 => rec[p] \in Floors
  BY Zenon DEF Floors, Dirty
<1>12. r <= Frontier
  <2>1. CASE Dirty = {}
    BY <1>3, <2>1, Zenon DEF Floors
  <2>2. CASE Dirty # {}
    <3>1. PICK p \in Pages : rec[p] # 0
      BY <2>2, Zenon DEF Dirty
    <3>2. r <= rec[p] /\ rec[p] <= Frontier /\ rec[p] \in Nat
      BY <1>3, <1>10, <1>11, <3>1, Zenon
    <3>3. r \in Nat
      <4>1. deferred # <<>> => deferred[1].first \in Nat
        <5>1. deferred # <<>> => 1 \in 1 .. Len(deferred)
          BY DEF TypeInv, CommitType
        <5> QED BY <5>1, Members, Zenon DEF RecordType
      <4> QED BY <1>3, <1>5, <1>10, <4>1, Zenon DEF Floors, Dirty
    <3> QED BY <1>5, <3>2, <3>3
  <2> QED BY <2>1, <2>2
<1>13. \A b \in Known : Frontier < b.lsn => \A p \in Pages : rec[p] < b.first
  <2>1. ASSUME NEW b \in Known, b \notin Queued PROVE b.lsn <= Frontier
    <3>1. b.lsn <= visible /\ \A q \in Queued : b.lsn < q.first
      BY <1>2, <2>1, Zenon DEF QueueInv
    <3>2. \A q \in Queued : b.lsn < q.lsn
      BY <1>8, <1>9, <3>1
    <3> QED BY <1>5, <1>8, <3>1, <3>2, Zenon
  <2>2. \A b \in Known : b \notin Queued => ~(Frontier < b.lsn)
    BY <1>5, <1>8, <2>1
  <2> QED BY <1>7, <2>2, Zenon
<1>14. Frontier <= clock /\ 0 <= clock
  BY <1>5, <1>6
<1>15. sidecar.lsn <= Frontier
  <2>1. sidecar.lsn <= visible /\ sidecar.lsn \in Nat /\ \A q \in Queued : sidecar.lsn < q.lsn
    BY <1>2, CkTypes, Zenon DEF CkInv, CkOK, CkType
  <2> QED BY <1>5, <2>1, Zenon
<1>16. CkOK(s)
  BY <1>2, <1>3, <1>4, <1>5, <1>10, <1>11, <1>12, <1>13, <1>14, Zenon DEF CkOK
<1> QED BY <1>4, <1>15, <1>16, Zenon

\* Deleted segments hold nothing above the established checkpoint.
LEMMA DeletedStep ==
  ASSUME TypeInv, CkInv, Next, TypeInv'
  PROVE  \A i \in 1 .. Len(wal') : wal'[i].seg < oldest' => wal'[i].bundle.lsn <= sidecar'.lsn
<1>1. \A i \in 1 .. Len(wal) : wal[i].seg < oldest => wal[i].bundle.lsn <= sidecar.lsn
  BY Zenon DEF CkInv
<1>2. wal \in Seq(Entries) /\ seg \in Nat /\ oldest \in Nat /\ oldest <= seg /\ Len(wal) \in Nat
  BY DEF TypeInv, WalType
<1>3. CASE CkSidecar
  <2>1. UNCHANGED walVars /\ sidecar' = meta /\ cpc = "sidecar"
    BY <1>3, Zenon DEF CkSidecar, CkGoto
  <2>2. sidecar.lsn <= meta.lsn /\ sidecar.lsn \in Nat /\ meta.lsn \in Nat
    BY <2>1, CkTypes, Zenon DEF CkInv, Captured, CkType
  <2>3. \A i \in 1 .. Len(wal) : wal[i].bundle.lsn \in Nat
    BY Members, Consts DEF RecordType, Marks
  <2>4. \A i \in 1 .. Len(wal) : wal[i].seg < oldest => wal[i].bundle.lsn <= meta.lsn
    BY <1>1, <2>2, <2>3
  <2> QED BY <2>1, <2>4, Zenon DEF walVars
<1>4. CASE sidecar' = sidecar /\ UNCHANGED <<wal, oldest>>
  BY <1>1, <1>4, Zenon
<1>5. CASE sidecar' = sidecar /\ LogAppend
  <2>1. PICK i \in 1 .. Len(inflight), s \in {seg, seg + 1} :
          wal' = Append(wal, Entry(inflight[i].bundle, s)) /\ oldest' = oldest
    BY <1>5, Zenon DEF LogAppend
  <2>2. Entry(inflight[i].bundle, s) \in Entries
    <3>1. wal' \in Seq(Entries)
      BY Zenon DEF TypeInv, WalType
    <3> QED BY <1>2, <2>1, <3>1
  <2>3. /\ Len(wal') = Len(wal) + 1 /\ wal'[Len(wal) + 1] = Entry(inflight[i].bundle, s)
        /\ \A j \in 1 .. Len(wal) : wal'[j] = wal[j]
    BY <1>2, <2>1, <2>2
  <2>4. \A j \in 1 .. Len(wal') : j \in 1 .. Len(wal) \/ j = Len(wal) + 1
    BY <1>2, <2>3
  <2>5. ~(Entry(inflight[i].bundle, s).seg < oldest)
    BY <1>2, <2>1 DEF Entry
  <2> QED BY <1>1, <1>5, <2>1, <2>3, <2>4, <2>5, Zenon
<1>6. CASE sidecar' = sidecar /\ CkReclaim
  <2>1. wal' = wal /\ oldest' = oldest + 1 /\ cpc = "reclaim"
    BY <1>6, Zenon DEF CkReclaim
  <2>2. \A i \in 1 .. Len(wal) : wal[i].seg = oldest => wal[i].bundle.lsn <= meta.redo
    BY <1>6, Zenon DEF CkReclaim, Reclaimable, OldestEntries
  <2>3. meta.redo <= sidecar.lsn /\ meta.redo \in Nat /\ sidecar.lsn \in Nat
    BY <2>1, CkTypes, Zenon DEF CkInv, CkOK, Captured, CkType
  <2>4. \A i \in 1 .. Len(wal) : wal[i].seg = oldest => wal[i].bundle.lsn <= sidecar.lsn
    <3>1. \A i \in 1 .. Len(wal) : wal[i].bundle.lsn \in Nat
      BY Members, Consts DEF RecordType, Marks
    <3> QED BY <2>2, <2>3, <3>1
  <2>5. \A i \in 1 .. Len(wal) : wal[i].seg < oldest + 1 => wal[i].seg < oldest \/ wal[i].seg = oldest
    BY <1>2, Members
  <2> QED BY <1>1, <1>6, <2>1, <2>4, <2>5, Zenon
<1>7. CASE sidecar' = sidecar /\ Crash
  <2>1. PICK n \in synced .. Len(wal) : wal' = SubSeq(wal, 1, n) /\ oldest' = oldest
    BY <1>7, Zenon DEF Crash
  <2>2. Len(wal') = n /\ \A i \in 1 .. n : wal'[i] = wal[i] /\ i \in 1 .. Len(wal)
    <3>1. synced \in Nat
      BY DEF TypeInv, WalType
    <3> QED BY <1>2, <2>1, <3>1
  <2> QED BY <1>1, <1>7, <2>1, <2>2, Zenon
<1>8. CASE LogSync \/ CkFlush
  <2>1. UNCHANGED <<wal, oldest>> /\ sidecar' = sidecar
    BY <1>8, Zenon DEF LogSync, CkFlush, diskVars
  <2> QED BY <1>4, <2>1
<1> QED BY <1>3, <1>4, <1>5, <1>6, <1>7, <1>8, WalSteps, CkSteps, Zenon DEF walVars

LEMMA CkStep ==
  ASSUME TypeInv, RecordInv, QueueInv, ApplyInv, CkInv, RecBelow, ReachInv, Next, TypeInv', RecordInv'
  PROVE  CkInv'
<1>1. sidecar \in Checkpoints /\ meta \in Checkpoints /\ meta' \in Checkpoints
  BY Zenon DEF TypeInv, DiskType, PassType
<1>2. CASE Up /\ Up' /\ ~Crash
  <2>1. \A s \in Checkpoints : CkOK(s) => CkOK(s)'
    BY <1>2, CkFrame, Zenon
  <2>2. CASE CkSidecar
    <3>1. sidecar' = meta /\ meta' = meta /\ Captured
      BY <2>2, Zenon DEF CkSidecar, CkGoto, Captured
    <3>2. PICK s : s = meta
      OBVIOUS
    <3>3. CkOK(s)'
      BY <1>1, <2>1, <3>1, <3>2, Zenon DEF CkInv
    <3>4. sidecar' = s /\ meta' = s
      BY <3>1, <3>2
    <3>5. CkOK(sidecar)' /\ CkOK(meta)'
      BY <3>3, <3>4, Zenon DEF CkOK
    <3>6. s.lsn <= s.lsn
      BY <3>2, CkTypes DEF CkType
    <3> QED BY <3>4, <3>5, <3>6, DeletedStep, Zenon DEF CkInv
  <2>3. CASE sidecar' = sidecar /\ ~CkSidecar
    <3>1. PICK c : c = sidecar
      OBVIOUS
    <3>2. CkOK(c)' /\ sidecar' = c
      BY <1>1, <2>1, <2>3, <3>1, Zenon DEF CkInv
    <3>3. CkOK(sidecar)'
      BY <3>2, Zenon DEF CkOK
    <3>4. CASE ~Captured'
      <4>1. cpc' # "reclaim"
        BY <3>4, Zenon DEF Captured
      <4> QED BY <3>3, <3>4, <4>1, DeletedStep, Zenon DEF CkInv
    <3>5. CASE Captured /\ meta' = meta
      <4>1. PICK s : s = meta
        OBVIOUS
      <4>2. CkOK(s)' /\ meta' = s /\ sidecar'.lsn <= s.lsn
        BY <1>1, <2>1, <2>3, <3>5, <4>1, Zenon DEF CkInv
      <4>3. CkOK(meta)' /\ sidecar'.lsn <= meta'.lsn
        BY <4>2, Zenon DEF CkOK
      <4>4. cpc' = "reclaim" => sidecar' = meta'
        BY <2>3, CkSteps, Zenon DEF CkInv
      <4> QED BY <3>3, <4>3, <4>4, DeletedStep, Zenon DEF CkInv
    <3>6. CASE CkCapture
      <4>1. PICK s : s = meta'
        OBVIOUS
      <4>2. CkOK(s) /\ sidecar.lsn <= s.lsn
        BY <1>2, <3>6, <4>1, CaptureOK, Zenon
      <4>3. CkOK(s)' /\ meta' = s /\ sidecar'.lsn <= s.lsn
        BY <1>1, <2>1, <2>3, <4>1, <4>2, Zenon
      <4>4. CkOK(meta)' /\ sidecar'.lsn <= meta'.lsn
        BY <4>3, Zenon DEF CkOK
      <4>5. cpc' # "reclaim"
        BY <3>6, Zenon DEF CkCapture, CkGoto
      <4> QED BY <3>3, <4>4, <4>5, DeletedStep, Zenon DEF CkInv
    <3>7. CASE CkMetadata
      <4>1. PICK s : s = meta
        OBVIOUS
      <4>2. Captured /\ meta' = [meta EXCEPT !.capture = clock] /\ cpc' # "reclaim" /\ clock' = clock
        BY <3>7, Zenon DEF CkMetadata, CkGoto, Captured, commitVars
      <4>3. CkOK(s)' /\ sidecar'.lsn <= s.lsn
        BY <1>1, <2>1, <2>3, <4>1, <4>2, Zenon DEF CkInv
      <4>4. meta'.lsn = s.lsn /\ meta'.redo = s.redo /\ meta'.rec = s.rec /\ meta'.capture = clock'
        BY <1>1, <4>1, <4>2 DEF Checkpoints
      <4>5. clock' <= clock'
        BY Consts DEF TypeInv, CommitType, Marks
      <4>6. CkOK(meta)'
        BY <4>3, <4>4, <4>5, Zenon DEF CkOK
      <4> QED BY <3>3, <4>2, <4>3, <4>4, <4>6, DeletedStep, Zenon DEF CkInv
    <3> QED BY <2>3, <3>4, <3>5, <3>6, <3>7, CkSteps, Zenon
  <2> QED BY <2>2, <2>3, CkSteps, Zenon
<1>3. ASSUME cpc' = "idle" PROVE ~Captured' /\ cpc' # "reclaim"
  BY <1>3, Zenon DEF Captured
<1>4. CASE Crash
  <2>1. /\ sidecar' = sidecar /\ clock' = clock /\ inflight' = <<>> /\ deferred' = <<>> /\ ~Up'
        /\ cpc' = "idle"
    BY <1>4, Zenon DEF Crash, PassOver, Up
  <2>2. Unsettled' = {} /\ InFlight' = {}
    BY <2>1 DEF Unsettled, InFlight, Queued
  <2>3. Known' \subseteq Known
    BY <1>4, <2>2, CrashSets, Zenon DEF Known
  <2>4. CkOK(sidecar)'
    BY <2>1, <2>2, <2>3, Zenon DEF CkInv, CkOK
  <2> QED BY <1>3, <2>1, <2>4, DeletedStep, Zenon DEF CkInv
<1>5. CASE RedoDelta
  <2>1. /\ sidecar' = sidecar /\ UNCHANGED commitVars /\ UNCHANGED walVars /\ ~Up' /\ cpc' = cpc /\ ~Up
    BY <1>5, Zenon DEF RedoDelta, RedoPage, Up, diskVars, passVars
  <2>2. Unsettled' = Unsettled /\ InFlight' = InFlight /\ clock' = clock
    BY <2>1, Zenon DEF commitVars, Unsettled, InFlight, Queued
  <2>3. Known' = Known
    BY <2>1, <2>2, WalSame, Zenon DEF Known
  <2>4. CkOK(sidecar)'
    BY <2>1, <2>2, <2>3, Zenon DEF CkInv, CkOK
  <2>5. cpc' = "idle"
    BY <2>1, Zenon DEF QueueInv
  <2> QED BY <1>3, <2>4, <2>5, DeletedStep, Zenon DEF CkInv
<1>6. CASE RedoDone
  <2>1. /\ sidecar' = sidecar /\ UNCHANGED <<inflight, deferred>> /\ UNCHANGED walVars /\ ~Up /\ cpc' = cpc
        /\ visible' = clock' /\ sidecar.lsn <= visible' /\ \A b \in Disk : b.lsn <= visible'
    BY <1>6, Zenon DEF RedoDone, Up, diskVars, passVars, Disk
  <2>2. Unsettled' = Unsettled /\ InFlight' = InFlight
    BY <2>1, Zenon DEF Unsettled, InFlight, Queued
  <2>3. Known' = Known
    BY <2>1, <2>2, WalSame, Zenon DEF Known
  <2>4. sidecar.capture <= clock'
    <3>1. CASE sidecar.capture <= sidecar.lsn
      BY <2>1, <3>1, CkTypes, Consts DEF CkType, TypeInv, CommitType, Marks
    <3>2. CASE \E b \in DurableDisk : sidecar.capture <= b.lsn
      <4>1. PICK b \in DurableDisk : sidecar.capture <= b.lsn
        BY <3>2
      <4>2. 1 .. synced \subseteq 1 .. Len(wal)
        BY Members
      <4>3. b \in Disk
        BY <4>1, <4>2, Zenon DEF DurableDisk, Disk, OnDisk
      <4>4. b.lsn <= clock' /\ b.lsn \in Nat
        BY <2>1, <4>3, Sets, RecordLsns, Zenon DEF LsnTypes, Known
      <4> QED BY <4>1, <4>4, CkTypes, Consts DEF CkType, TypeInv, CommitType, Marks
    <3> QED BY <3>1, <3>2, Zenon DEF ReachInv, Reached
  <2>5. CkOK(sidecar)'
    BY <2>1, <2>2, <2>3, <2>4, Zenon DEF CkInv, CkOK
  <2>6. cpc' = "idle"
    BY <2>1, Zenon DEF QueueInv
  <2> QED BY <1>3, <2>5, <2>6, DeletedStep, Zenon DEF CkInv
<1> QED BY <1>2, <1>4, <1>5, <1>6, UpSteps, Zenon
-----------------------------------------------------------------------------
\* The phases of a pass.
Passing == cpc \in {"snapshot", "copy", "stage", "home", "complete", "capture"}

LEMMA PhaseSteps ==
  ASSUME Next
  PROVE  /\ cpc' = "horizon2" => (cpc = "horizon2" /\ meta' = meta) \/ CkMetadata
         /\ cpc' = "flush2" => (cpc = "flush2" /\ meta' = meta) \/ CkHorizon
         /\ Late' => (Late /\ meta' = meta) \/ (CkFlush /\ cpc = "flush2" /\ meta' = meta)
         /\ cpc' # "idle" => (cpc # "idle" /\ horizon' = horizon) \/ CkBegin
         /\ cpc' \in {"drain", "draining"} => cpc \in {"drain", "draining"} \/ CkFlush
         /\ Passing' => Passing \/ (CkDrained /\ cpc = "draining")
<1>1. CASE UNCHANGED passVars
  BY <1>1, Zenon DEF passVars, Late, Passing
<1>2. CASE CkReclaim
  <2>1. UNCHANGED passVars
    BY <1>2, Zenon DEF CkReclaim
  <2> QED BY <1>1, <2>1
<1>3. CASE Crash \/ CkIoError
  <2>1. cpc' = "idle"
    BY <1>3, Zenon DEF Crash, CkIoError, PassOver
  <2> QED BY <2>1, Zenon DEF Late, Passing
<1>4. CASE CkBegin \/ CkDrain \/ CkSnapshot \/ CkCopied
  BY <1>4, Zenon DEF CkBegin, CkDrain, CkSnapshot, CkCopied, CkGoto, Late, Passing
<1>5. CASE CkFlush \/ CkDrained
  BY <1>5, Zenon DEF CkFlush, CkDrained, CkGoto, Late, Passing
<1>6. CASE CkCopy \/ CkStage \/ CkHome \/ CkComplete
  BY <1>6, Zenon DEF CkCopy, CkStage, CkHome, CkComplete, CkGoto, Late, Passing
<1>7. CASE CkHorizon \/ CkDone \/ CkCapture \/ CkMetadata \/ CkSidecar
  BY <1>7, Zenon DEF CkHorizon, CkDone, CkCapture, CkMetadata, CkSidecar, CkGoto, Late, Passing
<1> QED BY <1>1, <1>2, <1>3, <1>4, <1>5, <1>6, <1>7, PassSteps, Zenon DEF CheckpointStep

\* What joins the commits in flight is above the clock, what joins the queue is
\* above what is visible.
LEMMA Joining ==
  ASSUME TypeInv, RecordInv, QueueInv, ApplyInv, Next
  PROVE  /\ \A b \in InFlight' : b \in InFlight \/ clock < b.lsn
         /\ \A b \in Queued' : b \in Queued \/ visible < b.lsn
         /\ \A b \in InFlight : b \in InFlight' \/ b \in Logged \/ Crash
<1>1. CASE UNCHANGED <<inflight, deferred>>
  <2>1. InFlight' = InFlight /\ Queued' = Queued
    BY <1>1, Zenon DEF InFlight, Queued
  <2> QED BY <2>1
<1>2. CASE Allocate
  <2>1. PICK b : NewRecord(b) /\ InFlight' = InFlight \cup {b}
    BY <1>2, AllocateSets, Zenon
  <2>2. Queued' = Queued
    BY <1>2, Zenon DEF Allocate, Queued
  <2>3. clock < b.lsn
    BY <2>1, Consts DEF NewRecord, Records, Lsns, TypeInv, CommitType, Marks
  <2> QED BY <2>1, <2>2, <2>3, Zenon
<1>3. CASE ApplyFront
  <2>1. /\ inflight' = inflight
        /\ deferred # <<>> /\ (deferred' = deferred \/ deferred' = Tail(deferred))
    BY <1>3, Zenon DEF ApplyFront, ApplyInv
  <2>2. InFlight' = InFlight
    BY <2>1, Zenon DEF InFlight
  <2>3. CASE deferred' = deferred
    BY <1>1, <2>1, <2>3
  <2>4. CASE deferred' = Tail(deferred)
    BY <2>1, <2>2, <2>4, FrontSets, Zenon
  <2> QED BY <2>1, <2>3, <2>4
<1>4. CASE ApplyOrDefer \/ ApplyOwn
  <2>1. /\ inflight # <<>> /\ 1 \in 1 .. Len(inflight) /\ inflight[1].bundle \in Logged
        /\ (UNCHANGED <<visible, inflight>> \/ Publish)
    BY <1>4, PublishOrNot, Zenon
  <2>2. \/ UNCHANGED <<inflight, deferred>>
        \/ Publish /\ deferred' = Append(deferred, inflight[1].bundle)
        \/ Publish /\ deferred' = deferred
    BY <1>4, Zenon DEF ApplyOrDefer, ApplyOwn
  <2>3. ASSUME Publish PROVE InFlight = {inflight[1].bundle} \cup InFlight'
    BY <2>1, <2>3, PublishSets, Zenon
  <2>4. visible < inflight[1].bundle.lsn
    BY <2>1, HeadLsns, Consts, Members DEF RecordType, Marks, TypeInv, CommitType
  <2>5. CASE Publish /\ deferred' = deferred
    <3>1. Queued' = Queued
      BY <2>5, Zenon DEF Queued
    <3> QED BY <2>1, <2>3, <2>5, <3>1, Zenon
  <2>6. CASE Publish /\ deferred' = Append(deferred, inflight[1].bundle)
    <3>1. Queued' = Queued \cup {inflight[1].bundle}
      BY <2>1, <2>6, DeferSets, Zenon
    <3> QED BY <2>1, <2>3, <2>4, <2>6, <3>1, Zenon
  <2> QED BY <1>1, <2>2, <2>5, <2>6
<1>5. CASE Crash
  <2>1. inflight' = <<>> /\ deferred' = <<>>
    BY <1>5, Zenon DEF Crash
  <2>2. InFlight' = {} /\ Queued' = {}
    BY <2>1 DEF InFlight, Queued
  <2> QED BY <1>5, <2>2, Zenon
<1>6. CASE LogAppend \/ RedoDelta \/ RedoDone
  <2>1. UNCHANGED <<inflight, deferred>>
    BY <1>6, Zenon DEF LogAppend, RedoDelta, RedoDone, commitVars
  <2> QED BY <1>1, <2>1
<1> QED BY <1>1, <1>2, <1>3, <1>4, <1>5, <1>6, QueueSteps, Zenon

\* A logged record that is not settled is in a segment that is not deleted.
LEMMA UnsettledOnDisk ==
  ASSUME TypeInv, CkInv, NEW b \in Unsettled, b \in Logged
  PROVE  b \in Disk
<1>1. PICK i \in 1 .. Len(wal) : b = wal[i].bundle
  BY Zenon DEF Logged
<1>2. sidecar.lsn < b.lsn /\ sidecar.lsn \in Nat /\ b.lsn \in Nat
  BY CkTypes, RecordLsns, Zenon DEF CkInv, CkOK, CkType, LsnTypes
<1>3. ~(wal[i].seg < oldest)
  <2>1. wal[i].seg < oldest => b.lsn <= sidecar.lsn
    BY <1>1, Zenon DEF CkInv
  <2> QED BY <1>2, <2>1
<1>4. wal[i].seg >= oldest
  BY <1>3, Members DEF TypeInv, WalType
<1> QED BY <1>1, <1>4, Zenon DEF Disk, OnDisk

\* What reaches an LSN goes on to reach it.
LEMMA ReachFrame ==
  ASSUME TypeInv, RecordInv, QueueInv, ApplyInv, CkInv, Next,
         NEW n \in Nat, NEW m \in Nat, sidecar.lsn <= m
  PROVE  /\ (\E b \in InFlight \cup Disk : n <= b.lsn) /\ ~Crash =>
              n <= m \/ \E b \in InFlight' \cup Disk' : n <= b.lsn
         /\ (\E b \in Disk : n <= b.lsn) /\ ~Crash => n <= m \/ \E b \in Disk' : n <= b.lsn
         /\ (\E b \in DurableDisk : n <= b.lsn) => n <= m \/ \E b \in DurableDisk' : n <= b.lsn
<1>1. CASE CkReclaim
  <2>1. /\ \A b \in Disk \ Disk' : b.lsn <= meta.redo
        /\ \A b \in DurableDisk \ DurableDisk' : b.lsn <= meta.redo
    BY <1>1, ReclaimSets, Zenon
  <2>2. InFlight' = InFlight /\ cpc = "reclaim"
    BY <1>1, Zenon DEF CkReclaim, InFlight, commitVars
  <2>3. meta.redo <= sidecar.lsn /\ meta.redo \in Nat /\ sidecar.lsn \in Nat
    BY <2>2, CkTypes, Zenon DEF CkInv, CkOK, Captured, CkType
  <2>4. meta.redo <= m
    BY <2>3
  <2>5. DurableDisk \subseteq Disk
    <3>1. 1 .. synced \subseteq 1 .. Len(wal)
      BY Members
    <3> QED BY <3>1, Zenon DEF DurableDisk, Disk, OnDisk
  <2>6. \A b \in Disk : b.lsn \in Nat
    BY Sets, RecordLsns, Zenon DEF LsnTypes, Known
  <2>7. \A b \in Disk : b.lsn <= meta.redo /\ n <= b.lsn => n <= m
    BY <2>3, <2>4, <2>6
  <2> QED BY <2>1, <2>2, <2>5, <2>7, Zenon
<1>2. CASE Crash
  BY <1>2, CrashSets, Zenon
<1>3. CASE ~CkReclaim /\ ~Crash
  <2>1. Disk \subseteq Disk' /\ DurableDisk \subseteq DurableDisk'
    BY <1>3, WalSteps, WalSame, AppendSets, SyncSets, Zenon
  <2>2. \A b \in InFlight : b \in InFlight' \/ b \in Disk
    BY <1>3, Joining, UnsettledOnDisk, Zenon DEF Unsettled
  <2> QED BY <2>1, <2>2, Zenon
<1> QED BY <1>1, <1>2, <1>3

LEMMA ReachStep ==
  ASSUME TypeInv, RecordInv, QueueInv, ApplyInv, CkInv, ReachInv, Next, TypeInv', CkInv'
  PROVE  ReachInv'
<1>1. CkType(sidecar) /\ CkType(meta) /\ clock \in Nat
  BY CkTypes, Consts DEF TypeInv, CommitType, Marks
<1>2. /\ sidecar' = sidecar \/ (CkSidecar /\ sidecar' = meta /\ sidecar.lsn <= meta.lsn
                               /\ Late /\ clock' = clock /\ mode' = mode)
      /\ sidecar.lsn \in Nat /\ meta.lsn \in Nat
  BY <1>1, CkSteps, Zenon DEF CkSidecar, CkGoto, CkInv, Captured, Late, CkType, commitVars, modeVars
<1>3. PICK m \in Nat : m = sidecar'.lsn /\ sidecar.lsn <= m
  <2>1. sidecar.lsn <= sidecar.lsn
    BY <1>2
  <2> QED BY <1>2, <2>1, Zenon
<1>4. Up' => Reached(clock', sidecar', InFlight' \cup Disk')
  <2>1. CASE Allocate
    <3>1. PICK b : NewRecord(b) /\ clock' = b.lsn /\ b \in InFlight'
      BY <2>1, AllocateSets, Zenon
    <3>2. clock' <= b.lsn
      BY <3>1, Consts DEF TypeInv, CommitType, Marks
    <3> QED BY <3>1, <3>2, Zenon DEF Reached
  <2>2. CASE RedoDone
    <3>1. /\ clock' \in {sidecar.lsn} \cup {b.lsn : b \in Disk} /\ UNCHANGED walVars
          /\ sidecar' = sidecar
      BY <2>2, Zenon DEF RedoDone, Disk, diskVars
    <3>2. clock' <= clock'
      BY Consts DEF TypeInv, CommitType, Marks
    <3> QED BY <3>1, <3>2, WalSame, Zenon DEF Reached
  <2>3. CASE Crash \/ RedoDelta
    <3>1. ~Up'
      BY <2>3, Zenon DEF Crash, RedoDelta, RedoPage, Up
    <3> QED BY <3>1
  <2>4. CASE ~Allocate /\ ~RedoDone /\ ~Crash /\ ~RedoDelta
    <3>1. Up /\ clock' = clock
      BY <2>4, UpSteps, RecordSteps, PublishOrNot, Zenon DEF LogAppend, commitVars
    <3>2. PICK n \in Nat : n = clock
      BY <1>1
    <3>3. CASE n <= sidecar.lsn
      <4>1. n <= m
        BY <1>2, <1>3, <3>3
      <4> QED BY <1>3, <3>1, <3>2, <4>1, Zenon DEF Reached
    <3>4. CASE \E b \in InFlight \cup Disk : n <= b.lsn
      BY <1>3, <2>4, <3>1, <3>2, <3>4, ReachFrame, Zenon DEF Reached
    <3> QED BY <3>1, <3>2, <3>3, <3>4, Zenon DEF ReachInv, Reached
  <2> QED BY <2>1, <2>2, <2>3, <2>4
<1>5. Reached(sidecar'.capture, sidecar', DurableDisk')
  <2>1. PICK n \in Nat : n = sidecar'.capture
    BY <1>1, <1>2, Zenon DEF CkType
  <2>2. PICK c \in Nat : c = IF sidecar' = sidecar THEN sidecar.lsn ELSE meta.lsn
    BY <1>2, Zenon
  <2>3. n <= c \/ \E b \in DurableDisk : n <= b.lsn
    BY <1>2, <2>1, <2>2, Zenon DEF ReachInv, Reached
  <2>4. c = m
    BY <1>2, <1>3, <2>2, Zenon
  <2> QED BY <1>3, <2>1, <2>3, <2>4, ReachFrame, Zenon DEF Reached
<1>6. ASSUME Captured, meta' = meta, NEW n \in Nat
      PROVE  /\ Reached(n, meta, InFlight \cup Disk) /\ ~Crash => Reached(n, meta', InFlight' \cup Disk')
             /\ Reached(n, meta, Disk) /\ ~Crash => Reached(n, meta', Disk')
             /\ Reached(n, meta, DurableDisk) => Reached(n, meta', DurableDisk')
  <2>1. PICK k \in Nat : k = meta.lsn /\ sidecar.lsn <= k
    BY <1>2, <1>6, Zenon DEF CkInv
  <2> QED BY <1>6, <2>1, ReachFrame, Zenon DEF Reached
<1>7. cpc' = "horizon2" => Reached(meta'.capture, meta', InFlight' \cup Disk')
  <2>1. CASE cpc = "horizon2" /\ meta' = meta /\ cpc' = "horizon2"
    <3>1. Captured /\ ~Crash /\ Reached(meta.capture, meta, InFlight \cup Disk) /\ meta.capture \in Nat
      BY <1>1, <2>1, Zenon DEF Captured, Crash, PassOver, ReachInv, CkType
    <3> QED BY <1>6, <2>1, <3>1, Zenon
  <2>2. CASE CkMetadata
    <3>1. /\ meta' = [meta EXCEPT !.capture = clock] /\ UNCHANGED commitVars /\ UNCHANGED walVars
          /\ cpc = "metadata"
      BY <2>2, Zenon DEF CkMetadata, CkGoto
    <3>2. meta'.capture = clock /\ meta'.lsn = meta.lsn
      BY <3>1 DEF TypeInv, PassType, Checkpoints
    <3>3. InFlight' = InFlight
      BY <3>1, Zenon DEF InFlight, commitVars
    <3>4. Up /\ sidecar.lsn <= meta.lsn
      BY <3>1, Zenon DEF QueueInv, CkInv, Captured
    <3>5. clock <= sidecar.lsn => clock <= meta.lsn
      BY <1>1, <1>2, <3>4
    <3> QED BY <3>1, <3>2, <3>3, <3>4, <3>5, WalSame, Zenon DEF ReachInv, Reached
  <2> QED BY <2>1, <2>2, PhaseSteps, Zenon
<1>8. cpc' = "flush2" => Reached(meta'.capture, meta', Disk')
  <2>1. CASE cpc = "flush2" /\ meta' = meta /\ cpc' = "flush2"
    <3>1. Captured /\ ~Crash /\ Reached(meta.capture, meta, Disk) /\ meta.capture \in Nat
      BY <1>1, <2>1, Zenon DEF Captured, Crash, PassOver, ReachInv, CkType
    <3> QED BY <1>6, <2>1, <3>1, Zenon
  <2>2. CASE CkHorizon
    <3>1. meta' = meta /\ UNCHANGED walVars /\ cpc = "horizon2" /\ inflight = <<>>
      BY <2>2, Zenon DEF CkHorizon, CkGoto, Frozen
    <3>2. InFlight = {}
      BY <3>1 DEF InFlight
    <3> QED BY <3>1, <3>2, WalSame, Zenon DEF ReachInv, Reached
  <2> QED BY <2>1, <2>2, PhaseSteps, Zenon
<1>9. Late' => Reached(meta'.capture, meta', DurableDisk')
  <2>1. CASE Late /\ meta' = meta
    <3>1. Captured /\ Reached(meta.capture, meta, DurableDisk) /\ meta.capture \in Nat
      BY <1>1, <2>1, Zenon DEF Captured, Late, ReachInv, CkType
    <3> QED BY <1>6, <2>1, <3>1, Zenon
  <2>2. CASE CkFlush /\ cpc = "flush2" /\ meta' = meta
    BY <2>2, SyncSets, Zenon DEF ReachInv
  <2> QED BY <2>1, <2>2, PhaseSteps, Zenon
<1> QED BY <1>4, <1>5, <1>7, <1>8, <1>9, Zenon DEF ReachInv

\* Captures and durability.
LEMMA CaptureStep ==
  ASSUME TypeInv, RecordInv, QueueInv, ApplyInv, CkInv, CaptureInv, Next, TypeInv'
  PROVE  CaptureInv'
<1>1. CkType(sidecar) /\ CkType(meta) /\ clock \in Nat
  BY CkTypes, Consts DEF TypeInv, CommitType, Marks
<1>2. \A b \in InFlight' \cup Queued' : b.lsn \in Nat
  BY SetsAfter, Zenon DEF LsnTypes, Unsettled
<1>3. CASE Crash \/ RedoDelta \/ RedoDone
  <2>1. inflight' = <<>> /\ deferred' = <<>> /\ cpc' = "idle"
    BY <1>3, Zenon DEF Crash, RedoDelta, RedoDone, PassOver, QueueInv, Up, commitVars, passVars
  <2>2. Unsettled' = {}
    BY <2>1 DEF Unsettled, InFlight, Queued
  <2> QED BY <2>1, <2>2, Zenon DEF CaptureInv, Late, CaptureIsDurable
<1>4. CASE Up /\ Up' /\ ~Crash
  <2>1. \A b \in Unsettled' : b \in Unsettled \/ clock < b.lsn
    BY <1>4, Settling, Zenon
  <2>2. Durable \subseteq Durable'
    BY WalGrows, Zenon
  <2>3. sidecar.capture <= clock
    BY <1>4, Zenon DEF CkInv, CkOK
  <2>4. Captured => meta.capture <= clock
    BY <1>4, Zenon DEF CkInv, CkOK
  <2>5. ASSUME Captured, NEW b \in InFlight' \cup Queued', clock < b.lsn PROVE meta.capture < b.lsn
    BY <1>1, <1>2, <2>4, <2>5 DEF CkType
  <2>6. cpc' = "flush2" => \A b \in InFlight' : meta'.capture < b.lsn
    <3>1. CASE cpc = "flush2" /\ meta' = meta
      BY <2>5, <3>1, Joining, Zenon DEF CaptureInv, Captured
    <3>2. CASE CkHorizon
      <4>1. inflight' = <<>>
        BY <3>2, Zenon DEF CkHorizon, Frozen, commitVars
      <4>2. InFlight' = {}
        BY <4>1 DEF InFlight
      <4> QED BY <4>2
    <3> QED BY <3>1, <3>2, PhaseSteps, Zenon
  <2>7. Late' => \A b \in Unsettled' : b.lsn <= meta'.capture => b \in Durable'
    <3>1. CASE Late /\ meta' = meta
      <4>1. \A b \in Unsettled' : b \in Unsettled \/ meta.capture < b.lsn
        BY <2>1, <2>5, <3>1, Zenon DEF Captured, Late, Unsettled
      <4>2. \A b \in Unsettled' : meta.capture < b.lsn => ~(b.lsn <= meta.capture)
        BY <1>1, <1>2 DEF CkType, Unsettled
      <4> QED BY <2>2, <3>1, <4>1, <4>2, Zenon DEF CaptureInv
    <3>2. CASE CkFlush /\ cpc = "flush2" /\ meta' = meta
      <4>1. Durable' = Logged /\ UNCHANGED commitVars
        BY <3>2, SyncSets, Zenon DEF CkFlush
      <4>2. InFlight' = InFlight /\ Queued' = Queued
        BY <4>1, Zenon DEF InFlight, Queued, commitVars
      <4>3. Queued \subseteq Logged
        BY Zenon DEF Queued, QueueInv
      <4>4. \A b \in InFlight : meta.capture < b.lsn
        BY <3>2, Zenon DEF CaptureInv
      <4>5. \A b \in InFlight : ~(b.lsn <= meta.capture)
        BY <1>1, <1>2, <4>2, <4>4 DEF CkType
      <4> QED BY <3>2, <4>1, <4>2, <4>3, <4>5, Zenon DEF Unsettled
    <3> QED BY <3>1, <3>2, PhaseSteps, Zenon
  <2>8. \A b \in Unsettled' : b.lsn <= sidecar'.capture => b \in Durable'
    <3>1. CASE sidecar' = sidecar
      <4>1. \A b \in Unsettled' : clock < b.lsn => ~(b.lsn <= sidecar.capture)
        BY <1>1, <1>2, <2>3 DEF CkType, Unsettled
      <4> QED BY <2>1, <2>2, <3>1, <4>1, Zenon DEF CaptureInv, CaptureIsDurable
    <3>2. CASE CkSidecar
      <4>1. Late' /\ sidecar' = meta'
        BY <3>2, Zenon DEF CkSidecar, CkGoto, Late
      <4> QED BY <2>7, <4>1, Zenon
    <3> QED BY <3>1, <3>2, CkSteps, Zenon
  <2> QED BY <2>6, <2>7, <2>8, Zenon DEF CaptureInv, CaptureIsDurable
<1> QED BY <1>3, <1>4, UpSteps, Zenon

\* Horizons.
LEMMA HorizonStep ==
  ASSUME TypeInv, RecordInv, QueueInv, ApplyInv, CkInv, RecBelow, HorizonInv, Next, TypeInv'
  PROVE  HorizonInv'
<1>1. horizon \in Nat /\ visible \in Nat /\ visible' \in Nat /\ \A b \in Queued' \cup Queued : b.lsn \in Nat
  BY RecordLsns, SetsAfter, Consts DEF LsnTypes, Unsettled, TypeInv, CommitType, PassType, Marks
<1>2. CASE Crash \/ RedoDelta \/ RedoDone
  <2>1. cpc' = "idle"
    BY <1>2, Zenon DEF Crash, RedoDelta, RedoDone, PassOver, QueueInv, Up, passVars
  <2> QED BY <2>1, Zenon DEF HorizonInv, Captured
<1>3. CASE Up /\ Up' /\ ~Crash
  <2>1. visible <= visible'
    BY <1>3, Settling, Zenon
  <2>2. cpc' # "idle" => horizon' <= visible'
    <3>1. CASE cpc # "idle" /\ horizon' = horizon
      BY <1>1, <2>1, <3>1 DEF HorizonInv
    <3>2. CASE CkBegin
      BY <1>1, <3>2 DEF CkBegin, commitVars
    <3> QED BY <3>1, <3>2, PhaseSteps, Zenon
  <2>3. ASSUME cpc # "idle", cpc' # "idle"
        PROVE  horizon' = horizon /\ \A b \in Queued' : b \in Queued \/ horizon < b.lsn
    <3>1. horizon <= visible /\ horizon' = horizon
      BY <2>3, PhaseSteps, Zenon DEF HorizonInv, CkBegin, CkGoto
    <3>2. \A b \in Queued' : visible < b.lsn => horizon < b.lsn
      BY <1>1, <3>1
    <3> QED BY <3>1, <3>2, Joining, Zenon
  <2>4. cpc' \in {"drain", "draining"} => \A b \in Queued' : b.lsn <= horizon' => b \in Durable'
    <3>1. CASE cpc \in {"drain", "draining"} /\ cpc' \in {"drain", "draining"}
      <4>1. horizon' = horizon /\ \A b \in Queued' : b \in Queued \/ horizon < b.lsn
        BY <2>3, <3>1, Zenon
      <4>2. \A b \in Queued' : horizon < b.lsn => ~(b.lsn <= horizon)
        BY <1>1
      <4>3. Durable \subseteq Durable'
        BY WalGrows, Zenon
      <4> QED BY <3>1, <4>1, <4>2, <4>3, Zenon DEF HorizonInv
    <3>2. CASE CkFlush
      <4>1. Durable' = Logged /\ UNCHANGED commitVars
        BY <3>2, SyncSets, Zenon DEF CkFlush
      <4>2. Queued' = Queued
        BY <4>1, Zenon DEF Queued, commitVars
      <4>3. Queued \subseteq Logged
        BY Zenon DEF Queued, QueueInv
      <4> QED BY <4>1, <4>2, <4>3, Zenon
    <3> QED BY <3>1, <3>2, PhaseSteps, Zenon
  <2>5. Passing' => \A b \in Queued' : horizon' < b.lsn
    <3>1. CASE Passing /\ Passing'
      BY <2>3, <3>1, Zenon DEF HorizonInv, Passing
    <3>2. CASE CkDrained /\ cpc = "draining"
      <4>1. /\ deferred = <<>> \/ deferred[1] \notin Durable
            /\ UNCHANGED <<deferred, horizon>>
        BY <3>2, Zenon DEF CkDrained, FrontDurable
      <4>2. Queued' = Queued
        BY <4>1, Zenon DEF Queued
      <4>3. CASE deferred = <<>>
        <5>1. Queued = {}
          BY <4>3 DEF Queued
        <5> QED BY <4>2, <5>1, Zenon
      <4>4. CASE deferred # <<>>
        <5>1. 1 \in 1 .. Len(deferred)
          BY <4>4 DEF TypeInv, CommitType
        <5>2. deferred[1] \in Queued
          BY <5>1, Zenon DEF Queued
        <5>3. ~(deferred[1].lsn <= horizon)
          BY <3>2, <4>1, <4>4, <5>2, Zenon DEF HorizonInv
        <5>4. \A b \in Queued : deferred[1].lsn <= b.lsn
          <6>1. \A b \in Queued : b = deferred[1] \/ deferred[1].lsn < b.first
            <7>1. \A i \in 1 .. Len(deferred) : i = 1 \/ 1 < i
              OBVIOUS
            <7> QED BY <5>1, <7>1, Zenon DEF QueueInv, Queued
          <6>2. \A b \in Queued : b.first \in Nat /\ b.lsn \in Nat /\ b.first <= b.lsn
            <7>1. Queued \subseteq Known
              BY Zenon DEF Queued, QueueInv, Known
            <7> QED BY <7>1, RecordLsns, Zenon DEF LsnTypes, RecordInv, WellFormed
          <6> QED BY <5>2, <6>1, <6>2
        <5>5. \A b \in Queued : horizon < b.lsn
          BY <1>1, <5>2, <5>3, <5>4
        <5> QED BY <4>1, <4>2, <5>5, Zenon
      <4> QED BY <4>3, <4>4
    <3> QED BY <3>1, <3>2, PhaseSteps, Zenon
  <2>6. Captured' => horizon' <= meta'.lsn
    <3>1. CASE Captured /\ meta' = meta /\ Captured'
      BY <2>3, <3>1, Zenon DEF HorizonInv, Captured
    <3>2. CASE CkCapture
      <4>1. PICK s : s = meta'
        OBVIOUS
      <4>2. s.lsn = Frontier
        BY <1>3, <3>2, <4>1, CaptureOK, Zenon
      <4>3. horizon' = horizon /\ cpc = "capture"
        BY <3>2, Zenon DEF CkCapture, CkGoto
      <4>4. horizon <= visible /\ \A q \in Queued : horizon < q.lsn
        BY <4>3, Zenon DEF HorizonInv
      <4>5. horizon <= Frontier
        BY <1>1, <4>4, FrontierIs, Zenon
      <4> QED BY <4>1, <4>2, <4>3, <4>5, Zenon
    <3>3. CASE CkMetadata
      <4>1. horizon' = horizon /\ Captured /\ meta' = [meta EXCEPT !.capture = clock]
        BY <3>3, Zenon DEF CkMetadata, CkGoto, Captured
      <4>2. meta'.lsn = meta.lsn
        BY <4>1 DEF TypeInv, PassType, Checkpoints
      <4> QED BY <4>1, <4>2, Zenon DEF HorizonInv
    <3> QED BY <3>1, <3>2, <3>3, CkSteps, Zenon
  <2> QED BY <2>2, <2>4, <2>5, <2>6, Zenon DEF HorizonInv, Passing
<1> QED BY <1>2, <1>3, UpSteps, Zenon
-----------------------------------------------------------------------------
LEMMA InitInv == Init => IInv
<1> SUFFICES ASSUME Init PROVE IInv
  OBVIOUS
<1>1. TypeInv
  BY InitType
<1>2. inflight = <<>> /\ deferred = <<>> /\ wal = <<>> /\ synced = 0
  BY Zenon DEF Init
<1>3. InFlight = {} /\ Queued = {} /\ Logged = {}
  BY <1>2 DEF InFlight, Queued, Logged
<1>4. Known = {} /\ Unsettled = {} /\ Len(wal) = 0 /\ Len(inflight) = 0 /\ Len(deferred) = 0
  BY <1>2, <1>3 DEF Known, Unsettled
<1>5. RecordInv
  BY <1>4 DEF RecordInv, Init
<1>6. QueueInv
  BY <1>2, <1>3, <1>4 DEF QueueInv, Init, Up
<1>7. ApplyInv /\ RedoInv
  BY Zenon DEF ApplyInv, RedoInv, Init, Applying, Freezing, Up
<1>8. RecBelow
  <2>1. \A p \in Pages : rec[p] = 0 /\ visible = 1 /\ apc = "idle" /\ mode = "up"
    BY DEF Init
  <2> QED BY <1>4, <2>1 DEF RecBelow, Up, Applying
<1>9. sidecar = NoCheckpoint /\ clock = 1 /\ visible = 1 /\ cpc = "idle"
  BY Zenon DEF Init
<1>10. /\ NoCheckpoint.lsn = 1 /\ NoCheckpoint.redo = 1 /\ NoCheckpoint.capture = 1
       /\ \A p \in Pages : NoCheckpoint.rec[p] = 0
  BY DEF NoCheckpoint
<1>11. CkInv
  <2>1. CkOK(sidecar)
    BY <1>4, <1>9, <1>10 DEF CkOK
  <2> QED BY <1>4, <1>9, <2>1 DEF CkInv, Captured
<1>12. ReachInv
  BY <1>9, <1>10 DEF ReachInv, Reached, Late
<1>13. CaptureInv
  BY <1>4, <1>9 DEF CaptureInv, CaptureIsDurable, Late
<1>14. HorizonInv
  BY <1>9 DEF HorizonInv, Captured
<1> QED BY <1>1, <1>5, <1>6, <1>7, <1>8, <1>11, <1>12, <1>13, <1>14, Zenon DEF IInv

LEMMA StepInv == IInv /\ [Next]_vars => IInv'
<1> SUFFICES ASSUME IInv, [Next]_vars PROVE IInv'
  OBVIOUS
<1>1. CASE Next
  <2>1. TypeInv' /\ RecordInv'
    BY <1>1, TypeStep, RecordStep, Zenon DEF IInv
  <2>2. QueueInv' /\ ApplyInv' /\ RedoInv' /\ RecBelow'
    BY <1>1, <2>1, QueueStep, ApplyStep, RedoStep, RecBelowStep, Zenon DEF IInv
  <2>3. CkInv'
    BY <1>1, <2>1, CkStep, Zenon DEF IInv
  <2>4. ReachInv' /\ CaptureInv' /\ HorizonInv'
    BY <1>1, <2>1, <2>3, ReachStep, CaptureStep, HorizonStep, Zenon DEF IInv
  <2> QED BY <2>1, <2>2, <2>3, <2>4, Zenon DEF IInv
<1>2. CASE UNCHANGED vars
  <2>1. UNCHANGED <<commitVars, pageVars, walVars, diskVars, passVars, modeVars>>
    BY <1>2, Zenon DEF vars
  <2>2. TypeInv'
    BY TypeStep, Zenon DEF IInv
  <2>3. Logged' = Logged /\ Disk' = Disk /\ Durable' = Durable /\ DurableDisk' = DurableDisk
    BY <2>1, WalSame, Zenon
  <2>4. InFlight' = InFlight /\ Queued' = Queued /\ (Up' <=> Up) /\ (Applying' <=> Applying) /\ Current' = Current
    BY <2>1, Zenon DEF InFlight, Queued, Up, Applying, Current, commitVars, modeVars
  <2>5. Known' = Known /\ Unsettled' = Unsettled /\ (Freezing' <=> Freezing) /\ (Captured' <=> Captured)
        /\ (Late' <=> Late)
    BY <2>1, <2>3, <2>4, Zenon DEF Known, Unsettled, Freezing, Captured, Late, passVars
  <2>6. RecordInv' /\ QueueInv' /\ ApplyInv' /\ RedoInv'
    BY <2>1, <2>3, <2>4, <2>5, Zenon DEF IInv, RecordInv, QueueInv, ApplyInv, RedoInv, commitVars, passVars, modeVars
  <2>7. RecBelow'
    BY <2>1, <2>3, <2>4, <2>5, Zenon DEF IInv, RecBelow, commitVars, pageVars, diskVars
  <2>8. CkInv'
    BY <2>1, <2>4, <2>5, Zenon DEF IInv, CkInv, CkOK, commitVars, diskVars, passVars, walVars
  <2>9. ReachInv' /\ CaptureInv' /\ HorizonInv'
    BY <2>1, <2>3, <2>4, <2>5, ZenonT(30) DEF IInv, ReachInv, Reached, CaptureInv, CaptureIsDurable, HorizonInv, commitVars, diskVars, passVars
  <2> QED BY <2>2, <2>6, <2>7, <2>8, <2>9, Zenon DEF IInv
<1> QED BY <1>1, <1>2

\* The invariant of commits, log and checkpoints.
THEOREM IncrInvariance == Spec => []IInv
BY InitInv, StepInv, PTL DEF Spec

\* No established checkpoint contains the effect of a commit that a crash could
\* still lose, although producer.rs captures the owners while commits run.
THEOREM CaptureSafe == Spec => []CaptureIsDurable
<1>1. IInv => CaptureIsDurable
  BY Zenon DEF IInv, CaptureInv
<1> QED BY <1>1, IncrInvariance, PTL

\* When producer.rs reclaims segments, the checkpoint it established names a
\* frontier no lower than what was visible when it began.
THEOREM FrontierSafe == Spec => []FrontierReachesHorizon
<1>1. IInv => FrontierReachesHorizon
  <2> SUFFICES ASSUME IInv, cpc = "reclaim" PROVE sidecar.lsn >= horizon
    BY DEF FrontierReachesHorizon
  <2>1. sidecar = meta /\ horizon <= meta.lsn /\ TypeInv
    BY Zenon DEF IInv, CkInv, HorizonInv, Captured
  <2> QED BY <2>1, CkTypes, Consts DEF CkType, TypeInv, PassType, Marks
<1> QED BY <1>1, IncrInvariance, PTL
=============================================================================
