---------------------------- MODULE ReplayProofs ----------------------------
(***************************************************************************)
(* Proofs about the WAL replay, for any log, any keys, any checkpoint      *)
(* floor, any buffer bound and any number of crashes and restarts.         *)
(***************************************************************************)
EXTENDS Replay, Extrema, FiniteSetTheorems

\* A leaf that names no prover goes to the SMT solver; the limit is generous, so
\* that a proof does not depend on how busy the machine is.
USE SMTT(60)

ReadPhases == {"reading", "overflow", "spilling"}
DrainPhases == {"draining", "seeded", "done"}

\* What does not change: the log holds a commit LSN once.
FixedInv ==
  /\ log \in Seq(Lsns) /\ \A i, j \in 1 .. Len(log) : log[i] = log[j] => i = j
  /\ keyOf \in [Lsns -> Keys] /\ floor \in 0 .. MaxLsn
  /\ spillOn \in BOOLEAN /\ spillOn \in SpillModes

PhaseInv ==
  /\ phase = "boot" => /\ pos = 1 /\ buffer = {} /\ applied = 0
                       /\ \A k \in Keys : chain[k] = <<>>
  /\ phase # "boot" => applied \in Range(log) \cup {floor} /\ applied >= floor
  /\ phase \in ReadPhases => IsFiniteSet(buffer)
  /\ phase = "overflow" => Overflow(buffer)
  /\ phase = "spilling" => toSpill # {} /\ spillOn
  /\ phase \notin {"spilling", "failed"} => toSpill = {}
  /\ ~spillOn => spillFiles = {}
  /\ phase \in DrainPhases => pos = Len(log) + 1
  /\ IF phase \in {"seeded", "done"} THEN buffer = {} /\ visible = applied ELSE visible = 0

\* Every bundle in memory and in the spill directory is one of the log's; the
\* re-encoding may have dropped its version.
Genuine(b) ==
  /\ b.lsn \in Range(log) /\ b.page = keyOf[b.lsn]
  /\ b.row = keyOf[b.lsn] \/ (b.row = NoKey /\ spillOn /\ Format = "delta")

BundleInv == \A b \in buffer \cup toSpill \cup UNION spillFiles : Genuine(b)

\* While the log is read, a bundle that was read is covered by the high water,
\* which has advanced the allocators, or it is held in exactly one place: the
\* buffer, the batch being written, or a file that this replay has written.
Read == {log[i] : i \in 1 .. pos - 1}

HeldIn(files) ==
  LET held == LsnsOf(UNION files)
  IN /\ \A f \in files : f # {}
     /\ \A l \in Read : IF l <= applied THEN l \in advanced
                        ELSE l \in LsnsOf(buffer) \cup LsnsOf(toSpill) \cup held
     /\ LsnsOf(buffer) \cup LsnsOf(toSpill) \cup held \subseteq Read
     /\ LsnsOf(buffer) \cap LsnsOf(toSpill) = {}
     /\ (LsnsOf(buffer) \cup LsnsOf(toSpill)) \cap held = {}
     /\ \A b \in buffer \cup toSpill : b = Bundle(b.lsn) /\ b.lsn > applied

HoldInv == phase \in ReadPhases => \E files \in SUBSET spillFiles : HeldIn(files)

\* In the final drain the buffer holds all that the high water does not cover.
DrainInv ==
  phase \in DrainPhases =>
    \A l \in Range(log) : IF l <= applied THEN l \in advanced ELSE l \in LsnsOf(buffer)

\* Chains ascend and stay at or below the high water: nothing is rejected.
OrderInv ==
  /\ ~rejected
  /\ \A k \in Keys : /\ Ascending(chain[k])
                     /\ \A i \in 1 .. Len(chain[k]) : chain[k][i] <= applied

\* The chains hold exactly the log's commits up to the high water, when no
\* encoder dropped a version and the reordering fits the buffer.
Faithful == (Format = "image" \/ ~spillOn) /\ (spillOn \/ Slack < MaxBuffer)

ContentInv ==
  (Faithful /\ phase # "boot") =>
    \A k \in Keys :
      /\ Range(chain[k]) = {l \in ExpectedVersions(k) : l <= applied}
      /\ page[k] = IF chain[k] = <<>> THEN 0 ELSE Newest(chain[k])

IInv ==
  /\ FixedInv /\ TypeOK /\ PhaseInv /\ BundleInv /\ HoldInv /\ DrainInv
  /\ OrderInv /\ ContentInv

-----------------------------------------------------------------------------
\* The operators of the replay.

\* The buffer's first bundle, in the order stream_apply_min and final_drain use.
LEMMA FirstIsLeast ==
  ASSUME NEW buf \in SUBSET Bundles, buf # {}
  PROVE  First(buf) \in buf /\ \A c \in buf : Before(First(buf), c)
<1> DEFINE L == LsnsOf(buf)
<1>1. PICK l \in L : \A m \in L : l <= m
  <2>1. L \in SUBSET Nat /\ L # {}
    BY ReplayAssumption DEF LsnsOf, Bundles, Lsns
  <2> HIDE DEF L
  <2> QED
    BY <2>1, LeastExists, Zenon
<1>2. PICK b \in buf : b.lsn = l
  BY Zenon DEF LsnsOf
<1>3. \A c \in buf : c.lsn \in Nat /\ l <= c.lsn /\ c.spilled \in BOOLEAN
  BY <1>1, ReplayAssumption DEF LsnsOf, Bundles, Lsns
<1>4. \E c \in buf : \A d \in buf : Before(c, d)
  <2>1. CASE \E c \in buf : c.lsn = l /\ ~c.spilled
    <3>1. PICK c \in buf : c.lsn = l /\ ~c.spilled
      BY <2>1, Zenon
    <3>2. \A d \in buf : Before(c, d)
      BY <1>3, <3>1 DEF Before
    <3> QED
      BY <3>2, Zenon
  <2>2. CASE \A c \in buf : c.lsn = l => c.spilled
    <3>1. \A d \in buf : Before(b, d)
      BY <1>2, <1>3, <2>2 DEF Before
    <3> QED
      BY <3>1, Zenon
  <2> QED
    BY <2>1, <2>2, Zenon
<1> QED
  BY <1>4, Zenon DEF First

\* The batch that spill_engage takes from a full buffer is not empty.
LEMMA LowestIsNonempty ==
  ASSUME NEW buf \in SUBSET Bundles, IsFiniteSet(buf), Overflow(buf)
  PROVE  LET batch == Lowest(buf, Cardinality(buf) - MaxBuffer \div 2)
         IN batch # {} /\ batch \subseteq buf
<1> DEFINE n == Cardinality(buf) - MaxBuffer \div 2
<1>1. Cardinality(buf) \in Nat /\ Cardinality(buf) >= MaxBuffer
  BY FS_CardinalityType, Zenon DEF Overflow
<1>2. n \in Int /\ n > 0
  BY <1>1, ReplayAssumption
<1>3. buf # {}
  BY <1>1, FS_EmptySet, ReplayAssumption
<1>4. First(buf) \in buf /\ \A c \in buf : Before(First(buf), c)
  BY <1>3, FirstIsLeast, Zenon
<1> DEFINE b == First(buf)
<1>5. {c \in buf : c.lsn < b.lsn} = {}
  <2>1. \A c \in buf : c.lsn \in Nat
    BY ReplayAssumption DEF Bundles, Lsns
  <2> HIDE DEF b
  <2> QED
    BY <1>4, <2>1 DEF Before, b
<1>6. Cardinality({c \in buf : c.lsn < b.lsn}) < n
  BY <1>2, <1>5, FS_EmptySet, Zenon
<1> HIDE DEF n
<1>7. b \in Lowest(buf, n) /\ Lowest(buf, n) \subseteq buf
  BY <1>4, <1>6, Zenon DEF Lowest
<1> QED
  BY <1>7, Zenon DEF n

\* The last commit below the floor that wrote a key is within the floor.
LEMMA LastAtFloorType ==
  ASSUME FixedInv, NEW k \in Keys
  PROVE  LastAtFloor(k) \in 0 .. floor /\ LastAtFloor(k) <= MaxLsn
<1> DEFINE S == {0} \cup {l \in 1 .. floor : keyOf[l] = k}
<1>1. floor \in Nat /\ floor <= MaxLsn /\ S \in SUBSET (0 .. floor) /\ S # {} /\ MaxLsn \in Nat
  BY ReplayAssumption DEF FixedInv
<1>2. Max(S) \in S
  <2> HIDE DEF S
  <2> QED
    BY <1>1, MaxIsGreatest, Zenon
<1> QED
  BY <1>1, <1>2 DEF LastAtFloor

\* apply_replay_mvcc_write on a chain whose versions are below the bundle's.
LEMMA PushFacts ==
  ASSUME NEW c \in Seq(Lsns), Ascending(c), NEW l \in Lsns,
         \A i \in 1 .. Len(c) : c[i] < l
  PROVE  /\ ~Rejects(c, l) /\ Pushed(c, l) = Append(c, l) /\ Pushed(c, l) \in Seq(Lsns)
         /\ Ascending(Pushed(c, l)) /\ \A i \in 1 .. Len(Pushed(c, l)) : Pushed(c, l)[i] <= l
         /\ Range(Pushed(c, l)) = Range(c) \cup {l}
         /\ Pushed(c, l) # <<>> /\ Newest(Pushed(c, l)) = l
<1>1. Len(c) \in Nat /\ l \in Nat /\ \A i \in 1 .. Len(c) : c[i] \in Nat
  BY ReplayAssumption DEF Lsns
<1>2. ASSUME c # <<>> PROVE Newest(c) < l /\ Newest(c) \in Nat
  BY <1>1, <1>2 DEF Newest
<1>3. ~Rejects(c, l) /\ Pushed(c, l) = Append(c, l)
  BY <1>1, <1>2 DEF Rejects, Pushed
<1> DEFINE d == Append(c, l)
<1>4. /\ d \in Seq(Lsns) /\ Len(d) = Len(c) + 1 /\ d[Len(c) + 1] = l
      /\ \A i \in 1 .. Len(c) : d[i] = c[i]
  OBVIOUS
<1> HIDE DEF d
<1>5. Ascending(d) /\ \A i \in 1 .. Len(d) : d[i] <= l
  BY <1>1, <1>4 DEF Ascending
<1>6. Range(d) = Range(c) \cup {l}
  <2>1. Range(d) = {d[i] : i \in 1 .. Len(c) + 1} /\ Range(c) = {c[i] : i \in 1 .. Len(c)}
    BY <1>4 DEF Range
  <2>2. 1 .. Len(c) + 1 = 1 .. Len(c) \cup {Len(c) + 1}
    BY <1>1
  <2> QED
    BY <1>4, <2>1, <2>2
<1>7. d # <<>> /\ Newest(d) = l
  BY <1>1, <1>4 DEF Newest
<1> QED
  BY <1>3, <1>4, <1>5, <1>6, <1>7, Zenon DEF d

\* The log, what its commits write and the checkpoint stay as they are.
LEMMA FixedStep ==
  ASSUME FixedInv, UNCHANGED fixedVars
  PROVE  /\ FixedInv' /\ (Faithful' <=> Faithful) /\ Range(log)' = Range(log)
         /\ \A k \in Keys : ExpectedVersions(k)' = ExpectedVersions(k)
         /\ \A b : Genuine(b)' <=> Genuine(b)
         /\ \A l : Bundle(l)' = Bundle(l)
<1>1. UNCHANGED <<log, keyOf, floor, spillOn>>
  BY Zenon DEF fixedVars
<1>2. FixedInv'
  BY <1>1, Zenon DEF FixedInv
<1>3. Slack' = Slack
  BY <1>1 DEF Slack
<1>4. Faithful' <=> Faithful
  BY <1>1, <1>3, Zenon DEF Faithful
<1>5. ASSUME NEW k \in Keys PROVE ExpectedVersions(k)' = ExpectedVersions(k)
  BY <1>1, Zenon DEF ExpectedVersions, LastAtFloor, AboveFloor
<1>6. ASSUME NEW b PROVE Genuine(b)' <=> Genuine(b)
  BY <1>1, Zenon DEF Genuine
<1>7. ASSUME NEW l PROVE Bundle(l)' = Bundle(l)
  BY <1>1, Zenon DEF Bundle
<1> QED
  BY <1>1, <1>2, <1>4, <1>5, <1>6, <1>7, Zenon

\* apply_bundle of the buffer's first bundle.
LEMMA ApplyFirst ==
  ASSUME FixedInv, TypeOK, BundleInv, OrderInv, buffer # {}, UNCHANGED fixedVars,
         NEW b, b = First(buffer), ApplyBundle(b)
  PROVE  /\ b \in buffer /\ b \in Bundles /\ Genuine(b)
         /\ \A c \in buffer : c.lsn >= b.lsn
         /\ applied' = IF b.lsn > applied THEN b.lsn ELSE applied
         /\ advanced' = IF b.lsn > applied THEN advanced \cup {b.lsn} ELSE advanced
         /\ applied' \in 0 .. MaxLsn /\ advanced' \subseteq Lsns /\ rejected' = FALSE
         /\ chain' \in [Keys -> Seq(Lsns)] /\ page' \in [Keys -> 0 .. MaxLsn]
         /\ OrderInv'
<1>1. b \in buffer /\ \A c \in buffer : Before(b, c)
  BY FirstIsLeast, Zenon DEF TypeOK
<1>2. b \in Bundles /\ Genuine(b)
  BY <1>1, Zenon DEF TypeOK, BundleInv
<1>3. /\ b.lsn \in Lsns /\ b.lsn \in Nat /\ b.page \in Keys
      /\ b.row \in Keys \cup {NoKey} /\ applied \in Nat /\ MaxLsn \in Nat /\ NoKey \notin Keys
  BY <1>2, ReplayAssumption DEF Bundles, Lsns, TypeOK
<1>4. \A c \in buffer : c.lsn >= b.lsn
  <2>1. \A c \in buffer : c.lsn \in Nat
    BY ReplayAssumption DEF TypeOK, Bundles, Lsns
  <2> QED
    BY <1>1, <1>3, <2>1 DEF Before
<1>6. CASE b.lsn <= applied
  <2>1. UNCHANGED <<applied, chain, page, advanced, rejected>>
    BY <1>6, Zenon DEF ApplyBundle, SkipApplied
  <2>2. OrderInv'
    BY <2>1, Zenon DEF OrderInv, Ascending
  <2>3. rejected' = FALSE
    BY <2>1, Zenon DEF OrderInv, TypeOK
  <2>4. ~(b.lsn > applied)
    BY <1>3, <1>6
  <2> QED
    BY <1>1, <1>2, <1>4, <2>1, <2>2, <2>3, <2>4, Zenon DEF TypeOK
<1>7. CASE b.lsn > applied
  <2>1. /\ chain' = IF b.row = NoKey THEN chain
                    ELSE [chain EXCEPT ![b.row] = Pushed(@, b.lsn)]
        /\ rejected' = (rejected \/ (b.row # NoKey /\ Rejects(chain[b.row], b.lsn)))
        /\ page' = [page EXCEPT ![b.page] = b.lsn]
        /\ advanced' = advanced \cup {b.lsn} /\ applied' = b.lsn
    <3>1. ~ SkipApplied(b.lsn)
      BY <1>3, <1>7 DEF SkipApplied
    <3> QED
      BY <3>1, Zenon DEF ApplyBundle
  <2>2. page' \in [Keys -> 0 .. MaxLsn] /\ advanced' \subseteq Lsns /\ applied' \in 0 .. MaxLsn
    <3>1. page \in [Keys -> 0 .. MaxLsn] /\ advanced \subseteq Lsns /\ b.lsn \in 0 .. MaxLsn
      BY <1>3 DEF TypeOK, Lsns
    <3> QED
      BY <1>3, <2>1, <3>1, Zenon
  <2>3. chain \in [Keys -> Seq(Lsns)]
    BY Zenon DEF TypeOK
  <2>4. \A k \in Keys : \A i \in 1 .. Len(chain[k]) : chain[k][i] \in Nat
    BY <2>3, ReplayAssumption DEF Lsns
  <2>5. \A k \in Keys : Ascending(chain[k]) /\ \A i \in 1 .. Len(chain[k]) : chain[k][i] < b.lsn
    BY <1>3, <1>7, <2>4 DEF OrderInv
  <2>6. CASE b.row = NoKey
    <3>1. chain' = chain
      BY <2>1, <2>6, Zenon
    <3>2. rejected' = FALSE
      BY <2>1, <2>6, Zenon DEF OrderInv
    <3>3. \A k \in Keys : Ascending(chain[k])'
      BY <2>5, <3>1, Zenon DEF Ascending
    <3>4. \A k \in Keys : \A i \in 1 .. Len(chain[k]) : chain[k][i] <= b.lsn
      BY <1>3, <2>4, <2>5
    <3>5. OrderInv'
      BY <2>1, <3>1, <3>2, <3>3, <3>4, Zenon DEF OrderInv
    <3> QED
      BY <1>1, <1>2, <1>4, <1>7, <2>1, <2>2, <2>3, <3>1, <3>2, <3>5, Zenon
  <2>7. CASE b.row \in Keys
    <3> DEFINE k == b.row  c == chain[k]  d == Pushed(c, b.lsn)
    <3>1. /\ ~Rejects(c, b.lsn) /\ d \in Seq(Lsns) /\ Ascending(d)
          /\ \A i \in 1 .. Len(d) : d[i] <= b.lsn
      <4>1. c \in Seq(Lsns) /\ Ascending(c) /\ \A i \in 1 .. Len(c) : c[i] < b.lsn
        BY <2>3, <2>5, <2>7, Zenon
      <4> HIDE DEF c
      <4> QED
        BY <1>3, <4>1, PushFacts, Zenon
    <3> HIDE DEF d
    <3>2. chain' = [chain EXCEPT ![k] = d]
      BY <1>3, <2>1, <2>7, Zenon DEF d
    <3>3. chain' \in [Keys -> Seq(Lsns)] /\ chain'[k] = d
          /\ \A j \in Keys : j # k => chain'[j] = chain[j]
      BY <2>3, <2>7, <3>1, <3>2, Zenon
    <3>4. rejected' = FALSE
      BY <2>1, <3>1, Zenon DEF OrderInv
    <3>5. ASSUME NEW j \in Keys
          PROVE  Ascending(chain'[j]) /\ \A i \in 1 .. Len(chain'[j]) : chain'[j][i] <= b.lsn
      <4>1. CASE j = k
        BY <3>1, <3>3, <4>1, Zenon
      <4>2. CASE j # k
        <5>1. chain'[j] = chain[j] /\ Ascending(chain[j])
              /\ \A i \in 1 .. Len(chain[j]) : chain[j][i] < b.lsn /\ chain[j][i] \in Nat
          BY <2>4, <2>5, <3>3, <4>2, Zenon
        <5>2. \A i \in 1 .. Len(chain[j]) : chain[j][i] <= b.lsn
          BY <1>3, <5>1
        <5> QED
          BY <5>1, <5>2, Zenon
      <4> QED
        BY <4>1, <4>2, Zenon
    <3>6. OrderInv'
      BY <2>1, <3>4, <3>5, Zenon DEF OrderInv, Ascending
    <3> QED
      BY <1>1, <1>2, <1>4, <1>7, <2>1, <2>2, <3>3, <3>4, <3>6, Zenon
  <2> QED
    BY <1>3, <2>6, <2>7, Zenon
<1>8. b.lsn <= applied \/ b.lsn > applied
  BY <1>3
<1> QED
  BY <1>6, <1>7, <1>8, Zenon

\* Applying the least bundle above the high water keeps the chains complete, if
\* the log has no other bundle between the two.
LEMMA ContentApply ==
  ASSUME FixedInv, TypeOK, BundleInv, OrderInv, ContentInv, phase # "boot",
         applied >= floor, buffer # {}, UNCHANGED fixedVars,
         NEW b, b = First(buffer), ApplyBundle(b),
         Faithful => \A l \in Range(log) : l > applied => b.lsn <= l
  PROVE  ContentInv'
<1>1. /\ b \in Bundles /\ Genuine(b)
      /\ applied' = IF b.lsn > applied THEN b.lsn ELSE applied
  BY ApplyFirst, Zenon
<1>2. SUFFICES ASSUME Faithful, NEW j \in Keys
               PROVE  /\ Range(chain'[j]) = {l \in ExpectedVersions(j) : l <= applied'}
                      /\ page'[j] = IF chain'[j] = <<>> THEN 0 ELSE Newest(chain'[j])
  <2>1. \A k \in Keys : ExpectedVersions(k)' = ExpectedVersions(k)
    BY FixedStep, Zenon
  <2>2. Faithful' <=> Faithful
    BY FixedStep, Zenon
  <2> QED
    BY <2>1, <2>2, Zenon DEF ContentInv
<1>3. /\ Range(chain[j]) = {l \in ExpectedVersions(j) : l <= applied}
      /\ page[j] = IF chain[j] = <<>> THEN 0 ELSE Newest(chain[j])
  BY <1>2, Zenon DEF ContentInv
<1>4. /\ b.lsn \in Lsns /\ b.lsn \in Nat /\ applied \in Nat /\ floor \in Nat /\ NoKey \notin Keys
      /\ MaxLsn \in Nat
  BY <1>1, ReplayAssumption DEF Bundles, Lsns, TypeOK, FixedInv
<1>5. CASE b.lsn <= applied
  <2>1. UNCHANGED <<applied, chain, page>>
    BY <1>5, Zenon DEF ApplyBundle, SkipApplied
  <2> QED
    BY <1>3, <2>1, Zenon
<1>6. CASE b.lsn > applied
  <2> DEFINE k == keyOf[b.lsn]
  <2>1. b.row = k /\ b.page = k /\ b.lsn \in Range(log) /\ k \in Keys
    BY <1>1, <1>2, <1>4, Zenon DEF Genuine, Faithful, FixedInv
  <2>2. /\ chain' = [chain EXCEPT ![k] = Pushed(@, b.lsn)]
        /\ page' = [page EXCEPT ![k] = b.lsn] /\ applied' = b.lsn
    BY <1>4, <1>6, <2>1 DEF ApplyBundle, SkipApplied
  <2>3. {l \in ExpectedVersions(j) : l <= b.lsn}
          = {l \in ExpectedVersions(j) : l <= applied} \cup (IF j = k THEN {b.lsn} ELSE {})
    <3>1. Range(log) \subseteq Nat
      BY ReplayAssumption DEF Range, FixedInv, Lsns
    <3>2. LastAtFloor(j) \in 0 .. floor
      BY LastAtFloorType, Zenon
    <3>3. \A l \in ExpectedVersions(j) :
            l \in Nat /\ (l > applied => l \in Range(log) /\ keyOf[l] = j)
      BY <1>4, <3>1, <3>2 DEF ExpectedVersions, AboveFloor
    <3>4. \A l \in ExpectedVersions(j) : l > applied /\ l <= b.lsn => l = b.lsn /\ j = k
      BY <1>2, <1>4, <3>3
    <3>5. j = k => b.lsn \in ExpectedVersions(j)
      BY <1>4, <1>6, <2>1 DEF ExpectedVersions, AboveFloor
    <3> QED
      BY <1>4, <1>6, <3>3, <3>4, <3>5
  <2>4. chain \in [Keys -> Seq(Lsns)] /\ page \in [Keys -> 0 .. MaxLsn]
    BY Zenon DEF TypeOK
  <2>5. CASE j = k
    <3> DEFINE c == chain[j]  d == Pushed(c, b.lsn)
    <3>1. c \in Seq(Lsns) /\ Ascending(c) /\ \A i \in 1 .. Len(c) : c[i] < b.lsn
      BY <1>4, <1>6, <2>4, ReplayAssumption DEF OrderInv, Lsns
    <3>2. Range(d) = Range(c) \cup {b.lsn} /\ d # <<>> /\ Newest(d) = b.lsn
      <4> HIDE DEF c
      <4> QED
        BY <1>4, <3>1, PushFacts, Zenon
    <3> HIDE DEF d
    <3>3. chain'[j] = d /\ page'[j] = b.lsn
      BY <2>1, <2>2, <2>4, <2>5, Zenon DEF d
    <3> QED
      BY <1>3, <2>2, <2>3, <2>5, <3>2, <3>3, Zenon
  <2>6. CASE j # k
    <3>1. chain'[j] = chain[j] /\ page'[j] = page[j]
      BY <2>2, <2>4, <2>6, Zenon
    <3> QED
      BY <1>3, <2>2, <2>3, <2>6, <3>1, Zenon
  <2> QED
    BY <2>5, <2>6, Zenon
<1> QED
  BY <1>4, <1>5, <1>6

\* The slack bounds, for each bundle, the bundles above it that precede it.
LEMMA SlackBounds ==
  ASSUME FixedInv, NEW j \in 1 .. Len(log)
  PROVE  LET above == {i \in 1 .. j : log[i] > log[j]}
         IN IsFiniteSet(above) /\ Cardinality(above) <= Slack /\ Slack \in Nat
<1> DEFINE above(m) == {i \in 1 .. m : log[i] > log[m]}
           S == {0} \cup {Cardinality(above(m)) : m \in 1 .. Len(log)}
<1>1. Len(log) \in Nat
  BY DEF FixedInv
<1>2. ASSUME NEW m \in 1 .. Len(log)
      PROVE  IsFiniteSet(above(m)) /\ Cardinality(above(m)) \in 0 .. Len(log)
  <2>1. IsFiniteSet(1 .. m) /\ Cardinality(1 .. m) = m
    BY <1>1, FS_Interval
  <2>2. above(m) \in SUBSET (1 .. m)
    BY Zenon
  <2> HIDE DEF above
  <2>3. IsFiniteSet(above(m)) /\ Cardinality(above(m)) <= m
    BY <2>1, <2>2, FS_Subset
  <2>4. Cardinality(above(m)) \in Nat
    BY <2>3, FS_CardinalityType, Zenon
  <2> QED
    BY <1>1, <2>3, <2>4
<1> HIDE DEF above
<1>3. S \in SUBSET (0 .. Len(log)) /\ S # {}
  BY <1>1, <1>2
<1>4. Cardinality(above(j)) \in S
  BY Zenon
<1>5. Slack = Max(S)
  BY Zenon DEF Slack, above
<1> HIDE DEF S
<1>6. Max(S) \in S /\ \A y \in S : y <= Max(S)
  BY <1>1, <1>3, MaxIsGreatest, Zenon
<1>7. Cardinality(above(j)) <= Slack /\ Slack \in 0 .. Len(log)
  BY <1>3, <1>4, <1>5, <1>6, Zenon
<1>8. Slack \in Nat
  BY <1>7
<1> QED
  BY <1>2, <1>7, <1>8, Zenon DEF above

\* Without the spill: when the slack is below the buffer bound, no bundle that
\* is still to come is below the one that a full buffer gives up.
LEMMA NothingOvertaken ==
  ASSUME FixedInv, TypeOK, PhaseInv, HoldInv, phase = "overflow", ~spillOn,
         Slack < MaxBuffer, NEW b, b = First(buffer),
         NEW l \in Range(log), l > applied
  PROVE  b.lsn <= l
<1>1. IsFiniteSet(buffer) /\ Cardinality(buffer) >= MaxBuffer /\ toSpill = {} /\ spillFiles = {}
  BY Zenon DEF PhaseInv, ReadPhases, Overflow
<1>2. Cardinality(buffer) \in Nat /\ buffer # {} /\ MaxBuffer \in Nat
  BY <1>1, FS_CardinalityType, FS_EmptySet, ReplayAssumption
<1>3. b \in buffer /\ \A c \in buffer : Before(b, c)
  BY <1>2, FirstIsLeast, Zenon DEF TypeOK
<1>4. \A c \in buffer : c.lsn \in Nat /\ b.lsn <= c.lsn
  <2>1. \A c \in buffer : c.lsn \in Nat
    BY ReplayAssumption DEF TypeOK, Bundles, Lsns
  <2> QED
    BY <1>3, <2>1 DEF Before
<1>5. PICK files \in SUBSET spillFiles : HeldIn(files)
  BY Zenon DEF HoldInv, ReadPhases
<1>6. UNION files = {}
  BY <1>1, Zenon
<1>7. /\ \A m \in Read : m > applied => m \in LsnsOf(buffer)
      /\ LsnsOf(buffer) \subseteq Read
      /\ \A c \in buffer : c = Bundle(c.lsn)
  <2>1. LsnsOf(UNION files) = {} /\ LsnsOf(toSpill) = {}
    BY <1>1, <1>6, Zenon DEF LsnsOf
  <2>2. \A m \in Read : m \in Nat /\ applied \in Nat
    BY ReplayAssumption DEF Read, TypeOK, FixedInv, Lsns
  <2>3. LsnsOf(buffer) \cup LsnsOf(toSpill) \cup LsnsOf(UNION files) = LsnsOf(buffer)
    BY <2>1, Zenon
  <2>4. /\ \A m \in Read : IF m <= applied THEN m \in advanced ELSE m \in LsnsOf(buffer)
        /\ LsnsOf(buffer) \subseteq Read
        /\ \A c \in buffer : c = Bundle(c.lsn)
    BY <1>5, <2>3, Zenon DEF HeldIn
  <2> QED
    BY <2>2, <2>4
<1>8. PICK j \in 1 .. Len(log) : log[j] = l
  BY DEF Range, FixedInv
<1>9. Len(log) \in Nat /\ pos \in Nat /\ l \in Nat
  BY <1>8, ReplayAssumption DEF TypeOK, FixedInv, Lsns
<1>10. CASE j < pos
  <2>1. l \in Read
    BY <1>8, <1>9, <1>10 DEF Read
  <2>2. PICK c \in buffer : c.lsn = l
    BY <1>7, <2>1, Zenon DEF LsnsOf
  <2> QED
    BY <1>4, <2>2, Zenon
<1>11. CASE j >= pos
  <2>1. SUFFICES ASSUME l < b.lsn PROVE FALSE
    BY <1>3, <1>4, <1>9
  <2> DEFINE above == {i \in 1 .. j : log[i] > log[j]}
             F == [c \in buffer |-> CHOOSE i \in 1 .. pos - 1 : log[i] = c.lsn]
  <2>2. \A c \in buffer : F[c] \in 1 .. pos - 1 /\ log[F[c]] = c.lsn
    <3>1. ASSUME NEW c \in buffer PROVE \E i \in 1 .. pos - 1 : log[i] = c.lsn
      BY <1>7, Zenon DEF LsnsOf, Read
    <3> QED
      BY <3>1, Zenon
  <2> HIDE DEF F
  <2>3. \A c \in buffer : F[c] \in above
    <3> SUFFICES ASSUME NEW c \in buffer PROVE F[c] \in above
      BY Zenon
    <3>1. F[c] \in 1 .. pos - 1 /\ log[F[c]] = c.lsn
      BY <2>2, Zenon
    <3>2. F[c] \in 1 .. j
      BY <1>9, <1>11, <3>1
    <3>3. log[F[c]] > log[j]
      BY <1>3, <1>4, <1>8, <1>9, <2>1, <3>1
    <3> QED
      BY <3>2, <3>3, Zenon
  <2>4. F \in [buffer -> above]
    BY <2>3, Zenon DEF F
  <2>5. \A c, d \in buffer : F[c] = F[d] => c = d
    BY <1>7, <2>2, Zenon
  <2>6. IsFiniteSet(above) /\ Cardinality(above) <= Slack /\ Slack \in Nat
    BY SlackBounds, Zenon
  <2> HIDE DEF above
  <2>7. F \in Injection(buffer, above)
    BY <2>4, <2>5, Zenon DEF Injection, IsInjective
  <2>8. Cardinality(buffer) <= Cardinality(above)
    BY <2>6, <2>7, FS_Injection, Zenon
  <2>9. Cardinality(above) \in Nat
    BY <2>6, FS_CardinalityType, Zenon
  <2> QED
    BY <1>1, <1>2, <2>6, <2>8, <2>9
<1> QED
  BY <1>9, <1>10, <1>11

-----------------------------------------------------------------------------
\* Init and the steps of the executor establish and keep the invariant.

\* The invariant holds initially, for every log, floor and assignment of keys.
LEMMA InvInit == Init => IInv
<1> SUFFICES ASSUME Init PROVE IInv
  BY Zenon
<1>1. FixedInv
  <2>1. PICK n \in 0 .. MaxLsn : log \in [1 .. n -> Lsns]
    BY Zenon DEF Init
  <2>2. IsInjective(log) /\ SpillModes \subseteq BOOLEAN
    BY ReplayAssumption, Zenon DEF Init
  <2>3. n \in Nat /\ log \in Seq(Lsns) /\ Len(log) = n /\ DOMAIN log = 1 .. n
    BY <2>1, ReplayAssumption
  <2> QED
    BY <2>2, <2>3, Zenon DEF Init, FixedInv, IsInjective
<1>2. TypeOK
  <2>1. chain \in [Keys -> Seq(Lsns)] /\ page \in [Keys -> 0 .. MaxLsn]
    <3>1. <<>> \in Seq(Lsns) /\ 0 \in 0 .. MaxLsn
      BY ReplayAssumption
    <3> QED
      BY <3>1, Zenon DEF Init
  <2>2. rejected \in BOOLEAN
    BY Zenon DEF Init
  <2>3. pos \in 1 .. Len(log) + 1 /\ applied \in 0 .. MaxLsn /\ visible \in 0 .. MaxLsn
        /\ faults \in 0 .. MaxFaults /\ pid \in Nat
    BY <1>1, ReplayAssumption DEF FixedInv, Init
  <2> QED
    BY <2>1, <2>2, <2>3, Zenon DEF TypeOK, Init
<1>3. PhaseInv
  BY Zenon DEF PhaseInv, ReadPhases, DrainPhases, Init
<1>4. BundleInv
  BY Zenon DEF BundleInv, Init
<1>5. HoldInv /\ DrainInv
  BY Zenon DEF HoldInv, DrainInv, ReadPhases, DrainPhases, Init
<1>6. OrderInv
  <2>1. \A k \in Keys : chain[k] = <<>>
    BY Zenon DEF Init
  <2>2. ~rejected
    BY Zenon DEF Init
  <2> QED
    BY <2>1, <2>2 DEF OrderInv, Ascending
<1>7. ContentInv
  BY Zenon DEF ContentInv, Init
<1> QED
  BY <1>1, <1>2, <1>3, <1>4, <1>5, <1>6, <1>7, Zenon DEF IInv

\* A crash, or the exit after an error, and the next start of the server.
LEMMA RestartStep ==
  ASSUME IInv, Restart, faults' \in 0 .. MaxFaults
  PROVE  IInv'
<1>1. UNCHANGED fixedVars /\ UNCHANGED <<spillFiles, temps>>
  BY Zenon DEF Restart, diskVars
<1>2. FixedInv' /\ \A b : Genuine(b)' <=> Genuine(b)
  BY <1>1, FixedStep, Zenon DEF IInv
<1>3. ~spillOn' => spillFiles' = {}
  BY <1>1, Zenon DEF IInv, PhaseInv, fixedVars
<1>4. \A b \in UNION spillFiles' : Genuine(b)'
  BY <1>1, <1>2, Zenon DEF IInv, BundleInv
<1>5. /\ spillFiles' \subseteq SUBSET Bundles /\ temps' \subseteq Nat \X (Lsns \X Lsns)
      /\ pid' \in Nat
  BY <1>1 DEF IInv, TypeOK, Restart
<1>6. TypeOK'
  <2>1. chain' \in [Keys -> Seq(Lsns)] /\ page' \in [Keys -> 0 .. MaxLsn]
    <3>1. <<>> \in Seq(Lsns) /\ 0 \in 0 .. MaxLsn
      BY ReplayAssumption
    <3> QED
      BY <3>1, Zenon DEF Restart
  <2>2. rejected' \in BOOLEAN
    BY Zenon DEF Restart
  <2>3. pos' \in 1 .. Len(log') + 1 /\ applied' \in 0 .. MaxLsn /\ visible' \in 0 .. MaxLsn
    BY <1>2, ReplayAssumption DEF FixedInv, Restart
  <2> QED
    BY <1>5, <2>1, <2>2, <2>3, Zenon DEF TypeOK, Restart
<1>7. PhaseInv'
  BY <1>3, Zenon DEF PhaseInv, ReadPhases, DrainPhases, Restart
<1>8. BundleInv'
  BY <1>4, Zenon DEF BundleInv, Restart
<1>9. HoldInv' /\ DrainInv'
  BY Zenon DEF HoldInv, DrainInv, ReadPhases, DrainPhases, Restart
<1>10. OrderInv'
  <2>1. \A k \in Keys : chain'[k] = <<>>
    BY Zenon DEF Restart
  <2>2. ~rejected'
    BY Zenon DEF Restart
  <2> QED
    BY <2>1, <2>2 DEF OrderInv, Ascending
<1>11. ContentInv'
  BY Zenon DEF ContentInv, Restart
<1> QED
  BY <1>2, <1>6, <1>7, <1>8, <1>9, <1>10, <1>11, Zenon DEF IInv

\* The recovery restores the checkpoint and starts to read the log.
LEMMA StartStep ==
  ASSUME IInv, Start
  PROVE  IInv'
<1> FixedInv /\ TypeOK /\ PhaseInv /\ BundleInv /\ OrderInv
  BY Zenon DEF IInv
<1>1. /\ phase = "boot" /\ phase' = "reading" /\ applied' = floor /\ Restored
      /\ UNCHANGED fixedVars
      /\ UNCHANGED <<pos, buffer, toSpill, visible, advanced, rejected, spillFiles, temps, pid, faults>>
  BY Zenon DEF Start, diskVars
<1>2. /\ FixedInv' /\ (\A k \in Keys : ExpectedVersions(k)' = ExpectedVersions(k))
      /\ (\A b : Genuine(b)' <=> Genuine(b)) /\ Range(log)' = Range(log)
      /\ UNCHANGED <<log, keyOf, floor, spillOn>>
  BY <1>1, FixedStep, Zenon DEF fixedVars
<1>3. pos = 1 /\ buffer = {} /\ toSpill = {} /\ visible = 0
  BY <1>1, Zenon DEF PhaseInv
<1>4. floor \in 0 .. MaxLsn /\ MaxLsn \in Nat /\ floor \in Nat
  BY ReplayAssumption DEF FixedInv
<1> DEFINE L == [k \in Keys |-> LastAtFloor(k)]
<1>5. L \in [Keys -> 0 .. floor]
  <2>1. \A k \in Keys : LastAtFloor(k) \in 0 .. floor
    BY LastAtFloorType, Zenon
  <2> QED
    BY <2>1, Zenon
<1>6. /\ chain' = [k \in Keys |-> IF L[k] = 0 THEN <<>> ELSE <<L[k]>>]
      /\ page' = [k \in Keys |-> L[k]]
      /\ \A k \in Keys : ExpectedVersions(k) = ({L[k]} \ {0}) \cup AboveFloor(k)
  BY <1>1, Zenon DEF Restored, ExpectedVersions
<1> HIDE DEF L
<1>7. TypeOK'
  <2>1. \A k \in Keys : L[k] \in 0 .. MaxLsn /\ (L[k] # 0 => L[k] \in Lsns)
    BY <1>4, <1>5 DEF Lsns
  <2>2. ASSUME NEW k \in Keys
        PROVE  (IF L[k] = 0 THEN <<>> ELSE <<L[k]>>) \in Seq(Lsns)
    <3>1. CASE L[k] = 0
      BY <3>1
    <3>2. CASE L[k] # 0
      BY <2>1, <3>2
    <3> QED
      BY <3>1, <3>2, Zenon
  <2>3. chain' \in [Keys -> Seq(Lsns)] /\ page' \in [Keys -> 0 .. MaxLsn]
    BY <1>6, <2>1, <2>2, Zenon
  <2> QED
    BY <1>1, <1>2, <1>4, <2>3, Zenon DEF TypeOK
<1>8. PhaseInv'
  <2>1. IsFiniteSet(buffer')
    BY <1>1, <1>3, FS_EmptySet, Zenon
  <2>2. applied' \in Range(log') \cup {floor'} /\ applied' >= floor'
    BY <1>1, <1>2, <1>4
  <2> QED
    BY <1>1, <1>2, <1>3, <2>1, <2>2, Zenon DEF PhaseInv, ReadPhases, DrainPhases
<1>9. BundleInv'
  BY <1>1, <1>2, Zenon DEF BundleInv
<1>10. HoldInv'
  <2>1. Read' = {} /\ LsnsOf(buffer)' = {} /\ LsnsOf(toSpill)' = {} /\ LsnsOf(UNION {}) = {}
    BY <1>1, <1>3 DEF Read, LsnsOf
  <2>2. HeldIn({})'
    BY <1>1, <1>3, <2>1, Zenon DEF HeldIn
  <2> QED
    BY <2>2, Zenon DEF HoldInv
<1>11. DrainInv'
  BY <1>1, Zenon DEF DrainInv, DrainPhases
<1>12. OrderInv'
  <2>1. ASSUME NEW k \in Keys
        PROVE  Ascending(chain'[k]) /\ \A i \in 1 .. Len(chain'[k]) : chain'[k][i] <= floor
    <3>1. CASE L[k] = 0
      <4>1. chain'[k] = <<>>
        BY <1>6, <3>1, Zenon
      <4> QED
        BY <4>1 DEF Ascending
    <3>2. CASE L[k] # 0
      <4>1. Len(chain'[k]) = 1 /\ chain'[k][1] = L[k]
        BY <1>6, <3>2, Zenon
      <4> QED
        BY <1>4, <1>5, <4>1 DEF Ascending
    <3> QED
      BY <3>1, <3>2, Zenon
  <2> QED
    BY <1>1, <2>1, Zenon DEF OrderInv, Ascending
<1>13. ContentInv'
  <2>1. ASSUME NEW k \in Keys
        PROVE  /\ Range(chain'[k]) = {l \in ExpectedVersions(k) : l <= floor}
               /\ page'[k] = IF chain'[k] = <<>> THEN 0 ELSE Newest(chain'[k])
    <3>1. Range(log) \subseteq Nat
      BY ReplayAssumption DEF Range, FixedInv, Lsns
    <3>2. {l \in ExpectedVersions(k) : l <= floor} = {L[k]} \ {0}
      BY <1>4, <1>5, <1>6, <3>1 DEF AboveFloor
    <3>3. CASE L[k] = 0
      <4>1. chain'[k] = <<>> /\ page'[k] = 0
        BY <1>6, <3>3, Zenon
      <4>2. Range(chain'[k]) = {}
        BY <4>1 DEF Range
      <4> QED
        BY <3>2, <3>3, <4>1, <4>2, Zenon
    <3>4. CASE L[k] # 0
      <4>1. chain'[k] = <<L[k]>> /\ page'[k] = L[k]
        BY <1>6, <3>4, Zenon
      <4>2. Range(chain'[k]) = {L[k]} /\ chain'[k] # <<>> /\ Newest(chain'[k]) = L[k]
        BY <4>1 DEF Range, Newest
      <4> QED
        BY <3>2, <3>4, <4>1, <4>2, Zenon
    <3> QED
      BY <3>3, <3>4, Zenon
  <2> QED
    BY <1>1, <1>2, <2>1, Zenon DEF ContentInv
<1> QED
  BY <1>2, <1>7, <1>8, <1>9, <1>10, <1>11, <1>12, <1>13, Zenon DEF IInv

\* A bundle is read: skipped when it is applied already, else buffered.
LEMMA ReadStep ==
  ASSUME IInv, ReadBundle
  PROVE  IInv'
<1> FixedInv /\ TypeOK /\ PhaseInv /\ BundleInv /\ HoldInv /\ DrainInv /\ OrderInv /\ ContentInv
  BY Zenon DEF IInv
<1> DEFINE l == log[pos]
<1>1. /\ phase = "reading" /\ pos <= Len(log) /\ pos' = pos + 1
      /\ phase' = IF Overflow(buffer') THEN "overflow" ELSE "reading"
      /\ UNCHANGED fixedVars
      /\ UNCHANGED <<toSpill, applied, chain, page, visible, rejected, spillFiles, temps, pid, faults>>
  BY Zenon DEF ReadBundle, diskVars
<1>2. /\ FixedInv' /\ (Faithful' <=> Faithful)
      /\ (\A k \in Keys : ExpectedVersions(k)' = ExpectedVersions(k))
      /\ (\A b : Genuine(b)' <=> Genuine(b)) /\ (\A m : Bundle(m)' = Bundle(m))
      /\ UNCHANGED <<log, keyOf, floor, spillOn>>
  BY <1>1, FixedStep, Zenon DEF fixedVars
<1>3. /\ pos \in 1 .. Len(log) /\ Len(log) \in Nat /\ l \in Lsns /\ l \in Nat /\ applied \in Nat
      /\ l \in Range(log)
  BY <1>1, ReplayAssumption DEF TypeOK, FixedInv, Lsns, Range
<1>4. Bundle(l) \in Bundles /\ Bundle(l).lsn = l /\ Genuine(Bundle(l))
  BY <1>3, Zenon DEF Bundle, Bundles, FixedInv, Genuine
<1>5. Read' = Read \cup {l} /\ l \notin Read
  <2>1. Read' = {log[i] : i \in 1 .. pos}
    BY <1>1, <1>2, <1>3 DEF Read
  <2>2. 1 .. pos = 1 .. pos - 1 \cup {pos}
    BY <1>3
  <2>3. \A i \in 1 .. pos - 1 : i \in 1 .. Len(log) /\ i # pos
    BY <1>3
  <2>4. l \notin Read
    BY <1>3, <2>3, Zenon DEF Read, FixedInv
  <2>5. {log[i] : i \in 1 .. pos} = {log[i] : i \in 1 .. pos - 1} \cup {log[pos]}
    BY <2>2, Zenon
  <2> QED
    BY <2>1, <2>4, <2>5, Zenon DEF Read
<1>6. \/ l <= applied /\ advanced' = advanced \cup {l} /\ buffer' = buffer
      \/ l > applied /\ advanced' = advanced /\ buffer' = buffer \cup {Bundle(l)}
  BY <1>3 DEF ReadBundle, SkipApplied
<1> HIDE DEF l
<1>7. IsFiniteSet(buffer')
  <2>1. IsFiniteSet(buffer)
    BY <1>1, Zenon DEF PhaseInv, ReadPhases
  <2>2. IsFiniteSet(buffer \cup {Bundle(l)})
    BY <2>1, FS_AddElement, Zenon
  <2> QED
    BY <1>6, <2>1, <2>2, Zenon
<1>8. TypeOK'
  <2>1. buffer' \subseteq Bundles /\ advanced' \subseteq Lsns
    <3>1. buffer \subseteq Bundles /\ advanced \subseteq Lsns
      BY Zenon DEF TypeOK
    <3> QED
      BY <1>3, <1>4, <1>6, <3>1, Zenon
  <2>2. pos' \in 1 .. Len(log') + 1
    BY <1>1, <1>2, <1>3
  <2> QED
    BY <1>1, <2>1, <2>2, Zenon DEF TypeOK
<1>9. PhaseInv'
  BY <1>1, <1>2, <1>7, Zenon DEF PhaseInv, ReadPhases, DrainPhases
<1>10. BundleInv'
  <2>1. \A b \in buffer' : Genuine(b)
    BY <1>4, <1>6, Zenon DEF BundleInv
  <2> QED
    BY <1>1, <1>2, <2>1, Zenon DEF BundleInv
<1>11. HoldInv'
  <2>1. PICK files \in SUBSET spillFiles : HeldIn(files)
    BY <1>1, Zenon DEF HoldInv, ReadPhases
  <2> DEFINE B == LsnsOf(buffer)  P == LsnsOf(toSpill)  H == LsnsOf(UNION files)
             B1 == LsnsOf(buffer')
  <2>2. /\ \A f \in files : f # {}
        /\ \A m \in Read : IF m <= applied THEN m \in advanced ELSE m \in B \cup P \cup H
        /\ B \cup P \cup H \subseteq Read /\ B \cap P = {} /\ (B \cup P) \cap H = {}
        /\ \A b \in buffer \cup toSpill : b = Bundle(b.lsn) /\ b.lsn > applied
    BY <2>1, Zenon DEF HeldIn
  <2>3. \/ l <= applied /\ advanced' = advanced \cup {l} /\ B1 = B
        \/ l > applied /\ advanced' = advanced /\ B1 = B \cup {l}
    BY <1>4, <1>6 DEF LsnsOf
  <2>4. \A b \in buffer' \cup toSpill : b = Bundle(b.lsn) /\ b.lsn > applied
    BY <1>4, <1>6, <2>2, Zenon
  <2> HIDE DEF B, P, H, B1
  <2>5. \A m \in Read \cup {l} : IF m <= applied THEN m \in advanced' ELSE m \in B1 \cup P \cup H
    BY <1>3, <2>2, <2>3
  <2>6. B1 \cup P \cup H \subseteq Read \cup {l} /\ B1 \cap P = {} /\ (B1 \cup P) \cap H = {}
    BY <1>5, <2>2, <2>3, Zenon
  <2>7. HeldIn(files)'
    <3>1. \A m \in Read' : IF m <= applied' THEN m \in advanced'
                           ELSE m \in LsnsOf(buffer)' \cup LsnsOf(toSpill)' \cup LsnsOf(UNION files)
      BY <1>1, <1>5, <2>5, Zenon DEF B1, P, H
    <3>2. /\ LsnsOf(buffer)' \cup LsnsOf(toSpill)' \cup LsnsOf(UNION files) \subseteq Read'
          /\ LsnsOf(buffer)' \cap LsnsOf(toSpill)' = {}
          /\ (LsnsOf(buffer)' \cup LsnsOf(toSpill)') \cap LsnsOf(UNION files) = {}
      BY <1>1, <1>5, <2>6, Zenon DEF B1, P, H
    <3>3. \A b \in buffer' \cup toSpill' : b = Bundle(b.lsn)' /\ b.lsn > applied'
      BY <1>1, <1>2, <2>4, Zenon
    <3> QED
      BY <2>2, <3>1, <3>2, <3>3, Zenon DEF HeldIn
  <2> QED
    BY <1>1, <2>7, Zenon DEF HoldInv
<1>12. DrainInv'
  BY <1>1, Zenon DEF DrainInv, DrainPhases
<1>13. OrderInv'
  BY <1>1, Zenon DEF OrderInv, Ascending
<1>14. ContentInv'
  BY <1>1, <1>2, Zenon DEF ContentInv
<1> QED
  BY <1>2, <1>8, <1>9, <1>10, <1>11, <1>12, <1>13, <1>14, Zenon DEF IInv

\* The buffer overflows without spill: the lowest bundle is applied.
LEMMA StreamStep ==
  ASSUME IInv, StreamApplyMin
  PROVE  IInv'
<1> FixedInv /\ TypeOK /\ PhaseInv /\ BundleInv /\ HoldInv /\ DrainInv /\ OrderInv /\ ContentInv
  BY Zenon DEF IInv
<1> DEFINE b == First(buffer)
<1>1. /\ phase = "overflow" /\ ~spillOn /\ phase' = "reading" /\ buffer' = buffer \ {b}
      /\ ApplyBundle(b) /\ UNCHANGED fixedVars
      /\ UNCHANGED <<pos, toSpill, visible, spillFiles, temps, pid, faults>>
  BY Zenon DEF StreamApplyMin, diskVars
<1>2. /\ FixedInv' /\ (\A c : Genuine(c)' <=> Genuine(c)) /\ (\A m : Bundle(m)' = Bundle(m))
      /\ UNCHANGED <<log, keyOf, floor, spillOn>>
  BY <1>1, FixedStep, Zenon DEF fixedVars
<1>3. /\ IsFiniteSet(buffer) /\ buffer # {} /\ toSpill = {} /\ spillFiles = {}
      /\ applied >= floor /\ applied \in Range(log) \cup {floor} /\ visible = 0
  <2>1. IsFiniteSet(buffer) /\ Cardinality(buffer) >= MaxBuffer
    BY <1>1, Zenon DEF PhaseInv, ReadPhases, Overflow
  <2>2. buffer # {}
    BY <2>1, FS_EmptySet, ReplayAssumption
  <2> QED
    BY <1>1, <2>1, <2>2, Zenon DEF PhaseInv
<1> HIDE DEF b
<1>4. /\ b \in buffer /\ b \in Bundles /\ Genuine(b)
      /\ \A c \in buffer : c.lsn >= b.lsn
      /\ applied' = IF b.lsn > applied THEN b.lsn ELSE applied
      /\ advanced' = IF b.lsn > applied THEN advanced \cup {b.lsn} ELSE advanced
      /\ applied' \in 0 .. MaxLsn /\ advanced' \subseteq Lsns /\ rejected' = FALSE
      /\ chain' \in [Keys -> Seq(Lsns)] /\ page' \in [Keys -> 0 .. MaxLsn]
      /\ OrderInv'
  BY <1>1, <1>3, ApplyFirst, Zenon DEF b
<1>5. PICK files \in SUBSET spillFiles : HeldIn(files)
  BY <1>1, Zenon DEF HoldInv, ReadPhases
<1> DEFINE B == LsnsOf(buffer)  B1 == LsnsOf(buffer')
<1>6. /\ \A m \in Read : IF m <= applied THEN m \in advanced ELSE m \in B
      /\ B \subseteq Read
      /\ \A c \in buffer : c = Bundle(c.lsn) /\ c.lsn > applied
  <2>1. LsnsOf(UNION files) = {} /\ LsnsOf(toSpill) = {}
    BY <1>3, Zenon DEF LsnsOf
  <2>2. B \cup LsnsOf(toSpill) \cup LsnsOf(UNION files) = B
    BY <2>1, Zenon
  <2> QED
    BY <1>5, <2>2, Zenon DEF HeldIn
<1>7. /\ b.lsn \in Nat /\ b.lsn > applied /\ applied \in Nat /\ applied' = b.lsn
      /\ advanced' = advanced \cup {b.lsn} /\ b.lsn >= floor
  <2>1. b.lsn > applied
    BY <1>4, <1>6, Zenon
  <2> QED
    BY <1>3, <1>4, <2>1, ReplayAssumption DEF Bundles, Lsns, TypeOK, FixedInv
<1>8. \A c \in buffer : c.lsn \in Nat /\ (c.lsn = b.lsn => c = b)
  <2>1. \A c \in buffer : c.lsn \in Nat
    BY ReplayAssumption DEF Bundles, Lsns, TypeOK
  <2>2. \A c \in buffer : c.lsn = b.lsn => c = b
    <3> SUFFICES ASSUME NEW c \in buffer, c.lsn = b.lsn PROVE c = b
      BY Zenon
    <3>1. c = Bundle(c.lsn) /\ b = Bundle(b.lsn)
      BY <1>4, <1>6, Zenon
    <3> QED
      BY <3>1, Zenon
  <2> QED
    BY <2>1, <2>2, Zenon
<1>9. TypeOK'
  <2>1. rejected' \in BOOLEAN
    BY <1>4, Zenon
  <2> QED
    BY <1>1, <1>2, <1>4, <2>1, Zenon DEF TypeOK
<1>10. PhaseInv'
  <2>1. IsFiniteSet(buffer')
    BY <1>1, <1>3, FS_RemoveElement, Zenon
  <2>2. applied' \in Range(log') \cup {floor'} /\ applied' >= floor'
    BY <1>2, <1>4, <1>7, Zenon DEF Genuine
  <2> QED
    BY <1>1, <1>2, <1>3, <2>1, <2>2, Zenon DEF PhaseInv, ReadPhases, DrainPhases
<1>11. BundleInv'
  BY <1>1, <1>2, Zenon DEF BundleInv
<1>12. HoldInv'
  <2>1. \A m \in Read : IF m <= applied' THEN m \in advanced' ELSE m \in B1
    <3> SUFFICES ASSUME NEW m \in Read PROVE IF m <= applied' THEN m \in advanced' ELSE m \in B1
      BY Zenon
    <3>1. CASE m <= applied
      <4>1. m \in Nat
        BY ReplayAssumption DEF Read, TypeOK, FixedInv, Lsns
      <4> QED
        BY <1>6, <1>7, <3>1, <4>1
    <3>2. CASE ~(m <= applied)
      <4>1. PICK c \in buffer : c.lsn = m
        BY <1>6, <3>2, Zenon DEF LsnsOf
      <4>2. CASE c = b
        BY <1>7, <4>1, <4>2
      <4>3. CASE c # b
        <5>1. c \in buffer' /\ c.lsn \in Nat /\ c.lsn > b.lsn
          BY <1>1, <1>4, <1>7, <1>8, <4>3
        <5>2. m \in B1
          BY <4>1, <5>1, Zenon DEF LsnsOf
        <5> QED
          BY <1>7, <4>1, <5>1, <5>2
      <4> QED
        BY <4>2, <4>3, Zenon
    <3> QED
      BY <3>1, <3>2, Zenon
  <2>2. B1 \subseteq Read
    BY <1>1, <1>6, Zenon DEF LsnsOf
  <2>3. \A c \in buffer' : c = Bundle(c.lsn) /\ c.lsn > applied'
    BY <1>1, <1>4, <1>6, <1>7, <1>8
  <2>4. Read' = Read
    BY <1>1, <1>2, Zenon DEF Read
  <2>5. LsnsOf(UNION {}) = {} /\ LsnsOf(toSpill') = {}
    BY <1>1, <1>3, Zenon DEF LsnsOf
  <2>6. HeldIn({})'
    <3>1. B1 \cup LsnsOf(toSpill') \cup LsnsOf(UNION {}) = B1
          /\ B1 \cap LsnsOf(toSpill') = {} /\ (B1 \cup LsnsOf(toSpill')) \cap LsnsOf(UNION {}) = {}
      BY <2>5, Zenon
    <3>2. \A c \in buffer' \cup toSpill' : c = Bundle(c.lsn)' /\ c.lsn > applied'
      BY <1>1, <1>2, <1>3, <2>3, Zenon
    <3> QED
      BY <2>1, <2>2, <2>4, <3>1, <3>2, Zenon DEF HeldIn
  <2> QED
    BY <2>6, Zenon DEF HoldInv
<1>13. DrainInv'
  BY <1>1, Zenon DEF DrainInv, DrainPhases
<1>14. ContentInv'
  <2>1. Faithful => \A m \in Range(log) : m > applied => b.lsn <= m
    BY <1>1, NothingOvertaken, Zenon DEF Faithful, b
  <2>2. phase # "boot"
    BY <1>1, Zenon
  <2> QED
    BY <1>1, <1>3, <2>1, <2>2, ContentApply, Zenon DEF b
<1> QED
  BY <1>2, <1>4, <1>9, <1>10, <1>11, <1>12, <1>13, <1>14, Zenon DEF IInv

\* The name of a spill file: the least and the greatest LSN of its bundles.
LEMMA RangeType ==
  ASSUME NEW batch \in SUBSET Bundles, batch # {}
  PROVE  /\ LsnRange(batch) \in Lsns \X Lsns
         /\ LsnRange(batch)[1] \in LsnsOf(batch)
<1> DEFINE L == LsnsOf(batch)
<1>1. L \in SUBSET Lsns /\ L \in SUBSET Nat /\ L \in SUBSET (0 .. MaxLsn) /\ L # {} /\ MaxLsn \in Nat
  BY ReplayAssumption DEF LsnsOf, Bundles, Lsns
<1> HIDE DEF L
<1>2. Min(L) \in L /\ Max(L) \in L
  BY <1>1, MinIsLeast, MaxIsGreatest, Zenon
<1> QED
  BY <1>1, <1>2, Zenon DEF LsnRange, L

\* The buffer overflows with spill: its lowest bundles go to a temporary file.
LEMMA SpillCreateStep ==
  ASSUME IInv, SpillCreate
  PROVE  IInv'
<1> FixedInv /\ TypeOK /\ PhaseInv /\ BundleInv /\ HoldInv /\ DrainInv /\ OrderInv /\ ContentInv
  BY Zenon DEF IInv
<1> DEFINE batch == Lowest(buffer, Cardinality(buffer) - MaxBuffer \div 2)
<1>1. /\ phase = "overflow" /\ spillOn /\ toSpill' = batch /\ buffer' = buffer \ batch
      /\ phase' \in {"failed", "spilling"} /\ temps' \subseteq temps \cup {Temp(batch)}
      /\ UNCHANGED fixedVars
      /\ UNCHANGED <<pos, applied, chain, page, visible, advanced, rejected, spillFiles, pid, faults>>
  BY Zenon DEF SpillCreate
<1>2. /\ FixedInv' /\ (Faithful' <=> Faithful)
      /\ (\A k \in Keys : ExpectedVersions(k)' = ExpectedVersions(k))
      /\ (\A b : Genuine(b)' <=> Genuine(b)) /\ (\A m : Bundle(m)' = Bundle(m))
      /\ UNCHANGED <<log, keyOf, floor, spillOn>>
  BY <1>1, FixedStep, Zenon DEF fixedVars
<1>3. IsFiniteSet(buffer) /\ Overflow(buffer) /\ toSpill = {} /\ visible = 0
  BY <1>1, Zenon DEF PhaseInv, ReadPhases
<1>4. batch # {} /\ batch \subseteq buffer
  BY <1>3, LowestIsNonempty, Zenon DEF TypeOK
<1> HIDE DEF batch
<1>5. TypeOK'
  <2>1. batch \in SUBSET Bundles /\ buffer' \subseteq Bundles
    BY <1>1, <1>4, Zenon DEF TypeOK
  <2>2. LsnRange(batch) \in Lsns \X Lsns
    BY <1>4, <2>1, RangeType, Zenon
  <2>3. Temp(batch) \in Nat \X (Lsns \X Lsns)
    BY <2>2, Zenon DEF Temp, TypeOK
  <2>4. temps' \subseteq Nat \X (Lsns \X Lsns)
    BY <1>1, <2>3, Zenon DEF TypeOK
  <2> QED
    BY <1>1, <1>2, <2>1, <2>4, Zenon DEF TypeOK
<1>6. PhaseInv'
  <2>1. IsFiniteSet(buffer')
    BY <1>1, <1>3, FS_Subset, Zenon
  <2> QED
    BY <1>1, <1>2, <1>3, <1>4, <2>1, Zenon DEF PhaseInv, ReadPhases, DrainPhases
<1>7. BundleInv'
  <2>1. buffer' \cup toSpill' \subseteq buffer
    BY <1>1, <1>4, Zenon
  <2> QED
    BY <1>1, <1>2, <2>1, Zenon DEF BundleInv
<1>8. HoldInv'
  <2>1. PICK files \in SUBSET spillFiles : HeldIn(files)
    BY <1>1, Zenon DEF HoldInv, ReadPhases
  <2> DEFINE B == LsnsOf(buffer)  H == LsnsOf(UNION files)
             B1 == LsnsOf(buffer')  P1 == LsnsOf(toSpill')
  <2>2. /\ \A f \in files : f # {}
        /\ \A m \in Read : IF m <= applied THEN m \in advanced ELSE m \in B \cup H
        /\ B \cup H \subseteq Read /\ B \cap H = {}
        /\ \A b \in buffer : b = Bundle(b.lsn) /\ b.lsn > applied
    <3>1. LsnsOf(toSpill) = {}
      BY <1>3, Zenon DEF LsnsOf
    <3>2. B \cup LsnsOf(toSpill) \cup H = B \cup H /\ B \cup LsnsOf(toSpill) = B
      BY <3>1, Zenon
    <3> QED
      BY <2>1, <3>2, Zenon DEF HeldIn
  <2>3. B1 \cup P1 = B
    BY <1>1, <1>4, Zenon DEF LsnsOf
  <2>4. B1 \cap P1 = {}
    <3> SUFFICES ASSUME NEW x \in B1, x \in P1 PROVE FALSE
      BY Zenon
    <3>1. PICK c \in buffer' : c.lsn = x
      BY Zenon DEF LsnsOf
    <3>2. PICK d \in toSpill' : d.lsn = x
      BY Zenon DEF LsnsOf
    <3>3. c = Bundle(x) /\ d = Bundle(x)
      BY <1>1, <1>4, <2>2, <3>1, <3>2, Zenon
    <3> QED
      BY <1>1, <3>1, <3>2, <3>3, Zenon
  <2>5. \A b \in buffer' \cup toSpill' : b = Bundle(b.lsn)' /\ b.lsn > applied'
    BY <1>1, <1>2, <1>4, <2>2, Zenon
  <2>6. Read' = Read
    BY <1>1, <1>2, Zenon DEF Read
  <2> HIDE DEF B, H, B1, P1
  <2>7. /\ \A m \in Read' : IF m <= applied' THEN m \in advanced' ELSE m \in B1 \cup P1 \cup H
        /\ B1 \cup P1 \cup H \subseteq Read' /\ (B1 \cup P1) \cap H = {}
    BY <1>1, <2>2, <2>3, <2>6, Zenon
  <2>8. HeldIn(files)'
    BY <2>2, <2>4, <2>5, <2>7, Zenon DEF HeldIn, B1, P1, H
  <2> QED
    BY <1>1, <2>8, Zenon DEF HoldInv
<1>9. DrainInv'
  BY <1>1, Zenon DEF DrainInv, DrainPhases
<1>10. OrderInv'
  BY <1>1, Zenon DEF OrderInv, Ascending
<1>11. ContentInv'
  BY <1>1, <1>2, Zenon DEF ContentInv
<1> QED
  BY <1>2, <1>5, <1>6, <1>7, <1>8, <1>9, <1>10, <1>11, Zenon DEF IInv

\* The temporary file gets its name, in place of one with the same range.
LEMMA SpillRenameStep ==
  ASSUME IInv, SpillRename
  PROVE  IInv'
<1> FixedInv /\ TypeOK /\ PhaseInv /\ BundleInv /\ HoldInv /\ DrainInv /\ OrderInv /\ ContentInv
  BY Zenon DEF IInv
<1> DEFINE new == {Reencoded(b) : b \in toSpill}
           kept == {f \in spillFiles : LsnRange(f) # LsnRange(toSpill)}
<1>1. /\ phase = "spilling" /\ phase' = "reading" /\ toSpill' = {} /\ temps' \subseteq temps
      /\ spillFiles' = kept \cup {new}
      /\ UNCHANGED fixedVars
      /\ UNCHANGED <<pos, buffer, applied, chain, page, visible, advanced, rejected, pid, faults>>
  BY Zenon DEF SpillRename
<1>2. /\ FixedInv' /\ (Faithful' <=> Faithful)
      /\ (\A k \in Keys : ExpectedVersions(k)' = ExpectedVersions(k))
      /\ (\A b : Genuine(b)' <=> Genuine(b)) /\ (\A m : Bundle(m)' = Bundle(m))
      /\ UNCHANGED <<log, keyOf, floor, spillOn>>
  BY <1>1, FixedStep, Zenon DEF fixedVars
<1>3. IsFiniteSet(buffer) /\ toSpill # {} /\ spillOn /\ visible = 0
  BY <1>1, Zenon DEF PhaseInv, ReadPhases
<1>4. ASSUME NEW b \in toSpill
      PROVE  Reencoded(b) \in Bundles /\ Reencoded(b).lsn = b.lsn /\ Genuine(Reencoded(b))
  <2>1. b \in Bundles /\ Genuine(b)
    BY Zenon DEF TypeOK, BundleInv
  <2>2. Reencoded(b) \in Bundles
    <3>1. /\ b.lsn \in Lsns /\ b.page \in Keys
          /\ (IF Format = "delta" THEN NoKey ELSE b.row) \in Keys \cup {NoKey}
      BY <2>1, Zenon DEF Bundles
    <3> QED
      BY <3>1, Zenon DEF Bundles, Reencoded
  <2>3. /\ Reencoded(b).lsn = b.lsn /\ Reencoded(b).page = b.page
        /\ Reencoded(b).row = IF Format = "delta" THEN NoKey ELSE b.row
    BY <2>1, Zenon DEF Reencoded, Bundles
  <2> QED
    BY <1>3, <2>1, <2>2, <2>3, Zenon DEF Genuine
<1>5. new \in SUBSET Bundles /\ new # {} /\ LsnsOf(new) = LsnsOf(toSpill)
      /\ \A c \in new : Genuine(c)
  <2>1. new \in SUBSET Bundles /\ \A c \in new : Genuine(c)
    BY <1>4, Zenon
  <2>2. new # {}
    BY <1>3, Zenon
  <2>3. LsnsOf(new) \subseteq LsnsOf(toSpill)
    BY <1>4, Zenon DEF LsnsOf
  <2>4. LsnsOf(toSpill) \subseteq LsnsOf(new)
    <3> SUFFICES ASSUME NEW x \in LsnsOf(toSpill) PROVE x \in LsnsOf(new)
      BY Zenon
    <3>1. PICK b \in toSpill : b.lsn = x
      BY Zenon DEF LsnsOf
    <3>2. Reencoded(b) \in new /\ Reencoded(b).lsn = x
      BY <1>4, <3>1, Zenon
    <3> QED
      BY <3>2, Zenon DEF LsnsOf
  <2> QED
    BY <2>1, <2>2, <2>3, <2>4, Zenon
<1> HIDE DEF new
<1>6. TypeOK'
  <2>1. spillFiles' \subseteq SUBSET Bundles
    <3>1. kept \subseteq spillFiles
      BY Zenon
    <3> HIDE DEF kept
    <3> QED
      BY <1>1, <1>5, <3>1, Zenon DEF TypeOK
  <2>2. temps' \subseteq Nat \X (Lsns \X Lsns)
    BY <1>1, Zenon DEF TypeOK
  <2>3. toSpill' \subseteq Bundles /\ buffer' \subseteq Bundles /\ rejected' \in BOOLEAN
    BY <1>1, Zenon DEF TypeOK
  <2> HIDE DEF kept
  <2>4. phase' = "reading" /\ UNCHANGED <<log, pos, applied, visible, chain, page, advanced, pid, faults>>
    BY <1>1, <1>2, Zenon
  <2> QED
    BY <2>1, <2>2, <2>3, <2>4, Zenon DEF TypeOK
<1>7. PhaseInv'
  BY <1>1, <1>2, <1>3, Zenon DEF PhaseInv, ReadPhases, DrainPhases
<1>8. BundleInv'
  BY <1>1, <1>2, <1>5, Zenon DEF BundleInv
<1>9. HoldInv'
  <2>1. PICK files \in SUBSET spillFiles : HeldIn(files)
    BY <1>1, Zenon DEF HoldInv, ReadPhases
  <2>0. PICK now : now = files \cup {new}
    BY Zenon
  <2> DEFINE B == LsnsOf(buffer)  P == LsnsOf(toSpill)  H == LsnsOf(UNION files)
  <2>2. /\ \A f \in files : f # {}
        /\ \A m \in Read : IF m <= applied THEN m \in advanced ELSE m \in B \cup P \cup H
        /\ B \cup P \cup H \subseteq Read /\ B \cap P = {} /\ (B \cup P) \cap H = {}
        /\ \A b \in buffer \cup toSpill : b = Bundle(b.lsn) /\ b.lsn > applied
    BY <2>1, Zenon DEF HeldIn
  <2>3. ASSUME NEW f \in files PROVE f \in kept
    <3>1. f \in SUBSET Bundles /\ f # {} /\ f \in spillFiles
      BY <2>1, <2>2, Zenon DEF TypeOK
    <3>2. LsnRange(f)[1] \in LsnsOf(f)
      BY <3>1, RangeType, Zenon
    <3>3. LsnsOf(f) \subseteq H
      BY Zenon DEF LsnsOf
    <3>4. LsnRange(toSpill)[1] \in P
      BY <1>3, RangeType, Zenon DEF TypeOK
    <3>5. LsnRange(f) # LsnRange(toSpill)
      <4>1. SUFFICES ASSUME LsnRange(f) = LsnRange(toSpill) PROVE FALSE
        BY Zenon
      <4>2. LsnRange(toSpill)[1] \in H
        BY <3>2, <3>3, <4>1, Zenon
      <4> HIDE DEF P, H
      <4> QED
        BY <2>2, <3>4, <4>2, Zenon
    <3> QED
      BY <3>1, <3>5, Zenon
  <2>4. now \in SUBSET spillFiles'
    BY <1>1, <2>0, <2>3, Zenon
  <2>5. LsnsOf(UNION now) = P \cup H
    <3>1. LsnsOf(UNION now) = LsnsOf(new) \cup H
      BY <2>0, Zenon DEF LsnsOf
    <3> QED
      BY <1>5, <3>1, Zenon
  <2>6. LsnsOf(buffer') = B /\ LsnsOf(toSpill') = {}
    BY <1>1, Zenon DEF LsnsOf
  <2>7. Read' = Read
    BY <1>1, <1>2, Zenon DEF Read
  <2>8. \A f \in now : f # {}
    BY <1>5, <2>0, <2>2, Zenon
  <2> HIDE DEF B, P, H
  <2>9. /\ \A m \in Read' : IF m <= applied' THEN m \in advanced'
                            ELSE m \in LsnsOf(buffer') \cup LsnsOf(toSpill') \cup LsnsOf(UNION now)
        /\ LsnsOf(buffer') \cup LsnsOf(toSpill') \cup LsnsOf(UNION now) \subseteq Read'
        /\ LsnsOf(buffer') \cap LsnsOf(toSpill') = {}
        /\ (LsnsOf(buffer') \cup LsnsOf(toSpill')) \cap LsnsOf(UNION now) = {}
    <3>1. B \cup {} \cup (P \cup H) = B \cup P \cup H /\ B \cap {} = {}
          /\ (B \cup {}) \cap (P \cup H) = {}
      BY <2>2, Zenon
    <3> QED
      BY <1>1, <2>2, <2>5, <2>6, <2>7, <3>1, Zenon
  <2>10. \A b \in buffer' \cup toSpill' : b = Bundle(b.lsn)' /\ b.lsn > applied'
    BY <1>1, <1>2, <2>2, Zenon
  <2>11. HeldIn(now)'
    BY <2>8, <2>9, <2>10, Zenon DEF HeldIn
  <2> QED
    BY <2>4, <2>11, Zenon DEF HoldInv
<1>10. DrainInv'
  BY <1>1, Zenon DEF DrainInv, DrainPhases
<1>11. OrderInv'
  BY <1>1, Zenon DEF OrderInv, Ascending
<1>12. ContentInv'
  BY <1>1, <1>2, Zenon DEF ContentInv
<1> QED
  BY <1>2, <1>6, <1>7, <1>8, <1>9, <1>10, <1>11, <1>12, Zenon DEF IInv

\* The spill fails and with it the replay.
LEMMA SpillErrorStep ==
  ASSUME IInv, SpillError
  PROVE  IInv'
<1> FixedInv /\ TypeOK /\ PhaseInv /\ BundleInv /\ HoldInv /\ DrainInv /\ OrderInv /\ ContentInv
  BY Zenon DEF IInv
<1>1. /\ phase = "spilling" /\ phase' = "failed" /\ faults < MaxFaults /\ faults' = faults + 1
      /\ UNCHANGED fixedVars
      /\ UNCHANGED <<pos, buffer, toSpill, applied, chain, page, visible, advanced, rejected,
                     spillFiles, temps, pid>>
  BY Zenon DEF SpillError, memVars, diskVars
<1>2. /\ FixedInv' /\ (Faithful' <=> Faithful)
      /\ (\A k \in Keys : ExpectedVersions(k)' = ExpectedVersions(k))
      /\ (\A b : Genuine(b)' <=> Genuine(b))
      /\ UNCHANGED <<log, keyOf, floor, spillOn>>
  BY <1>1, FixedStep, Zenon DEF fixedVars
<1>3. TypeOK'
  <2>1. faults' \in 0 .. MaxFaults
    BY <1>1, ReplayAssumption DEF TypeOK
  <2>2. rejected' \in BOOLEAN
    BY <1>1, Zenon DEF TypeOK
  <2> QED
    BY <1>1, <1>2, <2>1, <2>2, Zenon DEF TypeOK
<1>4. PhaseInv'
  BY <1>1, <1>2, Zenon DEF PhaseInv, ReadPhases, DrainPhases
<1>5. BundleInv'
  BY <1>1, <1>2, Zenon DEF BundleInv
<1>6. HoldInv' /\ DrainInv'
  BY <1>1, Zenon DEF HoldInv, DrainInv, ReadPhases, DrainPhases
<1>7. OrderInv'
  BY <1>1, Zenon DEF OrderInv, Ascending
<1>8. ContentInv'
  BY <1>1, <1>2, Zenon DEF ContentInv
<1> QED
  BY <1>2, <1>3, <1>4, <1>5, <1>6, <1>7, <1>8, Zenon DEF IInv

\* The log is read: the spilled bundles join the buffer.
LEMMA MergeStep ==
  ASSUME IInv, Merge
  PROVE  IInv'
<1> FixedInv /\ TypeOK /\ PhaseInv /\ BundleInv /\ HoldInv /\ DrainInv /\ OrderInv /\ ContentInv
  BY Zenon DEF IInv
<1> DEFINE loaded == {b \in UNION spillFiles : ~SkipApplied(b.lsn)}
<1>1. /\ phase = "reading" /\ pos > Len(log) /\ phase' = "draining"
      /\ buffer' = buffer \cup loaded
      /\ UNCHANGED fixedVars
      /\ UNCHANGED <<pos, toSpill, applied, chain, page, visible, advanced, rejected,
                     spillFiles, temps, pid, faults>>
  BY Zenon DEF Merge, diskVars
<1>2. /\ FixedInv' /\ (Faithful' <=> Faithful)
      /\ (\A k \in Keys : ExpectedVersions(k)' = ExpectedVersions(k))
      /\ (\A b : Genuine(b)' <=> Genuine(b))
      /\ UNCHANGED <<log, keyOf, floor, spillOn>>
  BY <1>1, FixedStep, Zenon DEF fixedVars
<1>3. toSpill = {} /\ visible = 0 /\ pos = Len(log) + 1
  BY <1>1 DEF PhaseInv, TypeOK, FixedInv
<1>4. loaded \in SUBSET Bundles /\ \A b \in loaded : Genuine(b)
  BY Zenon DEF TypeOK, BundleInv
<1>5. TypeOK'
  <2>1. rejected' \in BOOLEAN
    BY <1>1, Zenon DEF TypeOK
  <2> HIDE DEF loaded
  <2>2. buffer' \subseteq Bundles
    BY <1>1, <1>4, Zenon DEF TypeOK
  <2> QED
    BY <1>1, <1>2, <2>1, <2>2, Zenon DEF TypeOK
<1>6. PhaseInv'
  BY <1>1, <1>2, <1>3, Zenon DEF PhaseInv, ReadPhases, DrainPhases
<1>7. BundleInv'
  <2> HIDE DEF loaded
  <2> QED
    BY <1>1, <1>2, <1>4, Zenon DEF BundleInv
<1>8. HoldInv'
  BY <1>1, Zenon DEF HoldInv, ReadPhases
<1>9. DrainInv'
  <2>1. PICK files \in SUBSET spillFiles : HeldIn(files)
    BY <1>1, Zenon DEF HoldInv, ReadPhases
  <2>2. Read = Range(log)
    BY <1>3 DEF Read, Range, FixedInv
  <2>3. \A m \in Read : IF m <= applied THEN m \in advanced
                        ELSE m \in LsnsOf(buffer) \cup LsnsOf(toSpill) \cup LsnsOf(UNION files)
    BY <2>1, Zenon DEF HeldIn
  <2>4. ASSUME NEW m \in Range(log), ~(m <= applied) PROVE m \in LsnsOf(buffer')
    <3>1. m \in LsnsOf(buffer) \cup LsnsOf(UNION files)
      BY <1>3, <2>2, <2>3, <2>4, Zenon DEF LsnsOf
    <3>2. ASSUME m \in LsnsOf(buffer) PROVE m \in LsnsOf(buffer')
      BY <1>1, <3>2, Zenon DEF LsnsOf
    <3>3. ASSUME m \in LsnsOf(UNION files) PROVE m \in LsnsOf(buffer')
      <4>1. PICK b \in UNION files : b.lsn = m
        BY <3>3, Zenon DEF LsnsOf
      <4>2. b \in loaded
        BY <2>1, <2>4, <4>1, Zenon DEF SkipApplied
      <4> QED
        BY <1>1, <4>1, <4>2, Zenon DEF LsnsOf
    <3> QED
      BY <3>1, <3>2, <3>3, Zenon
  <2>5. \A m \in Range(log)' : IF m <= applied' THEN m \in advanced' ELSE m \in LsnsOf(buffer)'
    BY <1>1, <1>2, <2>2, <2>3, <2>4, Zenon
  <2> QED
    BY <2>5, Zenon DEF DrainInv
<1>10. OrderInv'
  BY <1>1, Zenon DEF OrderInv, Ascending
<1>11. ContentInv'
  BY <1>1, <1>2, Zenon DEF ContentInv
<1> QED
  BY <1>2, <1>5, <1>6, <1>7, <1>8, <1>9, <1>10, <1>11, Zenon DEF IInv

\* final_drain applies what is left in commit order: the first bundle above the
\* high water is the next of the log.
LEMMA DrainStep ==
  ASSUME IInv, DrainApply
  PROVE  IInv'
<1> FixedInv /\ TypeOK /\ PhaseInv /\ BundleInv /\ HoldInv /\ DrainInv /\ OrderInv /\ ContentInv
  BY Zenon DEF IInv
<1> DEFINE b == First(buffer)
<1>1. /\ phase = "draining" /\ buffer # {} /\ phase' = phase /\ buffer' = buffer \ {b}
      /\ ApplyBundle(b) /\ UNCHANGED fixedVars
      /\ UNCHANGED <<pos, toSpill, visible, spillFiles, temps, pid, faults>>
  BY Zenon DEF DrainApply, diskVars
<1>2. /\ FixedInv' /\ (\A c : Genuine(c)' <=> Genuine(c)) /\ Range(log)' = Range(log)
      /\ UNCHANGED <<log, keyOf, floor, spillOn>>
  BY <1>1, FixedStep, Zenon DEF fixedVars
<1>3. /\ toSpill = {} /\ visible = 0 /\ pos = Len(log) + 1
      /\ applied >= floor /\ applied \in Range(log) \cup {floor}
  BY <1>1, Zenon DEF PhaseInv, DrainPhases
<1> HIDE DEF b
<1>4. /\ b \in buffer /\ b \in Bundles /\ Genuine(b)
      /\ \A c \in buffer : c.lsn >= b.lsn
      /\ applied' = IF b.lsn > applied THEN b.lsn ELSE applied
      /\ advanced' = IF b.lsn > applied THEN advanced \cup {b.lsn} ELSE advanced
      /\ applied' \in 0 .. MaxLsn /\ advanced' \subseteq Lsns /\ rejected' = FALSE
      /\ chain' \in [Keys -> Seq(Lsns)] /\ page' \in [Keys -> 0 .. MaxLsn]
      /\ OrderInv'
  BY <1>1, ApplyFirst, Zenon DEF b
<1>5. /\ b.lsn \in Nat /\ applied \in Nat /\ floor \in Nat /\ Range(log) \subseteq Nat
      /\ b.lsn \in Range(log) /\ \A c \in buffer : c.lsn \in Nat
  <2>1. Range(log) \subseteq Nat
    BY ReplayAssumption DEF Range, FixedInv, Lsns
  <2>2. b.lsn \in Range(log)
    BY <1>4, Zenon DEF Genuine
  <2>3. \A c \in buffer : c.lsn \in Nat
    BY ReplayAssumption DEF Bundles, Lsns, TypeOK
  <2>4. applied \in Nat
    BY ReplayAssumption DEF TypeOK
  <2>5. floor \in Nat
    BY ReplayAssumption DEF FixedInv
  <2> QED
    BY <2>1, <2>2, <2>3, <2>4, <2>5, Zenon
<1>6. \A m \in Range(log) : IF m <= applied THEN m \in advanced ELSE m \in LsnsOf(buffer)
  BY <1>1, Zenon DEF DrainInv, DrainPhases
<1>7. TypeOK'
  <2>1. rejected' \in BOOLEAN
    BY <1>4, Zenon
  <2> QED
    BY <1>1, <1>2, <1>4, <2>1, Zenon DEF TypeOK
<1>8. PhaseInv'
  <2>1. applied' \in Range(log') \cup {floor'} /\ applied' >= floor'
    BY <1>2, <1>3, <1>4, <1>5
  <2> QED
    BY <1>1, <1>2, <1>3, <2>1, Zenon DEF PhaseInv, ReadPhases, DrainPhases
<1>9. BundleInv'
  BY <1>1, <1>2, Zenon DEF BundleInv
<1>10. HoldInv'
  BY <1>1, Zenon DEF HoldInv, ReadPhases
<1>11. DrainInv'
  <2> SUFFICES ASSUME NEW m \in Range(log)
               PROVE  IF m <= applied' THEN m \in advanced' ELSE m \in LsnsOf(buffer')
    BY <1>2, Zenon DEF DrainInv
  <2>1. CASE m <= applied
    <3>1. m \in advanced /\ m <= applied'
      BY <1>4, <1>5, <1>6, <2>1
    <3> QED
      BY <1>4, <3>1, Zenon
  <2>2. CASE ~(m <= applied)
    <3>1. PICK c \in buffer : c.lsn = m
      BY <1>6, <2>2, Zenon DEF LsnsOf
    <3>2. b.lsn <= m
      BY <1>4, <1>5, <3>1, Zenon
    <3>3. CASE m = b.lsn
      BY <1>4, <1>5, <2>2, <3>3
    <3>4. CASE m # b.lsn
      <4>1. c \in buffer' /\ ~(m <= applied')
        BY <1>1, <1>4, <1>5, <2>2, <3>1, <3>2, <3>4
      <4> QED
        BY <3>1, <4>1, Zenon DEF LsnsOf
    <3> QED
      BY <3>3, <3>4, Zenon
  <2> QED
    BY <2>1, <2>2, Zenon
<1>12. ContentInv'
  <2>1. ASSUME NEW m \in Range(log), m > applied PROVE b.lsn <= m
    <3>1. PICK c \in buffer : c.lsn = m
      BY <1>5, <1>6, <2>1 DEF LsnsOf
    <3> QED
      BY <1>4, <1>5, <3>1, Zenon
  <2>2. phase # "boot"
    BY <1>1, Zenon
  <2> QED
    BY <1>1, <1>3, <2>1, <2>2, ContentApply, Zenon DEF b
<1> QED
  BY <1>2, <1>4, <1>7, <1>8, <1>9, <1>10, <1>11, <1>12, Zenon DEF IInv

\* The buffer is drained: visible moves to the last applied LSN.
LEMMA SeedStep ==
  ASSUME IInv, Seed
  PROVE  IInv'
<1> FixedInv /\ TypeOK /\ PhaseInv /\ BundleInv /\ HoldInv /\ DrainInv /\ OrderInv /\ ContentInv
  BY Zenon DEF IInv
<1>1. /\ phase = "draining" /\ buffer = {} /\ phase' = "seeded"
      /\ visible' = Max({visible, applied}) /\ UNCHANGED fixedVars
      /\ UNCHANGED <<pos, buffer, toSpill, applied, chain, page, advanced, rejected,
                     spillFiles, temps, pid, faults>>
  BY Zenon DEF Seed, diskVars
<1>2. /\ FixedInv' /\ (Faithful' <=> Faithful)
      /\ (\A k \in Keys : ExpectedVersions(k)' = ExpectedVersions(k))
      /\ (\A b : Genuine(b)' <=> Genuine(b)) /\ Range(log)' = Range(log)
      /\ UNCHANGED <<log, keyOf, floor, spillOn>>
  BY <1>1, FixedStep, Zenon DEF fixedVars
<1>3. visible' = applied
  <2>1. visible = 0 /\ applied \in 0 .. MaxLsn /\ MaxLsn \in Nat
    BY <1>1, ReplayAssumption, Zenon DEF PhaseInv, TypeOK
  <2> DEFINE S == {visible, applied}
  <2>2. S \in SUBSET (0 .. MaxLsn) /\ S # {} /\ applied \in S /\ \A y \in S : y \in {0, applied}
    BY <2>1
  <2> HIDE DEF S
  <2>3. Max(S) \in S /\ \A y \in S : y <= Max(S)
    BY <2>1, <2>2, MaxIsGreatest, Zenon
  <2>4. Max(S) \in {0, applied} /\ applied <= Max(S)
    BY <2>2, <2>3, Zenon
  <2>5. Max(S) = applied
    BY <2>1, <2>4
  <2> QED
    BY <1>1, <2>5, Zenon DEF S
<1>4. TypeOK'
  <2>1. rejected' \in BOOLEAN
    BY <1>1, Zenon DEF TypeOK
  <2> QED
    BY <1>1, <1>2, <1>3, <2>1, Zenon DEF TypeOK
<1>5. PhaseInv'
  BY <1>1, <1>2, <1>3, Zenon DEF PhaseInv, ReadPhases, DrainPhases
<1>6. BundleInv'
  BY <1>1, <1>2, Zenon DEF BundleInv
<1>7. HoldInv' /\ DrainInv'
  BY <1>1, <1>2, Zenon DEF HoldInv, DrainInv, ReadPhases, DrainPhases
<1>8. OrderInv'
  BY <1>1, Zenon DEF OrderInv, Ascending
<1>9. ContentInv'
  BY <1>1, <1>2, Zenon DEF ContentInv
<1> QED
  BY <1>2, <1>4, <1>5, <1>6, <1>7, <1>8, <1>9, Zenon DEF IInv

\* The spill files are discarded once the counters are seeded.
LEMMA DiscardStep ==
  ASSUME IInv, Discard
  PROVE  IInv'
<1> FixedInv /\ TypeOK /\ PhaseInv /\ BundleInv /\ HoldInv /\ DrainInv /\ OrderInv /\ ContentInv
  BY Zenon DEF IInv
<1>1. /\ phase = "seeded" /\ phase' = "done" /\ UNCHANGED fixedVars
      /\ UNCHANGED <<pos, buffer, toSpill, applied, chain, page, visible, advanced, rejected,
                     pid, faults>>
  BY Zenon DEF Discard, memVars
<1>2. /\ spillFiles' \in {{}, spillFiles} /\ temps' \in {{}, temps}
  BY Zenon DEF Discard
<1>3. /\ FixedInv' /\ (Faithful' <=> Faithful)
      /\ (\A k \in Keys : ExpectedVersions(k)' = ExpectedVersions(k))
      /\ (\A b : Genuine(b)' <=> Genuine(b)) /\ Range(log)' = Range(log)
      /\ UNCHANGED <<log, keyOf, floor, spillOn>>
  BY <1>1, FixedStep, Zenon DEF fixedVars
<1>4. TypeOK'
  <2>1. rejected' \in BOOLEAN
    BY <1>1, Zenon DEF TypeOK
  <2>2. spillFiles' \subseteq SUBSET Bundles /\ temps' \subseteq Nat \X (Lsns \X Lsns)
    BY <1>2, Zenon DEF TypeOK
  <2> QED
    BY <1>1, <1>3, <2>1, <2>2, Zenon DEF TypeOK
<1>5. PhaseInv'
  BY <1>1, <1>2, <1>3, Zenon DEF PhaseInv, ReadPhases, DrainPhases
<1>6. BundleInv'
  BY <1>1, <1>2, <1>3, Zenon DEF BundleInv
<1>7. HoldInv' /\ DrainInv'
  BY <1>1, <1>3, Zenon DEF HoldInv, DrainInv, ReadPhases, DrainPhases
<1>8. OrderInv'
  BY <1>1, Zenon DEF OrderInv, Ascending
<1>9. ContentInv'
  BY <1>1, <1>3, Zenon DEF ContentInv
<1> QED
  BY <1>3, <1>4, <1>5, <1>6, <1>7, <1>8, <1>9, Zenon DEF IInv

\* Nothing changes.
LEMMA StutterStep ==
  ASSUME IInv, UNCHANGED vars
  PROVE  IInv'
<1> FixedInv /\ TypeOK /\ PhaseInv /\ BundleInv /\ HoldInv /\ DrainInv /\ OrderInv /\ ContentInv
  BY Zenon DEF IInv
<1>1. /\ UNCHANGED fixedVars
      /\ UNCHANGED <<phase, pos, buffer, toSpill, applied, chain, page, visible, advanced, rejected,
                     spillFiles, temps, pid, faults>>
  BY Zenon DEF vars, memVars, diskVars
<1>2. /\ FixedInv' /\ (Faithful' <=> Faithful)
      /\ (\A k \in Keys : ExpectedVersions(k)' = ExpectedVersions(k))
      /\ (\A b : Genuine(b)' <=> Genuine(b)) /\ Range(log)' = Range(log)
      /\ (\A m : Bundle(m)' = Bundle(m))
      /\ UNCHANGED <<log, keyOf, floor, spillOn>>
  BY <1>1, FixedStep, Zenon DEF fixedVars
<1>3. TypeOK'
  <2>1. rejected' \in BOOLEAN
    BY <1>1, Zenon DEF TypeOK
  <2> QED
    BY <1>1, <1>2, <2>1, Zenon DEF TypeOK
<1>4. PhaseInv'
  BY <1>1, <1>2, Zenon DEF PhaseInv, Overflow
<1>5. BundleInv'
  BY <1>1, <1>2, Zenon DEF BundleInv
<1>6. HoldInv'
  <2>1. Read' = Read
    BY <1>1, <1>2, Zenon DEF Read
  <2>2. \A files : HeldIn(files)' <=> HeldIn(files)
    BY <1>1, <1>2, <2>1, Zenon DEF HeldIn
  <2> QED
    BY <1>1, <2>2, Zenon DEF HoldInv
<1>7. DrainInv'
  BY <1>1, <1>2, Zenon DEF DrainInv
<1>8. OrderInv'
  BY <1>1, Zenon DEF OrderInv, Ascending
<1>9. ContentInv'
  BY <1>1, <1>2, Zenon DEF ContentInv
<1> QED
  BY <1>2, <1>3, <1>4, <1>5, <1>6, <1>7, <1>8, <1>9, Zenon DEF IInv

\* Every step preserves the invariant.
LEMMA InvStep == IInv /\ [Next]_vars => IInv'
<1> SUFFICES ASSUME IInv, [Next]_vars PROVE IInv'
  BY Zenon
<1>1. CASE Start
  BY <1>1, StartStep, Zenon
<1>2. CASE ReadBundle
  BY <1>2, ReadStep, Zenon
<1>3. CASE StreamApplyMin
  BY <1>3, StreamStep, Zenon
<1>4. CASE SpillCreate
  BY <1>4, SpillCreateStep, Zenon
<1>5. CASE SpillRename
  BY <1>5, SpillRenameStep, Zenon
<1>6. CASE SpillError
  BY <1>6, SpillErrorStep, Zenon
<1>7. CASE Merge
  BY <1>7, MergeStep, Zenon
<1>8. CASE DrainApply
  BY <1>8, DrainStep, Zenon
<1>9. CASE Seed
  BY <1>9, SeedStep, Zenon
<1>10. CASE Discard
  BY <1>10, DiscardStep, Zenon
<1>11. CASE Crash
  <2>1. faults' \in 0 .. MaxFaults
    <3>1. faults \in 0 .. MaxFaults
      BY Zenon DEF IInv, TypeOK
    <3>2. faults < MaxFaults /\ faults' = faults + 1
      BY <1>11, Zenon DEF Crash
    <3> QED
      BY <3>1, <3>2, ReplayAssumption
  <2> QED
    BY <1>11, <2>1, RestartStep, Zenon DEF Crash
<1>12. CASE ExitAndRestart
  <2>1. faults' \in 0 .. MaxFaults
    BY <1>12, Zenon DEF ExitAndRestart, IInv, TypeOK
  <2> QED
    BY <1>12, <2>1, RestartStep, Zenon DEF ExitAndRestart
<1>13. CASE UNCHANGED vars
  BY <1>13, StutterStep, Zenon
<1> QED
  BY <1>1, <1>2, <1>3, <1>4, <1>5, <1>6, <1>7, <1>8, <1>9, <1>10, <1>11, <1>12, <1>13, Zenon
     DEF Next, Step

-----------------------------------------------------------------------------
\* The last version of an ascending chain is its greatest.
LEMMA LastIsGreatest ==
  ASSUME NEW c \in Seq(Lsns), Ascending(c), c # <<>>
  PROVE  Newest(c) \in Range(c) /\ \A l \in Range(c) : l <= Newest(c)
<1>1. Len(c) \in Nat \ {0} /\ \A i \in 1 .. Len(c) : c[i] \in Nat
  BY ReplayAssumption DEF Lsns
<1>2. Newest(c) = c[Len(c)] /\ Range(c) = {c[i] : i \in 1 .. Len(c)}
  BY DEF Newest, Range
<1>3. \A i \in 1 .. Len(c) : c[i] <= c[Len(c)]
  BY <1>1 DEF Ascending
<1> QED
  BY <1>1, <1>2, <1>3

\* A finished replay whose encoders drop nothing holds what the log holds.
LEMMA FinishedIsFaithful ==
  ASSUME IInv, Format = "image" \/ TRUE \notin SpillModes
  PROVE  ReplayedInOrder
<1> FixedInv /\ TypeOK /\ PhaseInv /\ DrainInv /\ OrderInv /\ ContentInv
  BY Zenon DEF IInv
<1> SUFFICES ASSUME phase = "done", spillOn \/ Slack < MaxBuffer
             PROVE  /\ \A k \in Keys : /\ Ascending(chain[k])
                                       /\ Range(chain[k]) = ExpectedVersions(k)
                                       /\ page[k] = ExpectedPage(k)
                    /\ visible = Max(Range(log) \cup {floor})
  BY Zenon DEF ReplayedInOrder
<1>1. Faithful
  <2>1. Format = "image" \/ ~spillOn
    BY Zenon DEF FixedInv
  <2> QED
    BY <2>1, Zenon DEF Faithful
<1>2. buffer = {} /\ visible = applied /\ applied \in Range(log) \cup {floor} /\ applied >= floor
  BY Zenon DEF PhaseInv
<1>3. /\ Range(log) \subseteq 1 .. MaxLsn /\ floor \in 0 .. MaxLsn /\ MaxLsn \in Nat
      /\ applied \in 0 .. MaxLsn
  BY ReplayAssumption DEF Range, FixedInv, Lsns, TypeOK
<1>4. \A l \in Range(log) : l <= applied
  BY <1>2, Zenon DEF DrainInv, DrainPhases, LsnsOf
<1>5. applied = Max(Range(log) \cup {floor})
  <2> DEFINE S == Range(log) \cup {floor}
  <2>1. S \in SUBSET (0 .. MaxLsn) /\ S # {} /\ applied \in S /\ \A l \in S : l <= applied
    BY <1>2, <1>3, <1>4
  <2> HIDE DEF S
  <2>2. Max(S) \in S /\ \A y \in S : y <= Max(S)
    BY <1>3, <2>1, MaxIsGreatest, Zenon
  <2>3. Max(S) \in 0 .. MaxLsn /\ Max(S) <= applied /\ applied <= Max(S)
    BY <2>1, <2>2, Zenon
  <2>4. Max(S) = applied
    BY <1>3, <2>3
  <2> QED
    BY <2>4, Zenon DEF S
<1>6. ASSUME NEW k \in Keys
      PROVE  /\ Ascending(chain[k]) /\ Range(chain[k]) = ExpectedVersions(k)
             /\ page[k] = ExpectedPage(k)
  <2> DEFINE f == LastAtFloor(k)  A == AboveFloor(k)  c == chain[k]
             S == A \cup {f}
  <2>1. f \in 0 .. floor
    BY LastAtFloorType, Zenon
  <2>2. A \subseteq Range(log)
    BY Zenon DEF AboveFloor
  <2>3. ExpectedVersions(k) = ({f} \ {0}) \cup A
    BY Zenon DEF ExpectedVersions
  <2> HIDE DEF f, A
  <2>4. \A l \in ExpectedVersions(k) : l <= applied
    <3>1. f <= applied
      BY <1>2, <1>3, <2>1
    <3> QED
      BY <1>4, <2>2, <2>3, <3>1, Zenon
  <2>5. Range(c) = {l \in ExpectedVersions(k) : l <= applied}
        /\ page[k] = IF c = <<>> THEN 0 ELSE Newest(c)
    BY <1>1, Zenon DEF ContentInv
  <2>6. Range(c) = ({f} \ {0}) \cup A
    BY <2>3, <2>4, <2>5, Zenon
  <2>7. Ascending(c) /\ c \in Seq(Lsns)
    BY Zenon DEF OrderInv, TypeOK
  <2>8. S \in SUBSET (0 .. MaxLsn) /\ S # {}
    BY <1>3, <2>1, <2>2
  <2>9. Max(S) \in S /\ (\A y \in S : y <= Max(S)) /\ Max(S) \in 0 .. MaxLsn
    <3> HIDE DEF S
    <3>1. Max(S) \in S /\ \A y \in S : y <= Max(S)
      BY <1>3, <2>8, MaxIsGreatest, Zenon
    <3> QED
      BY <2>8, <3>1, Zenon
  <2>10. page[k] = Max(S)
    <3> HIDE DEF c
    <3>1. CASE c = <<>>
      <4>1. Range(c) = {}
        BY <3>1 DEF Range
      <4>2. S = {0}
        BY <2>6, <4>1, Zenon
      <4> QED
        BY <2>5, <2>9, <3>1, <4>2, Zenon
    <3>2. CASE c # <<>>
      <4>1. Newest(c) \in Range(c) /\ \A l \in Range(c) : l <= Newest(c)
        BY <2>7, <3>2, LastIsGreatest, Zenon
      <4>2. Newest(c) \in S /\ Newest(c) # 0 /\ Newest(c) \in 0 .. MaxLsn
        BY <1>3, <2>2, <2>6, <2>8, <4>1
      <4>3. Newest(c) <= Max(S) /\ Max(S) # 0
        BY <1>3, <2>9, <4>2
      <4>4. Max(S) \in Range(c)
        BY <2>6, <2>9, <4>3, Zenon
      <4>5. Max(S) <= Newest(c)
        BY <4>1, <4>4, Zenon
      <4>6. Newest(c) = Max(S)
        BY <1>3, <2>9, <4>2, <4>3, <4>5
      <4> QED
        BY <2>5, <3>2, <4>6, Zenon
    <3> QED
      BY <3>1, <3>2, Zenon
  <2>11. ExpectedPage(k) = Max(S)
    BY Zenon DEF ExpectedPage, A, f
  <2> QED
    BY <2>3, <2>6, <2>7, <2>10, <2>11, Zenon
<1> QED
  BY <1>2, <1>5, <1>6, Zenon

\* The invariant of the replay: nothing that was read is lost between the buffer,
\* the batch being spilled and the spill directory, whatever crashed before.
THEOREM ReplayInvariance == Spec => []IInv
BY InvInit, InvStep, PTL DEF Spec

\* The executor keeps the shape of its state (replay.rs, ReplayExecutor).
THEOREM ReplayTypeCorrect == Spec => []TypeOK
<1>1. IInv => TypeOK
  BY Zenon DEF IInv
<1> QED
  BY <1>1, ReplayInvariance, PTL

\* out_of_order_apply_rejected stays zero: the replay never applies a version
\* below a newer one of its record, for every log, bound and spill setting.
THEOREM NothingRejected == Spec => []NeverOutOfOrder
<1>1. IInv => NeverOutOfOrder
  BY Zenon DEF IInv, OrderInv, NeverOutOfOrder
<1> QED
  BY <1>1, ReplayInvariance, PTL

\* A finished replay has applied the allocator_advances of every bundle of the
\* log, those that it skipped included.
THEOREM AllocatorsCoverTheLog == Spec => []AllocatorsCoverLog
<1>1. IInv => AllocatorsCoverLog
  <2> SUFFICES ASSUME IInv, phase = "done" PROVE Range(log) \subseteq advanced
    BY Zenon DEF AllocatorsCoverLog
  <2>1. buffer = {}
    BY Zenon DEF IInv, PhaseInv
  <2> QED
    BY <2>1, Zenon DEF IInv, DrainInv, DrainPhases, LsnsOf
<1> QED
  BY <1>1, ReplayInvariance, PTL

\* A finished replay has rebuilt what the log in commit order would give, in the
\* image format, or in any format when nothing is spilled; a delta bundle that is
\* spilled loses its version, which the run ReplaySpillDelta shows.
THEOREM ReplayIsFaithful ==
  ASSUME Format = "image" \/ TRUE \notin SpillModes
  PROVE  Spec => []ReplayedInOrder
<1>1. IInv => ReplayedInOrder
  BY FinishedIsFaithful, Zenon
<1> QED
  BY <1>1, ReplayInvariance, PTL
=============================================================================
