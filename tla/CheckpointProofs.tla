-------------------------- MODULE CheckpointProofs --------------------------
(***************************************************************************)
(* Durability of the full-state data directory, for any number of commits, *)
(* names, checkpoints and crashes and any segment size: as long as no      *)
(* crash falls between the renames of CHECKPOINT.snap and of the sidecar   *)
(* over an older checkpoint, what recovery rebuilds contains every Strict  *)
(* commit acknowledged, is causally closed and resolves its names.         *)
(***************************************************************************)
EXTENDS Checkpoint, Extrema

\* A leaf that names no prover goes to the SMT solver; the limit is generous, so
\* that a proof does not depend on how busy the machine is.
USE SMTT(60)

\* The sidecar and CHECKPOINT.snap belong together, or there is no sidecar.
Whole == sidecar = NoLsn \/ snapFile.lsn = sidecar

\* What the theorems assume of the crashes: none leaves the new snapshot beside
\* an older sidecar.  With one checkpoint pass it is so by itself.
NoTornPair == ~ up => Whole

-----------------------------------------------------------------------------
\* The inductive invariant.

\* The log: what is in the WAL, then what the writer still holds.
LogLen == Len(wal) + Len(queue)
Log == [i \in 1 .. LogLen |-> IF i <= Len(wal) THEN wal[i].rec ELSE queue[i - Len(wal)]]
LogRecs == {Log[i] : i \in 1 .. LogLen}
SyncedRecs == {Log[i] : i \in 1 .. synced}

\* What a commit depends on: the records of the commits it saw and of its name.
Needs(l) == {Bundle(m) : m \in seen[l]} \cup {Intern(n) : n \in {uses[l]} \ {NoName}}

\* What need not be in the log with checkpoint b: what b holds and orphaned names.
Has(b) == {Bundle(m) : m \in b.data} \cup {Intern(n) : n \in b.names \cup orphaned}

\* Segments follow one another, every segment but the active one is fsynced, and
\* the batch that awaits its fsync is in the active one.
SegmentInv ==
  /\ \A i, j \in 1 .. Len(wal) : i <= j => wal[i].seg <= wal[j].seg
  /\ \A i \in 1 .. Len(wal) : wal[i].seg <= segNo /\ (wal[i].seg < segNo => i <= synced)
  /\ \A r \in batch : \E i \in 1 .. Len(wal) : wal[i].rec = r /\ wal[i].seg = segNo

\* What is in memory: LSNs up to the counter are used, commits that are applied
\* or under way saw applied commits only, a logged commit that is not applied is
\* under way, and a Strict one that waits is with the writer.
MemoryInv ==
  /\ visible <= counter
  /\ \A l \in Lsns : stage[l] = "none" <=> l > counter
  /\ applied \subseteq 1 .. counter /\ acked \subseteq applied
  /\ \A l \in applied \cup InFlight : seen[l] \subseteq applied
  /\ \A l \in applied : uses[l] \in names \cup orphaned \cup {NoName}
  /\ \A l \in InFlight : uses[l] \in logged \cup {NoName}
  /\ \A l \in Lsns : Bundle(l) \in LogRecs => l \in applied \/ stage[l] \in {"waiting", "durable"}
  /\ \A l \in Lsns : stage[l] = "waiting" =>
       Bundle(l) \in batch \/ \E i \in 1 .. Len(queue) : queue[i] = Bundle(l)

\* Checkpoint b and the log together hold everything: what was acknowledged is
\* in b or fsynced, b holds the logged commits up to its LSN, and a logged commit
\* depends only on b and on records before its own.
LogInv(b) ==
  /\ \A l \in acked : Bundle(l) \in Has(b) \cup SyncedRecs
  /\ \A l \in Lsns : l <= b.lsn /\ Bundle(l) \in LogRecs => Bundle(l) \in Has(b)
  /\ \A l \in Lsns, j \in 1 .. LogLen :
       Log[j] = Bundle(l) => Needs(l) \subseteq Has(b) \cup {Log[i] : i \in 1 .. j - 1}
  /\ \A l \in b.data : Needs(l) \subseteq Has(b)

\* The same while the process is up, for what has not reached the log yet.
LiveInv(b) ==
  /\ b.lsn <= counter /\ b.data \subseteq 1 .. counter
  /\ \A l \in InFlight : b.lsn < l /\ Needs(l) \subseteq Has(b) \cup LogRecs
  /\ \A l \in Lsns : stage[l] = "durable" =>
       Bundle(l) \in Has(b) \cup (IF tier[l] = "Strict" THEN SyncedRecs ELSE LogRecs)
  /\ \A m \in applied : Bundle(m) \in Has(b) \cup LogRecs
  /\ \A n \in logged : Intern(n) \in Has(b) \cup LogRecs

\* A pass has captured a checkpoint b that may replace the present one.
PassInv ==
  /\ \A b \in Snapshots : ckPc # "idle" /\ b = ckTemp => b.lsn >= 0 /\ LogInv(b) /\ LiveInv(b)
  /\ ckPc \in {"snapped", "reclaim"} => snapFile = ckTemp
  /\ ckPc = "reclaim" => sidecar = ckTemp.lsn

\* The checkpoint b that a recovery would restore.  Between the two renames over
\* an older checkpoint nothing is known of it.
RestoreInv ==
  \A b \in Snapshots : b = Restored =>
    /\ up /\ Whole => LogInv(b) /\ LiveInv(b)
    /\ ~up => LogInv(b)

\* The inductive invariant.
IInv ==
  /\ TypeOK /\ SegmentInv /\ RestoreInv
  /\ up => MemoryInv /\ PassInv
  /\ ~up => queue = <<>> /\ batch = {} /\ synced = Len(wal)

-----------------------------------------------------------------------------
\* Sequences.  These follow from what the provers know of sequences, each in a
\* context without the model.

\* The entries of a sequence.
LEMMA ElementOfSeq ==
  ASSUME NEW S, NEW s \in Seq(S)
  PROVE  Len(s) \in Nat /\ \A i \in 1 .. Len(s) : s[i] \in S
OBVIOUS

\* A function on 1 .. n is a sequence.
LEMMA FunctionIsSeq ==
  ASSUME NEW S, NEW n \in Nat, NEW f \in [1 .. n -> S]
  PROVE  f \in Seq(S) /\ Len(f) = n
OBVIOUS

\* A piece of a sequence, which may be empty.
LEMMA PieceOfSeq ==
  ASSUME NEW S, NEW s \in Seq(S), NEW m \in 1 .. Len(s) + 1, NEW n \in m - 1 .. Len(s)
  PROVE  /\ SubSeq(s, m, n) \in Seq(S)
         /\ Len(SubSeq(s, m, n)) = n - m + 1
         /\ \A i \in 1 .. n - m + 1 : SubSeq(s, m, n)[i] = s[m + i - 1]
<1>1. CASE m <= n
  BY <1>1
<1>2. CASE m = n + 1
  BY <1>2
<1> QED BY <1>1, <1>2

\* One sequence after another.
LEMMA ConcatOfSeqs ==
  ASSUME NEW S, NEW s \in Seq(S), NEW t \in Seq(S)
  PROVE  /\ s \o t \in Seq(S)
         /\ Len(s \o t) = Len(s) + Len(t)
         /\ \A i \in 1 .. Len(s) + Len(t) :
              (s \o t)[i] = IF i <= Len(s) THEN s[i] ELSE t[i - Len(s)]
OBVIOUS

-----------------------------------------------------------------------------
\* Records.

\* A record is a commit bundle or an intern record, and says which.
LEMMA RecordFacts ==
  /\ \A l \in Lsns : Bundle(l) \in Records /\ Bundle(l).lsn = l /\ Bundle(l).name = NoName
                     /\ l # 0 /\ l \in Nat
  /\ \A n \in Names : Intern(n) \in Records /\ Intern(n).lsn = 0 /\ Intern(n).name = n
                      /\ n # NoName
  /\ \A r \in Records : \/ r.lsn \in Lsns /\ r = Bundle(r.lsn) /\ r.name = NoName
                        \/ r.lsn = 0 /\ r.name \in Names /\ r = Intern(r.name)
<1>1. \A l \in Lsns : l # 0 /\ l \in Nat
  BY ConstAssumption DEF Lsns
<1>2. \A n \in Names : n # NoName /\ n # 0
  BY ConstAssumption, Zenon DEF NoName
<1>3. \A l : Bundle(l).lsn = l /\ Bundle(l).name = NoName
  BY Zenon DEF Bundle
<1>4. \A n : Intern(n).lsn = 0 /\ Intern(n).name = n
  BY Zenon DEF Intern
<1>5. /\ \A l \in Lsns : Bundle(l) \in Records
      /\ \A n \in Names : Intern(n) \in Records
      /\ \A r \in Records : (\E l \in Lsns : r = Bundle(l)) \/ (\E n \in Names : r = Intern(n))
  BY Zenon DEF Records
<1>6. ASSUME NEW r \in Records
      PROVE  \/ r.lsn \in Lsns /\ r = Bundle(r.lsn) /\ r.name = NoName
             \/ r.lsn = 0 /\ r.name \in Names /\ r = Intern(r.name)
  <2>1. CASE \E l \in Lsns : r = Bundle(l)
    BY <1>3, <2>1, Zenon
  <2>2. CASE \E n \in Names : r = Intern(n)
    BY <1>4, <2>2, Zenon
  <2> QED BY <1>5, <2>1, <2>2, Zenon
<1> QED BY <1>1, <1>2, <1>3, <1>4, <1>5, <1>6, Zenon

Entries == [rec : Records, seg : Nat]

\* The entries of the log are records.
LEMMA LogType ==
  ASSUME TypeOK
  PROVE  /\ LogLen \in Nat /\ Len(wal) \in Nat /\ Len(queue) \in Nat /\ synced \in 0 .. Len(wal)
         /\ \A i \in 1 .. LogLen : Log[i] \in Records
         /\ wal \in Seq(Entries) /\ \A i \in 1 .. Len(wal) : wal[i] \in Entries
         /\ \A i \in 1 .. Len(wal) : wal[i].rec \in Records /\ wal[i].seg \in Nat /\ Log[i] = wal[i].rec
         /\ \A i \in 1 .. Len(queue) : queue[i] \in Records /\ Log[Len(wal) + i] = queue[i]
         /\ LogRecs \subseteq Records /\ SyncedRecs \subseteq LogRecs
<1>1. /\ wal \in Seq(Entries) /\ queue \in Seq(Records) /\ synced \in 0 .. Len(wal)
  BY Zenon DEF TypeOK, Entries
<1>2. /\ Len(wal) \in Nat /\ Len(queue) \in Nat
      /\ \A i \in 1 .. Len(wal) : wal[i] \in Entries
      /\ \A i \in 1 .. Len(wal) : wal[i].rec \in Records /\ wal[i].seg \in Nat
      /\ \A i \in 1 .. Len(queue) : queue[i] \in Records
  <2> HIDE DEF Records
  <2>1. \A i \in 1 .. Len(wal) : wal[i] \in Entries
    BY <1>1, ElementOfSeq, Zenon
  <2>2. \A i \in 1 .. Len(queue) : queue[i] \in Records
    BY <1>1, ElementOfSeq, Zenon
  <2> QED BY <1>1, <2>1, <2>2 DEF Entries
<1>3. LogLen \in Nat /\ \A i \in 1 .. LogLen : Log[i] \in Records
  BY <1>2 DEF Log, LogLen
<1>4. /\ \A i \in 1 .. Len(wal) : Log[i] = wal[i].rec
      /\ \A i \in 1 .. Len(queue) : Log[Len(wal) + i] = queue[i]
  BY <1>2 DEF Log, LogLen
<1>5. LogRecs \subseteq Records /\ SyncedRecs \subseteq LogRecs
  BY <1>1, <1>2, <1>3 DEF LogRecs, SyncedRecs, LogLen
<1> QED BY <1>1, <1>2, <1>3, <1>4, <1>5, Zenon

-----------------------------------------------------------------------------
\* What the steps do to the log.

\* A record handed to the writer is the new end of the log.
LEMMA AppendLog ==
  ASSUME TypeOK, NEW r \in Records, queue' = Append(queue, r), wal' = wal
  PROVE  /\ queue' \in Seq(Records) /\ Len(queue') = Len(queue) + 1
         /\ \A i \in 1 .. Len(queue) : queue'[i] = queue[i]
         /\ queue'[Len(queue) + 1] = r
         /\ LogLen' = LogLen + 1 /\ Log'[LogLen + 1] = r
         /\ \A i \in 1 .. LogLen : Log'[i] = Log[i]
         /\ LogRecs' = LogRecs \cup {r}
<1> HIDE DEF Records
<1>1. /\ queue \in Seq(Records) /\ Len(queue) \in Nat /\ Len(wal) \in Nat
  BY LogType, Zenon DEF TypeOK
<1>2. /\ queue' \in Seq(Records) /\ Len(queue') = Len(queue) + 1
      /\ \A i \in 1 .. Len(queue) : queue'[i] = queue[i]
      /\ queue'[Len(queue) + 1] = r
  BY <1>1
<1>3. LogLen' = LogLen + 1 /\ LogLen \in Nat
  BY <1>1, <1>2 DEF LogLen
<1>4. Log'[LogLen + 1] = r
  BY <1>1, <1>2, <1>3 DEF Log, LogLen
<1>5. \A i \in 1 .. LogLen : Log'[i] = Log[i]
  BY <1>1, <1>2, <1>3 DEF Log, LogLen
<1>6. LogRecs' = LogRecs \cup {r}
  <2>1. \A x : x \in LogRecs' <=> \E i \in 1 .. LogLen + 1 : x = Log'[i]
    BY <1>3, Zenon DEF LogRecs
  <2>2. \A x : x \in LogRecs <=> \E i \in 1 .. LogLen : x = Log[i]
    BY Zenon DEF LogRecs
  <2>3. 1 .. LogLen + 1 = (1 .. LogLen) \cup {LogLen + 1}
    BY <1>3
  <2> QED BY <1>4, <1>5, <2>1, <2>2, <2>3
<1> QED BY <1>2, <1>3, <1>4, <1>5, <1>6, Zenon

\* Writing a batch moves records from the writer to the WAL: the log stays.
LEMMA WriteLog ==
  ASSUME TypeOK, WriteBatch
  PROVE  \E n \in 1 .. Len(queue), seg \in {segNo, segNo + 1} :
           /\ wal' \in Seq(Entries) /\ Len(wal') = Len(wal) + n
           /\ \A i \in 1 .. Len(wal) : wal'[i] = wal[i]
           /\ \A i \in 1 .. n : wal'[Len(wal) + i] = [rec |-> queue[i], seg |-> seg]
           /\ queue' \in Seq(Records) /\ Len(queue') = Len(queue) - n
           /\ \A i \in 1 .. Len(queue) - n : queue'[i] = queue[n + i]
           /\ batch' = {queue[i] : i \in 1 .. n}
           /\ segNo' = seg
           /\ synced' = IF seg = segNo THEN synced ELSE Len(wal)
           /\ LogLen' = LogLen /\ Log' = Log
<1> HIDE DEF Records
<1>1. /\ wal \in Seq(Entries) /\ queue \in Seq(Records) /\ segNo \in Nat
      /\ Len(wal) \in Nat /\ Len(queue) \in Nat /\ \A i \in 1 .. Len(queue) : queue[i] \in Records
  BY LogType, Zenon DEF TypeOK, Entries
<1>2. PICK n \in 1 .. Len(queue) :
        LET recs == SubSeq(queue, 1, n)
            rotate == SegLen > 0 /\ SegLen + n > SegmentRecords
            seg == IF rotate THEN segNo + 1 ELSE segNo
        IN /\ wal' = wal \o [i \in 1 .. n |-> [rec |-> recs[i], seg |-> seg]]
           /\ segNo' = seg
           /\ synced' = IF rotate THEN Len(wal) ELSE synced
           /\ queue' = SubSeq(queue, n + 1, Len(queue))
           /\ batch' = Range(recs)
  BY Zenon DEF WriteBatch
<1> DEFINE rotate == SegLen > 0 /\ SegLen + n > SegmentRecords
           recs == SubSeq(queue, 1, n)
           new == [i \in 1 .. n |-> [rec |-> recs[i], seg |-> segNo']]
<1>3. /\ segNo' = IF rotate THEN segNo + 1 ELSE segNo
      /\ wal' = wal \o new
      /\ queue' = SubSeq(queue, n + 1, Len(queue))
      /\ batch' = Range(recs)
  BY <1>2, Zenon
<1>4. /\ segNo' \in {segNo, segNo + 1} /\ segNo' \in Nat
      /\ synced' = IF segNo' = segNo THEN synced ELSE Len(wal)
  BY <1>1, <1>2
<1>5. /\ recs \in Seq(Records) /\ Len(recs) = n
      /\ \A i \in 1 .. n : recs[i] = queue[i]
  BY <1>1, PieceOfSeq
<1>6. /\ new \in Seq(Entries) /\ Len(new) = n
      /\ \A i \in 1 .. n : new[i] = [rec |-> queue[i], seg |-> segNo']
  <2>1. \A i \in 1 .. n : new[i] = [rec |-> queue[i], seg |-> segNo'] /\ new[i] \in Entries
    BY <1>1, <1>4, <1>5 DEF Entries
  <2>2. new \in [1 .. n -> Entries] /\ n \in Nat
    BY <1>1, <2>1
  <2>3. new \in Seq(Entries) /\ Len(new) = n
    BY <2>2, FunctionIsSeq, Zenon
  <2> QED BY <2>1, <2>3, Zenon
<1> HIDE DEF new, recs, rotate
<1>7. /\ wal' \in Seq(Entries) /\ Len(wal') = Len(wal) + n
      /\ \A i \in 1 .. Len(wal) + n : wal'[i] = IF i <= Len(wal) THEN wal[i] ELSE new[i - Len(wal)]
  <2>1. /\ wal \o new \in Seq(Entries) /\ Len(wal \o new) = Len(wal) + Len(new)
        /\ \A i \in 1 .. Len(wal) + Len(new) :
             (wal \o new)[i] = IF i <= Len(wal) THEN wal[i] ELSE new[i - Len(wal)]
    BY <1>1, <1>6, ConcatOfSeqs, Zenon
  <2> QED BY <1>3, <1>6, <2>1, Zenon
<1>8. /\ \A i \in 1 .. Len(wal) : wal'[i] = wal[i]
      /\ \A i \in 1 .. n : wal'[Len(wal) + i] = [rec |-> queue[i], seg |-> segNo']
  <2>1. \A i \in 1 .. Len(wal) : i \in 1 .. Len(wal) + n /\ i <= Len(wal)
    BY <1>1
  <2>2. \A i \in 1 .. n : /\ Len(wal) + i \in 1 .. Len(wal) + n /\ ~ (Len(wal) + i <= Len(wal))
                          /\ Len(wal) + i - Len(wal) = i
    BY <1>1
  <2>3. ASSUME NEW i \in 1 .. n
        PROVE  wal'[Len(wal) + i] = [rec |-> queue[i], seg |-> segNo']
    <3>1. wal'[Len(wal) + i] = new[Len(wal) + i - Len(wal)]
      <4>1. wal'[Len(wal) + i] = IF Len(wal) + i <= Len(wal) THEN wal[Len(wal) + i]
                                 ELSE new[Len(wal) + i - Len(wal)]
        BY <1>7, <2>2
      <4> QED BY <2>2, <4>1, Zenon
    <3> QED BY <1>6, <2>2, <3>1, Zenon
  <2> QED BY <1>7, <2>1, <2>3, Zenon
<1>9. /\ queue' \in Seq(Records) /\ Len(queue') = Len(queue) - n
      /\ \A i \in 1 .. Len(queue) - n : queue'[i] = queue[n + i]
  BY <1>1, <1>3, PieceOfSeq
<1>10. batch' = {queue[i] : i \in 1 .. n}
  <2>1. DOMAIN recs = 1 .. n
    BY <1>5
  <2>2. Range(recs) = {recs[i] : i \in 1 .. n}
    BY <2>1, Zenon DEF Range
  <2>3. {recs[i] : i \in 1 .. n} = {queue[i] : i \in 1 .. n}
    BY <1>5, Zenon
  <2> QED BY <1>3, <2>2, <2>3, Zenon
<1>11. LogLen' = LogLen /\ LogLen \in Nat
  BY <1>1, <1>7, <1>9 DEF LogLen
<1>12. Log' = Log
  <2>1. ASSUME NEW i \in 1 .. LogLen PROVE Log'[i] = Log[i]
    <3>1. CASE i <= Len(wal)
      BY <1>1, <1>7, <1>8, <1>11, <3>1 DEF Log, LogLen
    <3>2. CASE i > Len(wal) /\ i <= Len(wal) + n
      <4>1. Log'[i] = wal'[Len(wal) + (i - Len(wal))].rec
        BY <1>1, <1>7, <1>11, <3>2 DEF Log
      <4>2. Log[i] = queue[i - Len(wal)] /\ i - Len(wal) \in 1 .. n
        BY <1>1, <3>2 DEF Log
      <4>3. wal'[Len(wal) + (i - Len(wal))].rec = queue[i - Len(wal)]
        <5>1. wal'[Len(wal) + (i - Len(wal))] = [rec |-> queue[i - Len(wal)], seg |-> segNo']
          BY <1>8, <4>2, Zenon
        <5> QED BY <5>1
      <4> QED BY <4>1, <4>2, <4>3, Zenon
    <3>3. CASE i > Len(wal) + n
      <4>1. Log'[i] = queue'[i - Len(wal) - n]
        BY <1>1, <1>7, <1>11, <3>3 DEF Log
      <4>2. Log[i] = queue[n + (i - Len(wal) - n)] /\ i - Len(wal) - n \in 1 .. Len(queue) - n
        BY <1>1, <3>3 DEF Log, LogLen
      <4> QED BY <1>9, <4>1, <4>2, Zenon
    <3> QED BY <1>1, <1>11, <3>1, <3>2, <3>3
  <2>2. Log = [i \in 1 .. LogLen |-> Log[i]] /\ Log' = [i \in 1 .. LogLen |-> Log'[i]]
    BY <1>11, Zenon DEF Log
  <2> HIDE DEF Log
  <2> QED BY <2>1, <2>2, Zenon
<1> QED BY <1>4, <1>7, <1>8, <1>9, <1>10, <1>11, <1>12, Zenon

\* A crash leaves the fsynced records and some of the others after them.
LEMMA CrashLog ==
  ASSUME TypeOK, Crash
  PROVE  \E n \in synced .. Len(wal) :
           /\ wal' \in Seq(Entries) /\ Len(wal') = n
           /\ \A i \in 1 .. n : wal'[i] = wal[i]
           /\ synced' = n
           /\ LogLen' = n /\ \A i \in 1 .. n : Log'[i] = Log[i]
<1> HIDE DEF Records
<1>1. /\ wal \in Seq(Entries) /\ Len(wal) \in Nat /\ synced \in 0 .. Len(wal)
      /\ \A i \in 1 .. Len(wal) : wal[i] \in Entries
      /\ \A i \in 1 .. Len(wal) : Log[i] = wal[i].rec
  BY LogType, Zenon
<1>2. PICK n \in synced .. Len(wal) :
        /\ wal' = SubSeq(wal, 1, n) /\ synced' = n
  BY Zenon DEF Crash
<1>3. n \in Nat /\ n \in Int /\ n <= Len(wal) /\ 1 \in Int /\ n - 1 + 1 = n
  BY <1>1
<1>4. /\ wal' \in Seq(Entries) /\ Len(wal') = n
      /\ \A i \in 1 .. n : wal'[i] = wal[i]
  BY <1>1, <1>2, <1>3, PieceOfSeq
<1>6. queue' = <<>> /\ Len(queue') = 0
  BY Zenon DEF Crash
<1>7. LogLen' = n
  BY <1>3, <1>4, <1>6 DEF LogLen
<1>8. \A i \in 1 .. n : Log'[i] = wal'[i].rec
  BY <1>3, <1>4, <1>7 DEF Log
<1>9. \A i \in 1 .. n : Log'[i] = Log[i]
  BY <1>1, <1>3, <1>4, <1>8
<1> QED BY <1>2, <1>4, <1>7, <1>9, Zenon

\* Deleting the lowest segment takes a beginning off the log, fsynced records
\* of commits up to the checkpoint's.
LEMMA ReclaimLog ==
  ASSUME TypeOK, SegmentInv, CkReclaim
  PROVE  \E n \in 1 .. synced :
           /\ wal' \in Seq(Entries) /\ Len(wal') = Len(wal) - n
           /\ \A i \in 1 .. Len(wal) - n : wal'[i] = wal[n + i]
           /\ \A i \in 1 .. n : wal[i].seg < segNo /\ Log[i].lsn <= ckTemp.lsn
           /\ \A i \in 1 .. n : Log[i].name \in ckTemp.names \cup orphaned' \cup {NoName}
           /\ synced' = synced - n
           /\ LogLen' = LogLen - n /\ \A i \in 1 .. LogLen - n : Log'[i] = Log[n + i]
<1> HIDE DEF Records
<1>1. /\ wal \in Seq(Entries) /\ Len(wal) \in Nat /\ synced \in 0 .. Len(wal)
      /\ LogLen \in Nat /\ Len(queue) \in Nat
      /\ \A i \in 1 .. Len(wal) : wal[i] \in Entries /\ wal[i].seg \in Nat
      /\ \A i \in 1 .. Len(wal) : Log[i] = wal[i].rec
  BY LogType, Zenon
<1>2. PICK n \in 1 .. Len(wal) :
        IsLowest(n) /\ wal' = SubSeq(wal, n + 1, Len(wal)) /\ synced' = synced - n
  BY Zenon DEF CkReclaim
<1>3. /\ n + 1 \in Int /\ Len(wal) \in Int /\ Len(wal) - (n + 1) + 1 = Len(wal) - n
      /\ \A i \in 1 .. Len(wal) - n : n + 1 + i - 1 = n + i
      /\ \A i \in n + 1 .. Len(wal) : i \in 1 .. Len(wal)
  BY <1>1
<1>4. /\ wal' \in Seq(Entries) /\ Len(wal') = Len(wal) - n
      /\ \A i \in 1 .. Len(wal) - n : wal'[i] = wal[n + i]
  <2>1. n + 1 \in 1 .. Len(wal) + 1 /\ Len(wal) \in n + 1 - 1 .. Len(wal)
    BY <1>1
  <2>2. /\ SubSeq(wal, n + 1, Len(wal)) \in Seq(Entries)
        /\ Len(SubSeq(wal, n + 1, Len(wal))) = Len(wal) - (n + 1) + 1
        /\ \A i \in 1 .. Len(wal) - (n + 1) + 1 :
             SubSeq(wal, n + 1, Len(wal))[i] = wal[n + 1 + i - 1]
    BY <1>1, <2>1, PieceOfSeq
  <2> QED BY <1>2, <1>3, <2>2, Zenon
<1>5. /\ \A i \in 1 .. n : i \in 1 .. Len(wal) /\ wal[i].seg = wal[1].seg
      /\ 1 \in 1 .. Len(wal) /\ n \in 1 .. Len(wal)
  BY <1>1, <1>2 DEF IsLowest
<1>6. wal[1].seg < segNo
  <2>1. wal[1].seg # segNo
    BY Zenon DEF CkReclaim, Reclaimable
  <2>2. wal[1].seg <= segNo /\ segNo \in Nat
    BY <1>5, Zenon DEF SegmentInv, TypeOK
  <2> QED BY <1>1, <1>5, <2>1, <2>2
<1>7. n <= synced
  BY <1>5, <1>6 DEF SegmentInv
<1>8. \A i \in 1 .. n : wal[i].rec.lsn <= ckTemp.lsn
  BY <1>5, Zenon DEF CkReclaim, Reclaimable, BelowFrontier
<1>9. \A i \in 1 .. n : wal[i].rec.name \in ckTemp.names \cup orphaned' \cup {NoName}
  <2>1. \A i \in 1 .. n : wal[i].rec.name \in NamesIn(wal[1].seg) \cup {NoName}
    BY <1>5, Zenon DEF NamesIn
  <2>2. orphaned' = orphaned \cup (NamesIn(wal[1].seg) \ ckTemp.names)
    BY Zenon DEF CkReclaim
  <2> QED BY <2>1, <2>2, Zenon
<1>10. LogLen' = LogLen - n /\ queue' = queue
  <2>1. queue' = queue
    BY Zenon DEF CkReclaim
  <2> QED BY <1>1, <1>4, <2>1 DEF LogLen
<1>11. ASSUME NEW i \in 1 .. LogLen - n PROVE Log'[i] = Log[n + i]
  <2>1. i \in 1 .. LogLen' /\ n + i \in 1 .. LogLen
    BY <1>1, <1>10
  <2>2. CASE i <= Len(wal) - n
    BY <1>1, <1>4, <2>1, <2>2 DEF Log
  <2>3. CASE i > Len(wal) - n
    <3>1. Log'[i] = queue[i - (Len(wal) - n)]
      BY <1>1, <1>4, <1>10, <2>1, <2>3 DEF Log
    <3>2. Log[n + i] = queue[n + i - Len(wal)]
      BY <1>1, <2>1, <2>3 DEF Log
    <3>3. i - (Len(wal) - n) = n + i - Len(wal)
      BY <1>1
    <3> QED BY <3>1, <3>2, <3>3, Zenon
  <2> QED BY <1>1, <2>2, <2>3
<1>12. n \in 1 .. synced
  BY <1>1, <1>7
<1>13. \A i \in 1 .. n : wal[i].seg < segNo /\ Log[i] = wal[i].rec
  BY <1>1, <1>5, <1>6, Zenon
<1> QED BY <1>2, <1>4, <1>8, <1>9, <1>10, <1>11, <1>12, <1>13, Zenon

\* The highest of some LSNs is one of them and at least the others.
LEMMA HighestOf ==
  ASSUME NEW S \in SUBSET (0 .. MaxLsn), S # {}
  PROVE  Highest(S) \in S /\ \A m \in S : m <= Highest(S)
<1>1. MaxLsn \in Nat
  BY ConstAssumption, Zenon
<1>2. \E l \in S : \A m \in S : m <= l
  BY <1>1, GreatestExists, Zenon
<1> QED BY <1>2, Zenon DEF Highest

\* What a recovery restores is a checkpoint or nothing.
LEMMA RestoredType ==
  ASSUME TypeOK
  PROVE  /\ Restored \in Snapshots /\ Restored.lsn \in 0 .. MaxLsn
         /\ Restored.data \subseteq Lsns /\ Restored.names \subseteq Names
<1>1. CASE sidecar # NoLsn /\ snapFile.lsn = sidecar
  <2>1. Restored = snapFile /\ snapFile \in Snapshots /\ snapFile.lsn \in Lsns \cup {0}
    BY <1>1, Zenon DEF Restored, TypeOK
  <2> QED BY <2>1, ConstAssumption DEF Snapshots, Lsns
<1>2. CASE ~ (sidecar # NoLsn /\ snapFile.lsn = sidecar)
  <2>1. Restored = [lsn |-> 0, data |-> {}, names |-> {}]
    BY <1>2, Zenon DEF Restored, NoSnap
  <2> QED BY <2>1, ConstAssumption DEF Snapshots
<1> QED BY <1>1, <1>2, Zenon

\* Recovery finds in the WAL what it replays, and seeds the counter past it.
LEMMA RecoverFacts ==
  ASSUME TypeOK, Recover
  PROVE  /\ applied' \subseteq Lsns /\ names' \subseteq Names /\ logged' = names'
         /\ counter' \in 0 .. MaxLsn /\ visible' = counter'
         /\ applied' \subseteq 1 .. counter' /\ Restored.lsn <= counter'
         /\ \A l \in applied' : l \in Restored.data \/ \E i \in 1 .. Len(wal) : wal[i].rec = Bundle(l)
         /\ Restored.data \subseteq applied'
         /\ \A r \in WalRecs : r.lsn > Restored.lsn => r.lsn \in applied'
         /\ Restored.names \subseteq names'
         /\ \A r \in WalRecs : r.name \in names' \cup {NoName}
<1>1. WalRecs \subseteq Records /\ Restored.lsn \in 0 .. MaxLsn
      /\ Restored.data \subseteq Lsns /\ Restored.names \subseteq Names
  BY LogType, RestoredType, Zenon DEF WalRecs
<1>2. \A r \in Records : \/ r.lsn \in Lsns /\ r.name = NoName /\ r = Bundle(r.lsn)
                         \/ r.lsn = 0 /\ r.name \in Names
  BY RecordFacts, Zenon
<1>3. Replayed \subseteq Lsns
  <2>1. \A q \in WalRecs : q.lsn > Restored.lsn => q.lsn \in Lsns
    BY <1>1, <1>2
  <2> QED BY <2>1, Zenon DEF Replayed
<1>4. /\ applied' = Restored.data \cup Replayed
      /\ names' = Restored.names \cup ({r.name : r \in WalRecs} \ {NoName})
      /\ logged' = names' /\ visible' = counter'
      /\ counter' = Highest(applied' \cup {Restored.lsn})
  BY Zenon DEF Recover
<1>5. applied' \subseteq Lsns
  BY <1>1, <1>3, <1>4, Zenon
<1>6. {r.name : r \in WalRecs} \subseteq Names \cup {NoName}
  BY <1>1, <1>2, Zenon
<1>7. names' \subseteq Names
  BY <1>1, <1>4, <1>6, Zenon
<1>8. applied' \cup {Restored.lsn} \in SUBSET (0 .. MaxLsn)
  <2>1. Lsns \subseteq 0 .. MaxLsn
    BY ConstAssumption DEF Lsns
  <2> QED BY <1>1, <1>5, <2>1, Zenon
<1>9. /\ counter' \in applied' \cup {Restored.lsn}
      /\ \A m \in applied' \cup {Restored.lsn} : m <= counter'
  BY <1>4, <1>8, HighestOf, Zenon
<1>10. counter' \in 0 .. MaxLsn /\ applied' \subseteq 1 .. counter' /\ Restored.lsn <= counter'
  BY <1>5, <1>8, <1>9 DEF Lsns
<1>11. \A l \in applied' : l \in Restored.data \/ \E i \in 1 .. Len(wal) : wal[i].rec = Bundle(l)
  <2>1. \A l \in Replayed : \E i \in 1 .. Len(wal) : l = wal[i].rec.lsn /\ wal[i].rec \in Records
    BY <1>1, Zenon DEF Replayed, WalRecs
  <2>2. \A l \in Replayed : l # 0
    BY <1>3, RecordFacts, Zenon
  <2>3. \A l \in Replayed : \E i \in 1 .. Len(wal) : wal[i].rec = Bundle(l)
    BY <1>2, <2>1, <2>2
  <2> QED BY <1>4, <2>3, Zenon
<1>12. \A r \in WalRecs : r.lsn > Restored.lsn => r.lsn \in applied'
  BY <1>4, Zenon DEF Replayed
<1>13. \A r \in WalRecs : r.name \in names' \cup {NoName}
  BY <1>4, Zenon
<1>14. Restored.data \subseteq applied' /\ Restored.names \subseteq names'
  BY <1>4, Zenon
<1> QED BY <1>4, <1>5, <1>7, <1>10, <1>11, <1>12, <1>13, <1>14, Zenon

-----------------------------------------------------------------------------
\* Types and segments.

\* Every step keeps the types; for reclamation it matters that it deletes fsynced
\* records only.
LEMMA TypeStep ==
  ASSUME TypeOK, SegmentInv, [Next]_vars
  PROVE  TypeOK'
<1>1. ASSUME NEW n \in Names, InternPublish(n) PROVE TypeOK'
  BY <1>1, Zenon DEF TypeOK, InternPublish, logVars, ckVars
<1>2. ASSUME NEW n \in Names, InternAppend(n) PROVE TypeOK'
  <2>1. queue' \in Seq(Records)
    BY <1>2, RecordFacts, AppendLog, Zenon DEF InternAppend
  <2> QED BY <1>2, <2>1, Zenon DEF TypeOK, InternAppend, memVars, ckVars
<1>3. ASSUME NEW t \in {"Strict", "Periodic"}, NEW n \in Names \cup {NoName}, Allocate(t, n)
      PROVE  TypeOK'
  <2>1. counter + 1 \in Lsns /\ counter + 1 \in 0 .. MaxLsn
    BY <1>3, ConstAssumption DEF TypeOK, Allocate, Lsns
  <2> QED BY <1>3, <2>1, Zenon DEF TypeOK, Allocate, logVars, ckVars
<1>4. ASSUME NEW l \in Lsns, Enqueue(l) PROVE TypeOK'
  <2>1. queue' \in Seq(Records)
    BY <1>4, RecordFacts, AppendLog, Zenon DEF Enqueue
  <2> QED BY <1>4, <2>1, Zenon DEF TypeOK, Enqueue, ckVars
<1>5. ASSUME NEW l \in Lsns, Publish(l) PROVE TypeOK'
  <2>1. l \in 0 .. MaxLsn
    BY DEF Lsns
  <2> QED BY <1>5, <2>1, Zenon DEF TypeOK, Publish, logVars, ckVars
<1>6. CASE WriteBatch
  <2>1. PICK n \in 1 .. Len(queue), seg \in {segNo, segNo + 1} :
          /\ wal' \in Seq(Entries) /\ Len(wal') = Len(wal) + n
          /\ queue' \in Seq(Records) /\ batch' = {queue[i] : i \in 1 .. n}
          /\ segNo' = seg
          /\ synced' = IF seg = segNo THEN synced ELSE Len(wal)
    BY <1>6, WriteLog, Zenon
  <2>2. synced' \in 0 .. Len(wal') /\ segNo' \in Nat
    <3>1. synced \in 0 .. Len(wal) /\ Len(wal) \in Nat /\ Len(queue) \in Nat
      BY LogType, Zenon
    <3>2. segNo \in Nat
      BY Zenon DEF TypeOK
    <3> QED BY <2>1, <3>1, <3>2
  <2>3. batch' \subseteq Records
    BY <2>1, LogType
  <2>4. wal' \in Seq([rec : Records, seg : Nat])
    BY <2>1, Zenon DEF Entries
  <2>5. UNCHANGED <<up, memVars, ckVars, crashes, acked, orphaned>>
    BY <1>6, Zenon DEF WriteBatch
  <2>6. queue' \in Seq(Records)
    BY <2>1, Zenon
  <2> QED BY <2>2, <2>3, <2>4, <2>5, <2>6, Zenon DEF TypeOK, memVars, ckVars
<1>7. CASE Fsync
  <2>1. Len(wal) \in 0 .. Len(wal)
    BY LogType
  <2> QED BY <1>7, <2>1, Zenon DEF TypeOK, Fsync, ckVars
<1>8. CASE CkCapture
  <2>1. ckTemp' \in Snapshots
    BY <1>8 DEF CkCapture, TypeOK, Snapshots, Lsns
  <2>2. passes' \in 0 .. MaxCheckpoints
    BY <1>8, ConstAssumption DEF CkCapture, TypeOK
  <2> QED BY <1>8, <2>1, <2>2, Zenon DEF TypeOK, CkCapture, memVars, logVars
<1>9. CASE CkRenameSnapshot
  BY <1>9, Zenon DEF TypeOK, CkRenameSnapshot, memVars, logVars
<1>10. CASE CkRenameSidecar
  <2>1. ckTemp.lsn \in Lsns \cup {0, NoLsn}
    BY Zenon DEF TypeOK, Snapshots
  <2> QED BY <1>10, <2>1, Zenon DEF TypeOK, CkRenameSidecar, memVars, logVars
<1>11. CASE CkFail
  BY <1>11, Zenon DEF TypeOK, CkFail, memVars, logVars
<1>12. CASE CkReclaim
  <2>1. wal' \in Seq(Entries) /\ synced' \in 0 .. Len(wal')
    BY <1>12, ReclaimLog, LogType
  <2>2. NamesIn(wal[1].seg) \subseteq Names
    <3>1. \A i \in 1 .. Len(wal) : wal[i].rec.name \in Names \cup {NoName}
      BY LogType, RecordFacts, Zenon
    <3> QED BY <3>1, Zenon DEF NamesIn
  <2> QED BY <1>12, <2>1, <2>2, Zenon DEF TypeOK, Entries, CkReclaim, memVars, ckVars
<1>13. CASE CkDone
  BY <1>13, Zenon DEF TypeOK, CkDone, memVars, logVars
<1>14. CASE Crash
  <2>1. wal' \in Seq(Entries) /\ synced' \in 0 .. Len(wal')
    BY <1>14, CrashLog, LogType
  <2>2. crashes' \in 0 .. MaxCrashes /\ queue' \in Seq(Records)
    BY <1>14, ConstAssumption DEF TypeOK, Crash
  <2>3. wal' \in Seq([rec : Records, seg : Nat])
    BY <2>1, Zenon DEF Entries
  <2>4. /\ UNCHANGED <<memVars, segNo, ckVars, acked, orphaned>>
        /\ up' = FALSE /\ batch' = {}
    BY <1>14, Zenon DEF Crash
  <2>5. synced' \in 0 .. Len(wal') /\ batch' \subseteq Records /\ up' \in BOOLEAN
    BY <2>1, <2>4, Zenon
  <2> QED BY <2>2, <2>3, <2>4, <2>5, Zenon DEF TypeOK, memVars, ckVars
<1>15. CASE Recover
  BY <1>15, RecoverFacts, Zenon DEF TypeOK, Recover, logVars
<1>16. CASE UNCHANGED vars
  BY <1>16, Zenon DEF TypeOK, vars, memVars, logVars, ckVars
<1> QED
  BY <1>1, <1>2, <1>3, <1>4, <1>5, <1>6, <1>7, <1>8, <1>9, <1>10, <1>11, <1>12, <1>13, <1>14,
     <1>15, <1>16, Zenon DEF Next

\* Batches, rotations, reclamation and crashes keep the segments in order.
LEMMA SegmentStep ==
  ASSUME TypeOK, SegmentInv, [Next]_vars
  PROVE  SegmentInv'
<1>0. /\ Len(wal) \in Nat /\ Len(queue) \in Nat /\ segNo \in Nat /\ synced \in 0 .. Len(wal)
      /\ \A i \in 1 .. Len(wal) : wal[i].seg \in Nat
  BY LogType, Zenon DEF TypeOK
<1>1. CASE UNCHANGED <<wal, synced, segNo, batch>>
  BY <1>1, Zenon DEF SegmentInv
<1>2. CASE WriteBatch
  <2>1. PICK n \in 1 .. Len(queue), seg \in {segNo, segNo + 1} :
          /\ Len(wal') = Len(wal) + n
          /\ \A i \in 1 .. Len(wal) : wal'[i] = wal[i]
          /\ \A i \in 1 .. n : wal'[Len(wal) + i] = [rec |-> queue[i], seg |-> seg]
          /\ batch' = {queue[i] : i \in 1 .. n}
          /\ segNo' = seg
          /\ synced' = IF seg = segNo THEN synced ELSE Len(wal)
    BY <1>2, WriteLog, Zenon
  <2>2. \A i \in 1 .. Len(wal) : wal'[i].seg = wal[i].seg /\ wal[i].seg <= segNo
    BY <2>1, Zenon DEF SegmentInv
  <2>3. ASSUME NEW k \in 1 .. n
        PROVE  wal'[Len(wal) + k].rec = queue[k] /\ wal'[Len(wal) + k].seg = seg
    <3>1. wal'[Len(wal) + k] = [rec |-> queue[k], seg |-> seg]
      BY <2>1, Zenon
    <3> QED BY <3>1
  <2>3a. ASSUME NEW i \in 1 .. Len(wal'), ~ (i \in 1 .. Len(wal)) PROVE wal'[i].seg = seg
    <3>1. i - Len(wal) \in 1 .. n /\ Len(wal) + (i - Len(wal)) = i
      <4>1. Len(wal') = Len(wal) + n /\ n \in Nat
        BY <1>0, <2>1
      <4> QED BY <1>0, <2>3a, <4>1
    <3>2. wal'[Len(wal) + (i - Len(wal))].seg = seg
      BY <2>3, <3>1, Zenon
    <3> QED BY <3>1, <3>2, Zenon
  <2>3b. seg \in Nat /\ segNo <= seg /\ (seg = segNo \/ synced' = Len(wal)) /\ segNo' = seg
        /\ (seg = segNo => synced' = synced)
    BY <1>0, <2>1
  <2>4. ASSUME NEW i \in 1 .. Len(wal'), NEW j \in 1 .. Len(wal'), i <= j
        PROVE  wal'[i].seg <= wal'[j].seg
    <3>1. CASE j \in 1 .. Len(wal)
      <4>1. i \in 1 .. Len(wal)
        BY <1>0, <2>4, <3>1
      <4>2. wal[i].seg <= wal[j].seg
        BY <2>4, <3>1, <4>1, Zenon DEF SegmentInv
      <4> QED BY <2>2, <3>1, <4>1, <4>2, Zenon
    <3>2. CASE ~ (j \in 1 .. Len(wal))
      <4>1. wal'[j].seg = seg
        BY <2>3a, <3>2, Zenon
      <4>2. wal'[i].seg <= seg
        <5>1. CASE i \in 1 .. Len(wal)
          BY <1>0, <2>2, <2>3b, <5>1
        <5>2. CASE ~ (i \in 1 .. Len(wal))
          BY <2>3a, <2>3b, <5>2
        <5> QED BY <5>1, <5>2, Zenon
      <4> QED BY <4>1, <4>2, Zenon
    <3> QED BY <3>1, <3>2, Zenon
  <2>5. ASSUME NEW i \in 1 .. Len(wal')
        PROVE  wal'[i].seg <= segNo' /\ (wal'[i].seg < segNo' => i <= synced')
    <3>1. CASE i \in 1 .. Len(wal)
      <4>1. wal[i].seg < segNo => i <= synced
        BY <3>1, Zenon DEF SegmentInv
      <4> QED BY <1>0, <2>2, <2>3b, <3>1, <4>1
    <3>2. CASE ~ (i \in 1 .. Len(wal))
      BY <2>3a, <2>3b, <3>2
    <3> QED BY <3>1, <3>2, Zenon
  <2>6. \A r \in batch' : \E i \in 1 .. Len(wal') : wal'[i].rec = r /\ wal'[i].seg = segNo'
    <3>1. SUFFICES ASSUME NEW k \in 1 .. n
                   PROVE  \E i \in 1 .. Len(wal') : wal'[i].rec = queue[k] /\ wal'[i].seg = segNo'
      BY <2>1
    <3>2. Len(wal) + k \in 1 .. Len(wal')
      BY <1>0, <2>1
    <3>3. wal'[Len(wal) + k].rec = queue[k] /\ wal'[Len(wal) + k].seg = segNo'
      BY <2>3, <2>3b, Zenon
    <3> QED BY <3>2, <3>3, Zenon
  <2> QED BY <2>4, <2>5, <2>6, Zenon DEF SegmentInv
<1>3. CASE Fsync
  <2>1. wal' = wal /\ segNo' = segNo /\ synced' = Len(wal) /\ batch' = {}
    BY <1>3, Zenon DEF Fsync
  <2> QED BY <1>0, <2>1 DEF SegmentInv
<1>4. CASE CkReclaim
  <2>1. PICK n \in 1 .. synced :
          /\ Len(wal') = Len(wal) - n
          /\ \A i \in 1 .. Len(wal) - n : wal'[i] = wal[n + i]
          /\ \A i \in 1 .. n : wal[i].seg < segNo
          /\ synced' = synced - n
    BY <1>4, ReclaimLog, Zenon
  <2>2. segNo' = segNo /\ batch' = batch
    BY <1>4, Zenon DEF CkReclaim
  <2>3. \A i \in 1 .. Len(wal') : n + i \in 1 .. Len(wal) /\ wal'[i] = wal[n + i]
    BY <1>0, <2>1
  <2>4. ASSUME NEW i \in 1 .. Len(wal'), NEW j \in 1 .. Len(wal'), i <= j
        PROVE  wal'[i].seg <= wal'[j].seg
    <3>1. n + i \in 1 .. Len(wal) /\ n + j \in 1 .. Len(wal) /\ n + i <= n + j
      BY <1>0, <2>3, <2>4
    <3>2. wal[n + i].seg <= wal[n + j].seg
      BY <3>1, Zenon DEF SegmentInv
    <3> QED BY <2>3, <3>2, Zenon
  <2>5. ASSUME NEW i \in 1 .. Len(wal')
        PROVE  wal'[i].seg <= segNo' /\ (wal'[i].seg < segNo' => i <= synced')
    <3>1. wal[n + i].seg <= segNo /\ (wal[n + i].seg < segNo => n + i <= synced)
      BY <2>3, Zenon DEF SegmentInv
    <3>2. n + i <= synced => i <= synced'
      BY <1>0, <2>1
    <3> QED BY <2>2, <2>3, <3>1, <3>2, Zenon
  <2>6. ASSUME NEW r \in batch'
        PROVE  \E i \in 1 .. Len(wal') : wal'[i].rec = r /\ wal'[i].seg = segNo'
    <3>1. PICK i \in 1 .. Len(wal) : wal[i].rec = r /\ wal[i].seg = segNo
      BY <2>2, <2>6, Zenon DEF SegmentInv
    <3>2. i - n \in 1 .. Len(wal') /\ n + (i - n) = i
      BY <1>0, <2>1, <3>1
    <3> QED BY <2>1, <2>2, <3>1, <3>2, Zenon
  <2> QED BY <2>4, <2>5, <2>6, Zenon DEF SegmentInv
<1>5. CASE Crash
  <2>1. PICK n \in synced .. Len(wal) :
          Len(wal') = n /\ (\A i \in 1 .. n : wal'[i] = wal[i]) /\ synced' = n
    BY <1>5, CrashLog, Zenon
  <2>2. segNo' = segNo /\ batch' = {}
    BY <1>5, Zenon DEF Crash
  <2>3. n \in Nat /\ \A i \in 1 .. n : i \in 1 .. Len(wal)
    BY <1>0
  <2>4. \A i, j \in 1 .. Len(wal') : i <= j => wal'[i].seg <= wal'[j].seg
    BY <2>1, <2>3, Zenon DEF SegmentInv
  <2>5. \A i \in 1 .. Len(wal') :
          wal'[i].seg <= segNo' /\ (wal'[i].seg < segNo' => i <= synced')
    BY <2>1, <2>2, <2>3 DEF SegmentInv
  <2> QED BY <2>2, <2>4, <2>5, Zenon DEF SegmentInv
<1>6. UNCHANGED <<wal, synced, segNo, batch>> \/ WriteBatch \/ Fsync \/ CkReclaim \/ Crash
  <2>1. ASSUME NEW n \in Names, InternPublish(n) \/ InternAppend(n)
        PROVE  UNCHANGED <<wal, synced, segNo, batch>>
    BY <2>1, Zenon DEF InternPublish, InternAppend, logVars
  <2>2. ASSUME NEW t, NEW n, Allocate(t, n) PROVE UNCHANGED <<wal, synced, segNo, batch>>
    BY <2>2, Zenon DEF Allocate, logVars
  <2>3. ASSUME NEW l \in Lsns, Enqueue(l) \/ Publish(l) PROVE UNCHANGED <<wal, synced, segNo, batch>>
    BY <2>3, Zenon DEF Enqueue, Publish, logVars
  <2>4. ASSUME CkCapture \/ CkRenameSnapshot \/ CkRenameSidecar \/ CkFail \/ CkDone \/ Recover
        PROVE  UNCHANGED <<wal, synced, segNo, batch>>
    BY <2>4, Zenon DEF CkCapture, CkRenameSnapshot, CkRenameSidecar, CkFail, CkDone, Recover,
       logVars
  <2>5. ASSUME UNCHANGED vars PROVE UNCHANGED <<wal, synced, segNo, batch>>
    BY <2>5, Zenon DEF vars, logVars
  <2> QED BY <2>1, <2>2, <2>3, <2>4, <2>5, Zenon DEF Next
<1> QED BY <1>1, <1>2, <1>3, <1>4, <1>5, <1>6, Zenon

\* The initial state has its types.
LEMMA TypeInit ==
  ASSUME Init
  PROVE  TypeOK /\ SegmentInv
<1>1. NoSnap \in Snapshots /\ <<>> \in Seq(Records) /\ <<>> \in Seq([rec : Records, seg : Nat])
      /\ Len(<<>>) = 0
  BY DEF NoSnap, Snapshots
<1>2. TypeOK
  BY <1>1, ConstAssumption DEF Init, TypeOK
<1>3. SegmentInv
  BY <1>1 DEF Init, SegmentInv
<1> QED BY <1>2, <1>3, Zenon

\* The state keeps its shape, and the fsynced length stays within the WAL
\* although reclamation shortens it.
THEOREM CkTypeCorrect == Spec => []TypeOK
<1>1. Init => TypeOK /\ SegmentInv
  BY TypeInit, Zenon
<1>2. TypeOK /\ SegmentInv /\ [Next]_vars => (TypeOK /\ SegmentInv)'
  BY TypeStep, SegmentStep, Zenon
<1> QED BY <1>1, <1>2, PTL DEF Spec

-----------------------------------------------------------------------------
\* A checkpoint and the log, step by step.

\* What a checkpoint holds is a matter of its commits and its names.
LEMMA HasFacts ==
  ASSUME NEW b \in Snapshots
  PROVE  /\ \A l \in Lsns : Bundle(l) \in Has(b) <=> l \in b.data
         /\ \A n \in Names : Intern(n) \in Has(b) <=> n \in b.names \cup orphaned
<1>1. \A l, m \in Lsns : Bundle(l) = Bundle(m) => l = m
  BY RecordFacts
<1>2. \A n, m : Intern(n) = Intern(m) => n = m
  <2>1. \A n : Intern(n).name = n
    BY Zenon DEF Intern
  <2> QED BY <2>1
<1>3. \A l \in Lsns : \A n : Bundle(l) # Intern(n)
  <2>1. \A n : Intern(n).lsn = 0
    BY Zenon DEF Intern
  <2>2. \A l \in Lsns : Bundle(l).lsn = l /\ l # 0
    BY RecordFacts, Zenon
  <2> QED BY <2>1, <2>2, Zenon
<1>4. b.data \subseteq Lsns /\ b.names \subseteq Names
  BY Zenon DEF Snapshots
<1>5. \A l \in Lsns : Bundle(l) \in Has(b) <=> l \in b.data
  BY <1>1, <1>3, <1>4, Zenon DEF Has
<1>6. \A n \in Names : Intern(n) \in Has(b) <=> n \in b.names \cup orphaned
  BY <1>2, <1>3, <1>4, Zenon DEF Has
<1> QED BY <1>5, <1>6, Zenon

\* What a commit needs: the commits it saw and its name.
LEMMA NeedsWithin ==
  ASSUME NEW l, NEW S,
         \A m \in seen[l] : Bundle(m) \in S,
         uses[l] # NoName => Intern(uses[l]) \in S
  PROVE  Needs(l) \subseteq S
BY Zenon DEF Needs

\* A log that only grows keeps b sufficient when what is added needs no more.
LEMMA LogGrows ==
  ASSUME NEW b, LogInv(b), Has(b)' = Has(b),
         LogLen \in Nat, LogLen' \in Nat, LogLen <= LogLen',
         \A i \in 1 .. LogLen : Log'[i] = Log[i],
         SyncedRecs \subseteq SyncedRecs',
         \A l \in b.data : Needs(l)' = Needs(l),
         \A l \in Lsns : Bundle(l) \in LogRecs => Needs(l)' = Needs(l),
         \A l \in acked' : l \in acked \/ Bundle(l) \in Has(b) \cup SyncedRecs',
         \A l \in Lsns, j \in LogLen + 1 .. LogLen' :
           Log'[j] = Bundle(l) => ~ (l <= b.lsn) /\ Needs(l)' \subseteq Has(b) \cup LogRecs
  PROVE  LogInv(b)' /\ LogRecs \subseteq LogRecs'
<1>1. \A i \in 1 .. LogLen : i \in 1 .. LogLen' /\ Log'[i] = Log[i]
  OBVIOUS
<1>2. LogRecs \subseteq LogRecs'
  BY <1>1, Zenon DEF LogRecs
<1>3. \A l \in acked' : Bundle(l) \in Has(b)' \cup SyncedRecs'
  BY Zenon DEF LogInv
<1>4. ASSUME NEW l \in Lsns, l <= b.lsn, Bundle(l) \in LogRecs' PROVE Bundle(l) \in Has(b)'
  <2>1. PICK j \in 1 .. LogLen' : Log'[j] = Bundle(l)
    BY <1>4, Zenon DEF LogRecs
  <2>2. j \in 1 .. LogLen
    BY <1>4, <2>1
  <2>3. Bundle(l) \in LogRecs
    BY <1>1, <2>1, <2>2, Zenon DEF LogRecs
  <2> QED BY <1>4, <2>3, Zenon DEF LogInv
<1>5. ASSUME NEW l \in Lsns, NEW j \in 1 .. LogLen', Log'[j] = Bundle(l)
      PROVE  Needs(l)' \subseteq Has(b)' \cup {Log'[i] : i \in 1 .. j - 1}
  <2>1. CASE j \in 1 .. LogLen
    <3>1. Log[j] = Bundle(l) /\ Bundle(l) \in LogRecs
      BY <1>1, <1>5, <2>1, Zenon DEF LogRecs
    <3>2. Needs(l) \subseteq Has(b) \cup {Log[i] : i \in 1 .. j - 1}
      BY <2>1, <3>1, Zenon DEF LogInv
    <3>3. \A i \in 1 .. j - 1 : Log'[i] = Log[i]
      BY <1>1, <2>1
    <3> QED BY <3>1, <3>2, <3>3, Zenon
  <2>2. CASE j \notin 1 .. LogLen
    <3>1. j \in LogLen + 1 .. LogLen'
      BY <2>2
    <3>2. \A i \in 1 .. LogLen : i \in 1 .. j - 1 /\ Log'[i] = Log[i]
      BY <1>1, <3>1
    <3>3. LogRecs \subseteq {Log'[i] : i \in 1 .. j - 1}
      BY <3>2, Zenon DEF LogRecs
    <3>4. Needs(l)' \subseteq Has(b) \cup LogRecs
      BY <1>5, <3>1, Zenon
    <3> QED BY <3>3, <3>4, Zenon
  <2> QED BY <2>1, <2>2, Zenon
<1>6. \A l \in b.data : Needs(l)' \subseteq Has(b)'
  BY Zenon DEF LogInv
<1>7. LogInv(b)'
  BY <1>3, <1>4, <1>5, <1>6, Zenon DEF LogInv
<1> QED BY <1>2, <1>7, Zenon

\* The same when the step appends nothing.
LEMMA LogStays ==
  ASSUME NEW b, LogInv(b), Has(b)' = Has(b), LogLen' = LogLen, Log' = Log,
         SyncedRecs \subseteq SyncedRecs',
         \A l \in b.data : Needs(l)' = Needs(l),
         \A l \in Lsns : Bundle(l) \in LogRecs => Needs(l)' = Needs(l),
         \A l \in acked' : l \in acked \/ Bundle(l) \in Has(b) \cup SyncedRecs'
  PROVE  LogInv(b)'
<1>1. LogRecs' = LogRecs
  BY Zenon DEF LogRecs
<1>2. \A l \in acked' : Bundle(l) \in Has(b)' \cup SyncedRecs'
  BY Zenon DEF LogInv
<1>3. \A l \in Lsns : l <= b.lsn /\ Bundle(l) \in LogRecs' => Bundle(l) \in Has(b)'
  BY <1>1, Zenon DEF LogInv
<1>4. ASSUME NEW l \in Lsns, NEW j \in 1 .. LogLen, Log[j] = Bundle(l)
      PROVE  Needs(l)' \subseteq Has(b)' \cup {Log'[i] : i \in 1 .. j - 1}
  <2>1. Bundle(l) \in LogRecs
    BY <1>4, Zenon DEF LogRecs
  <2>2. Needs(l) \subseteq Has(b) \cup {Log[i] : i \in 1 .. j - 1}
    BY <1>4, Zenon DEF LogInv
  <2> QED BY <2>1, <2>2, Zenon
<1>5. \A l \in b.data : Needs(l)' \subseteq Has(b)'
  BY Zenon DEF LogInv
<1> QED BY <1>2, <1>3, <1>4, <1>5, Zenon DEF LogInv

\* A step that leaves the log, the commits and the acknowledgements alone.
LEMMA CoverSame ==
  ASSUME NEW b, UNCHANGED <<counter, applied, logged, stage, tier, uses, seen, queue, wal,
                            synced, acked, orphaned>>
  PROVE  (LogInv(b) => LogInv(b)') /\ (LiveInv(b) => LiveInv(b)')
<1>1. LogLen' = LogLen /\ Log' = Log /\ LogRecs' = LogRecs /\ SyncedRecs' = SyncedRecs
  BY Zenon DEF LogLen, Log, LogRecs, SyncedRecs
<1>2. Has(b)' = Has(b) /\ InFlight' = InFlight
  BY Zenon DEF Has, InFlight
<1>3. \A l : Needs(l)' = Needs(l)
  BY Zenon DEF Needs
<1>4. LogInv(b) => LogInv(b)'
  BY <1>1, <1>2, <1>3 DEF LogInv
<1>5. LiveInv(b) => LiveInv(b)'
  BY <1>1, <1>2, <1>3, Zenon DEF LiveInv
<1> QED BY <1>4, <1>5, Zenon

\* An intern record needs nothing.
LEMMA CoverIntern ==
  ASSUME TypeOK, NEW n \in Names, InternAppend(n), NEW b, LogInv(b), LiveInv(b)
  PROVE  LogInv(b)' /\ LiveInv(b)'
<1>1. /\ UNCHANGED <<counter, applied, logged, stage, tier, uses, seen, wal, synced, acked, orphaned>>
      /\ queue' = Append(queue, Intern(n))
  BY Zenon DEF InternAppend, memVars
<1>2. Intern(n) \in Records
  BY RecordFacts, Zenon
<1>3. /\ LogLen' = LogLen + 1 /\ Log'[LogLen + 1] = Intern(n)
      /\ \A i \in 1 .. LogLen : Log'[i] = Log[i]
      /\ LogRecs' = LogRecs \cup {Intern(n)}
  BY <1>1, <1>2, AppendLog, Zenon
<1>4. /\ LogLen \in Nat /\ synced \in 0 .. LogLen
  BY LogType DEF LogLen
<1>5. SyncedRecs' = SyncedRecs
  BY <1>1, <1>3, <1>4 DEF SyncedRecs
<1>6. Has(b)' = Has(b) /\ InFlight' = InFlight
  BY <1>1, Zenon DEF Has, InFlight
<1>7. \A l : Needs(l)' = Needs(l)
  BY <1>1, Zenon DEF Needs
<1>8. \A l \in Lsns, j \in LogLen + 1 .. LogLen' : Log'[j] # Bundle(l)
  <2>1. \A l \in Lsns : Intern(n) # Bundle(l)
    BY RecordFacts
  <2> QED BY <1>3, <1>4, <2>1
<1>9. LogInv(b)'
  <2>1. LogLen' \in Nat /\ LogLen <= LogLen'
    BY <1>3, <1>4
  <2>2. acked' = acked /\ SyncedRecs \subseteq SyncedRecs'
    BY <1>1, <1>5, Zenon
  <2> QED BY <1>3, <1>4, <1>6, <1>7, <1>8, <2>1, <2>2, LogGrows, Zenon
<1>10. LiveInv(b)'
  BY <1>1, <1>3, <1>5, <1>6, <1>7, Zenon DEF LiveInv
<1> QED BY <1>9, <1>10, Zenon

\* A new commit saw what is applied, and its name is proven durable.
LEMMA CoverAllocate ==
  ASSUME TypeOK, MemoryInv, NEW t \in {"Strict", "Periodic"}, NEW n \in Names \cup {NoName},
         Allocate(t, n), NEW b \in Snapshots, LogInv(b), LiveInv(b)
  PROVE  LogInv(b)' /\ LiveInv(b)'
<1>0. PICK new \in Lsns : new = counter + 1
  <2>1. counter \in 0 .. MaxLsn /\ counter < MaxLsn /\ MaxLsn \in Nat
    BY ConstAssumption, Zenon DEF Allocate, TypeOK
  <2> QED BY <2>1 DEF Lsns
<1>1. /\ UNCHANGED <<applied, logged, queue, wal, synced, acked, orphaned>>
      /\ n = NoName \/ n \in logged
      /\ counter' = new
      /\ stage' = [stage EXCEPT ![new] = "allocated"]
      /\ tier' = [tier EXCEPT ![new] = t]
      /\ uses' = [uses EXCEPT ![new] = n]
      /\ seen' = [seen EXCEPT ![new] = applied]
  BY <1>0, Zenon DEF Allocate, logVars
<1>2. /\ counter \in Nat /\ b.lsn \in Int /\ Lsns \subseteq Nat
      /\ stage \in [Lsns -> {"none", "allocated", "waiting", "durable", "done"}]
      /\ DOMAIN tier = Lsns /\ DOMAIN uses = Lsns /\ DOMAIN seen = Lsns
  BY DEF TypeOK, Snapshots, Lsns, NoLsn
<1>3. stage'[new] = "allocated" /\ uses'[new] = n /\ seen'[new] = applied
  BY <1>1, <1>2, Zenon
<1>4. \A l : l # new => /\ stage'[l] = stage[l] /\ uses'[l] = uses[l] /\ seen'[l] = seen[l]
                        /\ tier'[l] = tier[l]
  BY <1>1, <1>2
<1>5. LogLen' = LogLen /\ Log' = Log /\ LogRecs' = LogRecs /\ SyncedRecs' = SyncedRecs
  BY <1>1, Zenon DEF LogLen, Log, LogRecs, SyncedRecs
<1>6. Has(b)' = Has(b)
  BY <1>1, Zenon DEF Has
<1>7. InFlight' = InFlight \cup {new}
  BY <1>1, <1>3, <1>4, Zenon DEF InFlight
<1>8. \A l : l # new => Needs(l)' = Needs(l)
  BY <1>4, Zenon DEF Needs
<1>9. Needs(new)' \subseteq Has(b) \cup LogRecs
  <2>1. \A m \in applied : Bundle(m) \in Has(b) \cup LogRecs
    BY Zenon DEF LiveInv
  <2>2. n # NoName => Intern(n) \in Has(b) \cup LogRecs
    BY <1>1, Zenon DEF LiveInv
  <2>3. Needs(new)' = {Bundle(m) : m \in seen'[new]} \cup {Intern(k) : k \in {uses'[new]} \ {NoName}}
    BY Zenon DEF Needs
  <2> QED BY <1>3, <2>1, <2>2, <2>3, Zenon
<1>10. b.data \subseteq 1 .. counter /\ b.lsn <= counter
  BY Zenon DEF LiveInv
<1>11. \A l \in Lsns : Bundle(l) \in LogRecs => l # new
  BY <1>0, <1>2 DEF MemoryInv
<1>12. LogLen \in Nat
  BY LogType, Zenon
<1>13. new \notin b.data
  BY <1>0, <1>2, <1>10
<1>14. LogInv(b)'
  <2>1. \A l \in b.data : Needs(l)' = Needs(l)
    BY <1>8, <1>13, Zenon
  <2>2. \A l \in Lsns : Bundle(l) \in LogRecs => Needs(l)' = Needs(l)
    BY <1>8, <1>11, Zenon
  <2>3. acked' = acked /\ SyncedRecs \subseteq SyncedRecs'
    BY <1>1, <1>5, Zenon
  <2> QED BY <1>5, <1>6, <2>1, <2>2, <2>3, LogStays, Zenon
<1>15. LiveInv(b)'
  <2>1. (b.lsn <= counter /\ b.data \subseteq 1 .. counter)'
    BY <1>0, <1>1, <1>2, <1>10
  <2>2. \A l \in InFlight' : b.lsn < l /\ Needs(l)' \subseteq Has(b) \cup LogRecs
    <3>1. b.lsn < new
      BY <1>0, <1>2, <1>10
    <3>2. new \notin InFlight
      BY <1>0, <1>2 DEF MemoryInv, InFlight
    <3>3. \A l \in InFlight : b.lsn < l /\ Needs(l) \subseteq Has(b) \cup LogRecs
      BY Zenon DEF LiveInv
    <3> QED BY <1>7, <1>8, <1>9, <3>1, <3>2, <3>3, Zenon
  <2>3. \A l \in Lsns : stage'[l] = "durable" =>
          Bundle(l) \in Has(b) \cup (IF tier'[l] = "Strict" THEN SyncedRecs ELSE LogRecs)
    BY <1>3, <1>4, Zenon DEF LiveInv
  <2> QED BY <1>1, <1>5, <1>6, <2>1, <2>2, <2>3, Zenon DEF LiveInv
<1> QED BY <1>14, <1>15, Zenon

\* A commit that reaches the log follows everything it needs.
LEMMA CoverEnqueue ==
  ASSUME TypeOK, NEW l \in Lsns, Enqueue(l), NEW b \in Snapshots, LogInv(b), LiveInv(b)
  PROVE  LogInv(b)' /\ LiveInv(b)'
<1>1. /\ UNCHANGED <<counter, applied, logged, tier, uses, seen, wal, synced, acked, orphaned>>
      /\ queue' = Append(queue, Bundle(l)) /\ stage[l] = "allocated"
      /\ stage' = [stage EXCEPT ![l] = IF tier[l] = "Strict" THEN "waiting" ELSE "durable"]
  BY Zenon DEF Enqueue
<1>2. Bundle(l) \in Records /\ Lsns \subseteq Nat /\ b.lsn \in Int
  BY RecordFacts DEF Snapshots, Lsns, NoLsn
<1>3. /\ LogLen' = LogLen + 1 /\ Log'[LogLen + 1] = Bundle(l)
      /\ \A i \in 1 .. LogLen : Log'[i] = Log[i]
      /\ LogRecs' = LogRecs \cup {Bundle(l)}
  BY <1>1, <1>2, AppendLog, Zenon
<1>4. /\ LogLen \in Nat /\ synced \in 0 .. LogLen
  BY LogType DEF LogLen
<1>5. SyncedRecs' = SyncedRecs
  BY <1>1, <1>3, <1>4 DEF SyncedRecs
<1>6. Has(b)' = Has(b)
  BY <1>1, Zenon DEF Has
<1>7. \A m : Needs(m)' = Needs(m)
  BY <1>1, Zenon DEF Needs
<1>8. /\ stage'[l] = IF tier[l] = "Strict" THEN "waiting" ELSE "durable"
      /\ \A m : m # l => stage'[m] = stage[m]
  BY <1>1 DEF TypeOK
<1>9. InFlight' = InFlight /\ l \in InFlight
  BY <1>1, <1>8, Zenon DEF InFlight
<1>10. b.lsn < l /\ Needs(l) \subseteq Has(b) \cup LogRecs
  BY <1>9, Zenon DEF LiveInv
<1>11. \A m \in Lsns, j \in LogLen + 1 .. LogLen' :
         Log'[j] = Bundle(m) => ~ (m <= b.lsn) /\ Needs(m)' \subseteq Has(b) \cup LogRecs
  <2>1. \A m \in Lsns : Bundle(l) = Bundle(m) => m = l
    BY RecordFacts
  <2>2. \A j \in LogLen + 1 .. LogLen' : Log'[j] = Bundle(l)
    BY <1>3, <1>4
  <2>3. ~ (l <= b.lsn)
    BY <1>2, <1>10
  <2> QED BY <1>7, <1>10, <2>1, <2>2, <2>3, Zenon
<1>12. LogInv(b)'
  <2>1. LogLen' \in Nat /\ LogLen <= LogLen'
    BY <1>3, <1>4
  <2>2. acked' = acked /\ SyncedRecs \subseteq SyncedRecs'
    BY <1>1, <1>5, Zenon
  <2> QED BY <1>3, <1>4, <1>6, <1>7, <1>11, <2>1, <2>2, LogGrows, Zenon
<1>13. LiveInv(b)'
  <2>1. \A m \in InFlight' : b.lsn < m /\ Needs(m)' \subseteq Has(b)' \cup LogRecs'
    BY <1>3, <1>6, <1>7, <1>9, Zenon DEF LiveInv
  <2>2. ASSUME NEW m \in Lsns, stage'[m] = "durable"
        PROVE  Bundle(m) \in Has(b)' \cup (IF tier'[m] = "Strict" THEN SyncedRecs' ELSE LogRecs')
    <3>1. CASE m = l
      BY <1>1, <1>3, <1>8, <2>2, <3>1
    <3>2. CASE m # l
      BY <1>1, <1>3, <1>5, <1>6, <1>8, <2>2, <3>2, Zenon DEF LiveInv
    <3> QED BY <3>1, <3>2, Zenon
  <2> QED BY <1>1, <1>3, <1>6, <2>1, <2>2, Zenon DEF LiveInv
<1> QED BY <1>12, <1>13, Zenon

\* A commit that is published is in the log, fsynced when it is Strict.
LEMMA CoverPublish ==
  ASSUME TypeOK, NEW l \in Lsns, Publish(l), NEW b \in Snapshots, LogInv(b), LiveInv(b)
  PROVE  LogInv(b)' /\ LiveInv(b)'
<1>1. /\ UNCHANGED <<counter, logged, tier, uses, seen, queue, wal, synced, orphaned>>
      /\ stage[l] = "durable" /\ stage' = [stage EXCEPT ![l] = "done"]
      /\ applied' = applied \cup {l}
      /\ acked' = IF tier[l] = "Strict" THEN acked \cup {l} ELSE acked
  BY Zenon DEF Publish, logVars
<1>2. LogLen' = LogLen /\ Log' = Log /\ LogRecs' = LogRecs /\ SyncedRecs' = SyncedRecs
  BY <1>1, Zenon DEF LogLen, Log, LogRecs, SyncedRecs
<1>3. Has(b)' = Has(b)
  BY <1>1, Zenon DEF Has
<1>4. \A m : Needs(m)' = Needs(m)
  BY <1>1, Zenon DEF Needs
<1>5. stage'[l] = "done" /\ \A m : m # l => stage'[m] = stage[m]
  BY <1>1 DEF TypeOK
<1>6. InFlight' \subseteq InFlight
  BY <1>5, Zenon DEF InFlight
<1>7. /\ Bundle(l) \in Has(b) \cup (IF tier[l] = "Strict" THEN SyncedRecs ELSE LogRecs)
      /\ SyncedRecs \subseteq LogRecs /\ LogLen \in Nat
  BY <1>1, LogType, Zenon DEF LiveInv
<1>8. \A m \in acked' : m \in acked \/ Bundle(m) \in Has(b) \cup SyncedRecs'
  BY <1>1, <1>2, <1>7, Zenon
<1>9. LogInv(b)'
  BY <1>2, <1>3, <1>4, <1>8, LogStays, Zenon
<1>10. LiveInv(b)'
  <2>1. \A m \in applied' : Bundle(m) \in Has(b) \cup LogRecs
    BY <1>1, <1>7, Zenon DEF LiveInv
  <2>2. \A m \in Lsns : stage'[m] = "durable" =>
          Bundle(m) \in Has(b) \cup (IF tier[m] = "Strict" THEN SyncedRecs ELSE LogRecs)
    BY <1>5, Zenon DEF LiveInv
  <2> QED BY <1>1, <1>2, <1>3, <1>4, <1>6, <2>1, <2>2, Zenon DEF LiveInv
<1> QED BY <1>9, <1>10, Zenon

\* A batch that is written stays in the log; a rotation fsyncs what was there.
LEMMA CoverWrite ==
  ASSUME TypeOK, WriteBatch, NEW b \in Snapshots, LogInv(b), LiveInv(b)
  PROVE  LogInv(b)' /\ LiveInv(b)'
<1>1. UNCHANGED <<counter, applied, logged, stage, tier, uses, seen, acked, orphaned>>
  BY Zenon DEF WriteBatch, memVars
<1>2. LogLen' = LogLen /\ Log' = Log /\ (synced' = synced \/ synced' = Len(wal))
  BY WriteLog, Zenon
<1>3. LogRecs' = LogRecs
  BY <1>2, Zenon DEF LogRecs
<1>4. SyncedRecs \subseteq SyncedRecs'
  <2>1. \A i \in 1 .. synced : i \in 1 .. synced'
    BY <1>2, LogType
  <2> QED BY <1>2, <2>1, Zenon DEF SyncedRecs
<1>5. Has(b)' = Has(b) /\ InFlight' = InFlight
  BY <1>1, Zenon DEF Has, InFlight
<1>6. \A m : Needs(m)' = Needs(m)
  BY <1>1, Zenon DEF Needs
<1>7. LogLen \in Nat
  BY LogType, Zenon
<1>8. LogInv(b)'
  BY <1>1, <1>2, <1>4, <1>5, <1>6, LogStays, Zenon
<1>9. LiveInv(b)'
  BY <1>1, <1>3, <1>4, <1>5, <1>6, Zenon DEF LiveInv
<1> QED BY <1>8, <1>9, Zenon

\* The fsync makes the whole WAL durable before it proves names and commits so.
LEMMA CoverFsync ==
  ASSUME TypeOK, SegmentInv, Fsync, NEW b \in Snapshots, LogInv(b), LiveInv(b)
  PROVE  LogInv(b)' /\ LiveInv(b)'
<1>1. /\ UNCHANGED <<counter, applied, tier, uses, seen, queue, wal, acked, orphaned>>
      /\ synced' = Len(wal)
      /\ stage' = [l \in Lsns |-> IF stage[l] = "waiting" /\ Bundle(l) \in batch
                                  THEN "durable" ELSE stage[l]]
      /\ logged' = logged \cup {n \in names : Intern(n) \in batch}
  BY Zenon DEF Fsync
<1>2. LogLen' = LogLen /\ Log' = Log /\ LogRecs' = LogRecs
  BY <1>1, Zenon DEF LogLen, Log, LogRecs
<1>3. SyncedRecs \subseteq SyncedRecs'
  <2>1. synced' = Len(wal) /\ synced \in 0 .. Len(wal) /\ Len(wal) \in Nat
    BY <1>1, LogType, Zenon
  <2>2. \A i \in 1 .. synced : i \in 1 .. synced'
    BY <2>1
  <2> QED BY <1>2, <2>2, Zenon DEF SyncedRecs
<1>4. batch \subseteq SyncedRecs' /\ SyncedRecs' \subseteq LogRecs
  <2>1. \A i \in 1 .. Len(wal) : Log[i] = wal[i].rec /\ i \in 1 .. LogLen
    BY LogType DEF LogLen
  <2>2. \A r \in batch : \E i \in 1 .. Len(wal) : Log[i] = r
    BY <2>1 DEF SegmentInv
  <2>3. SyncedRecs' = {Log[i] : i \in 1 .. Len(wal)}
    BY <1>1, <1>2, Zenon DEF SyncedRecs
  <2> QED BY <2>1, <2>2, <2>3, Zenon DEF LogRecs
<1>5. Has(b)' = Has(b)
  BY <1>1, Zenon DEF Has
<1>6. \A m : Needs(m)' = Needs(m)
  BY <1>1, Zenon DEF Needs
<1>7. LogLen \in Nat
  BY LogType, Zenon
<1>8. \A l \in Lsns : stage'[l] = stage[l] \/ (stage[l] = "waiting" /\ stage'[l] = "durable" /\ Bundle(l) \in batch)
  BY <1>1, Zenon
<1>9. InFlight' = InFlight
  BY <1>8, Zenon DEF InFlight
<1>10. LogInv(b)'
  BY <1>1, <1>2, <1>3, <1>5, <1>6, LogStays, Zenon
<1>11. LiveInv(b)'
  <2>1. \A l \in Lsns : stage'[l] = "durable" =>
          Bundle(l) \in Has(b) \cup (IF tier[l] = "Strict" THEN SyncedRecs' ELSE LogRecs)
    BY <1>3, <1>4, <1>8, Zenon DEF LiveInv
  <2>2. \A n \in logged' : Intern(n) \in Has(b) \cup LogRecs
    BY <1>1, <1>4, Zenon DEF LiveInv
  <2> QED BY <1>1, <1>2, <1>5, <1>6, <1>9, <2>1, <2>2, Zenon DEF LiveInv
<1> QED BY <1>10, <1>11, Zenon

\* What reclamation deletes, the checkpoint it follows holds.
LEMMA CoverReclaim ==
  ASSUME TypeOK, SegmentInv, CkReclaim, NEW b \in Snapshots, b = ckTemp, LogInv(b), LiveInv(b)
  PROVE  LogInv(b)' /\ LiveInv(b)'
<1>1. /\ UNCHANGED <<counter, applied, logged, stage, tier, uses, seen, acked>>
      /\ orphaned \subseteq orphaned'
  BY Zenon DEF CkReclaim, memVars
<1>2. PICK n \in 1 .. synced :
        /\ \A i \in 1 .. n : Log[i].lsn <= ckTemp.lsn
        /\ \A i \in 1 .. n : Log[i].name \in ckTemp.names \cup orphaned' \cup {NoName}
        /\ synced' = synced - n
        /\ LogLen' = LogLen - n /\ \A i \in 1 .. LogLen - n : Log'[i] = Log[n + i]
  BY ReclaimLog, Zenon
<1>3. /\ LogLen \in Nat /\ synced \in 0 .. LogLen /\ n \in Nat /\ n <= LogLen
      /\ \A i \in 1 .. LogLen : Log[i] \in Records
  <2>1. /\ Len(wal) \in Nat /\ Len(queue) \in Nat /\ synced \in 0 .. Len(wal)
        /\ LogLen = Len(wal) + Len(queue) /\ n \in 1 .. synced
        /\ \A i \in 1 .. LogLen : Log[i] \in Records
    BY <1>2, LogType, Zenon DEF LogLen
  <2>2. LogLen \in Nat /\ synced \in 0 .. LogLen /\ n \in Nat /\ n <= LogLen
    BY <2>1
  <2> QED BY <2>1, <2>2, Zenon
<1>4. Has(b) \subseteq Has(b)'
  BY <1>1, Zenon DEF Has
<1>5. InFlight' = InFlight
  BY <1>1, Zenon DEF InFlight
<1>6. \A m : Needs(m)' = Needs(m)
  BY <1>1, Zenon DEF Needs
<1>7. ASSUME NEW i \in 1 .. n PROVE Log[i] \in Has(b)'
  <2>1. i \in 1 .. LogLen /\ Log[i] \in Records
    BY <1>3
  <2>2. CASE Log[i].lsn \in Lsns /\ Log[i] = Bundle(Log[i].lsn)
    <3>1. Log[i] \in LogRecs
      BY <2>1, Zenon DEF LogRecs
    <3>2. Bundle(Log[i].lsn) \in Has(b)
      BY <1>2, <2>2, <3>1, Zenon DEF LogInv
    <3> QED BY <1>4, <2>2, <3>2, Zenon
  <2>3. CASE Log[i].name \in Names /\ Log[i] = Intern(Log[i].name)
    <3>1. Log[i].name \in b.names \cup orphaned'
      BY <1>2, <2>3, RecordFacts, Zenon
    <3> QED BY <2>3, <3>1, Zenon DEF Has
  <2> QED BY <2>1, <2>2, <2>3, RecordFacts, Zenon
<1>8. \A i \in 1 .. LogLen : Log[i] \in Has(b)' \/ (i - n \in 1 .. LogLen' /\ Log'[i - n] = Log[i])
  <2>1. SUFFICES ASSUME NEW i \in 1 .. LogLen, i \notin 1 .. n
                 PROVE  i - n \in 1 .. LogLen' /\ Log'[i - n] = Log[i]
    BY <1>7, Zenon
  <2>2. i - n \in 1 .. LogLen - n /\ n + (i - n) = i
    BY <1>3, <2>1
  <2> QED BY <1>2, <2>2, Zenon
<1>9. LogRecs \subseteq Has(b)' \cup LogRecs' /\ LogRecs' \subseteq LogRecs
  <2>1. \A i \in 1 .. LogLen' : n + i \in 1 .. LogLen /\ Log'[i] = Log[n + i]
    BY <1>2, <1>3
  <2> QED BY <1>8, <2>1 DEF LogRecs
<1>10. SyncedRecs \subseteq Has(b)' \cup SyncedRecs'
  <2>1. \A i \in 1 .. synced : i \in 1 .. LogLen /\ (i - n \in 1 .. LogLen' => i - n \in 1 .. synced')
    BY <1>2, <1>3
  <2> QED BY <1>8, <2>1, Zenon DEF SyncedRecs
<1>11. ASSUME NEW l \in Lsns, NEW j \in 1 .. LogLen', Log'[j] = Bundle(l)
       PROVE  Needs(l) \subseteq Has(b)' \cup {Log'[i] : i \in 1 .. j - 1}
  <2>1. n + j \in 1 .. LogLen /\ Log[n + j] = Bundle(l)
    BY <1>2, <1>3, <1>11
  <2>2. Needs(l) \subseteq Has(b) \cup {Log[i] : i \in 1 .. n + j - 1}
    BY <2>1 DEF LogInv
  <2>3. \A i \in 1 .. n + j - 1 : i \in 1 .. LogLen /\ (i - n \in 1 .. LogLen' => i - n \in 1 .. j - 1)
    BY <1>2, <1>3, <2>1
  <2>4. {Log[i] : i \in 1 .. n + j - 1} \subseteq Has(b)' \cup {Log'[i] : i \in 1 .. j - 1}
    BY <1>8, <2>3, Zenon
  <2> QED BY <1>4, <2>2, <2>4, Zenon
<1>12. LogInv(b)'
  <2>1. \A l \in acked' : Bundle(l) \in Has(b)' \cup SyncedRecs'
    BY <1>1, <1>4, <1>10, Zenon DEF LogInv
  <2>2. \A l \in Lsns : l <= b.lsn /\ Bundle(l) \in LogRecs' => Bundle(l) \in Has(b)'
    BY <1>4, <1>9, Zenon DEF LogInv
  <2>3. \A l \in b.data : Needs(l)' \subseteq Has(b)'
    BY <1>4, <1>6, Zenon DEF LogInv
  <2> QED BY <1>6, <1>11, <2>1, <2>2, <2>3, Zenon DEF LogInv
<1>13. LiveInv(b)'
  <2>1. \A l \in InFlight : b.lsn < l /\ Needs(l) \subseteq Has(b)' \cup LogRecs'
    BY <1>4, <1>9, Zenon DEF LiveInv
  <2>2. \A l \in Lsns : stage[l] = "durable" =>
          Bundle(l) \in Has(b)' \cup (IF tier[l] = "Strict" THEN SyncedRecs' ELSE LogRecs')
    BY <1>4, <1>9, <1>10, Zenon DEF LiveInv
  <2>3. /\ \A m \in applied : Bundle(m) \in Has(b)' \cup LogRecs'
        /\ \A k \in logged : Intern(k) \in Has(b)' \cup LogRecs'
    BY <1>4, <1>9, Zenon DEF LiveInv
  <2> QED BY <1>1, <1>5, <1>6, <2>1, <2>2, <2>3, Zenon DEF LiveInv
<1> QED BY <1>12, <1>13, Zenon

\* With no commit in flight, what is in memory holds all that the log holds.
LEMMA CoverCapture ==
  ASSUME TypeOK, MemoryInv, CkCapture, NEW b \in Snapshots, b = ckTemp'
  PROVE  b.lsn >= 0 /\ LogInv(b)' /\ LiveInv(b)'
<1>1. /\ UNCHANGED <<counter, applied, logged, stage, tier, uses, seen, queue, wal, synced, acked, orphaned>>
      /\ InFlight = {} /\ b.lsn = visible /\ b.data = applied /\ b.names = names
  BY Zenon DEF CkCapture, memVars, logVars
<1>2. /\ visible \in Nat /\ visible <= counter /\ applied \subseteq 1 .. counter
      /\ applied \subseteq Lsns /\ acked \subseteq applied
      /\ logged \subseteq names /\ names \subseteq Names
  BY DEF TypeOK, MemoryInv
<1>3. /\ \A l \in applied : Bundle(l) \in Has(b)
      /\ \A n \in names \cup orphaned : Intern(n) \in Has(b)
  BY <1>1, Zenon DEF Has
<1>4. \A l \in Lsns : Bundle(l) \in LogRecs => l \in applied
  BY <1>1, Zenon DEF MemoryInv, InFlight
<1>5. ASSUME NEW l \in applied PROVE Needs(l) \subseteq Has(b)
  <2>1. seen[l] \subseteq applied /\ uses[l] \in names \cup orphaned \cup {NoName}
    BY Zenon DEF MemoryInv
  <2> QED BY <1>3, <2>1, NeedsWithin, Zenon
<1>6. LogInv(b)
  <2>1. \A l \in Lsns, j \in 1 .. LogLen : Log[j] = Bundle(l) => Needs(l) \subseteq Has(b)
    BY <1>4, <1>5, Zenon DEF LogRecs
  <2>2. /\ \A l \in acked : Bundle(l) \in Has(b)
        /\ \A l \in Lsns : Bundle(l) \in LogRecs => Bundle(l) \in Has(b)
        /\ \A l \in b.data : Needs(l) \subseteq Has(b)
    BY <1>1, <1>2, <1>3, <1>4, <1>5, Zenon
  <2> QED BY <2>1, <2>2, Zenon DEF LogInv
<1>7. LiveInv(b)
  <2>1. \A l \in Lsns : stage[l] # "durable"
    BY <1>1, Zenon DEF InFlight
  <2> QED BY <1>1, <1>2, <1>3, <2>1, Zenon DEF LiveInv
<1> QED BY <1>1, <1>2, <1>6, <1>7, CoverSame

\* A crash cuts the log, and keeps what was fsynced.
LEMMA CoverCrash ==
  ASSUME TypeOK, Crash, NEW b \in Snapshots, LogInv(b)
  PROVE  LogInv(b)'
<1>1. UNCHANGED <<uses, seen, acked, orphaned>>
  BY Zenon DEF Crash, memVars
<1>2. PICK n \in synced .. Len(wal) :
        synced' = n /\ LogLen' = n /\ \A i \in 1 .. n : Log'[i] = Log[i]
  BY CrashLog, Zenon
<1>3. \A i \in 1 .. n : i \in 1 .. LogLen
  BY LogType DEF LogLen
<1>4. LogRecs' \subseteq LogRecs
  BY <1>2, <1>3, Zenon DEF LogRecs
<1>5. SyncedRecs \subseteq SyncedRecs'
  <2>1. \A i \in 1 .. synced : i \in 1 .. n
    BY <1>2, LogType
  <2> QED BY <1>2, <2>1, Zenon DEF SyncedRecs
<1>6. Has(b)' = Has(b)
  BY <1>1, Zenon DEF Has
<1>7. \A m : Needs(m)' = Needs(m)
  BY <1>1, Zenon DEF Needs
<1>8. ASSUME NEW l \in Lsns, NEW j \in 1 .. LogLen', Log'[j] = Bundle(l)
      PROVE  Needs(l) \subseteq Has(b) \cup {Log'[i] : i \in 1 .. j - 1}
  <2>1. Log[j] = Bundle(l) /\ j \in 1 .. LogLen
    BY <1>2, <1>3, <1>8, Zenon
  <2>2. Needs(l) \subseteq Has(b) \cup {Log[i] : i \in 1 .. j - 1}
    BY <2>1, Zenon DEF LogInv
  <2>3. \A i \in 1 .. j - 1 : i \in 1 .. n
    BY <1>2, LogType
  <2>4. \A i \in 1 .. j - 1 : Log'[i] = Log[i]
    BY <1>2, <2>3, Zenon
  <2> QED BY <2>2, <2>4, Zenon
<1> QED BY <1>1, <1>4, <1>5, <1>6, <1>7, <1>8, Zenon DEF LogInv

\* Recovery brings back what the checkpoint and the log hold, and all of it.
LEMMA CoverRecover ==
  ASSUME TypeOK, Recover, queue = <<>>, synced = Len(wal),
         NEW b \in Snapshots, b = Restored, LogInv(b)
  PROVE  MemoryInv' /\ LogInv(b)' /\ LiveInv(b)'
<1>1. /\ UNCHANGED <<tier, uses, seen, queue, batch, wal, synced, acked, orphaned>>
      /\ stage' = [l \in Lsns |-> IF l <= counter' THEN "done" ELSE "none"]
  BY Zenon DEF Recover, logVars
<1>2. /\ applied' \subseteq Lsns /\ names' \subseteq Names /\ logged' = names'
      /\ counter' \in 0 .. MaxLsn /\ visible' = counter'
      /\ applied' \subseteq 1 .. counter' /\ b.lsn <= counter'
      /\ \A l \in applied' : l \in b.data \/ \E i \in 1 .. Len(wal) : wal[i].rec = Bundle(l)
      /\ b.data \subseteq applied'
      /\ \A r \in WalRecs : r.lsn > b.lsn => r.lsn \in applied'
      /\ b.names \subseteq names'
      /\ \A r \in WalRecs : r.name \in names' \cup {NoName}
      /\ names' = b.names \cup ({r.name : r \in WalRecs} \ {NoName})
  BY RecoverFacts, Zenon DEF Recover
<1>3. /\ LogLen = Len(wal) /\ LogRecs = WalRecs /\ SyncedRecs = LogRecs /\ LogRecs \subseteq Records
      /\ \A i \in 1 .. LogLen : Log[i] = wal[i].rec
  <2>1. Len(queue) = 0 /\ Len(wal) \in Nat /\ LogRecs \subseteq Records
    BY LogType, Zenon
  <2>2. LogLen = Len(wal)
    BY <2>1 DEF LogLen
  <2>3. \A i \in 1 .. LogLen : Log[i] = wal[i].rec
    BY <2>2, LogType, Zenon
  <2> QED BY <2>1, <2>2, <2>3, Zenon DEF LogRecs, WalRecs, SyncedRecs
<1>4. LogLen' = LogLen /\ Log' = Log /\ LogRecs' = LogRecs /\ SyncedRecs' = SyncedRecs
  BY <1>1 DEF LogLen, Log, LogRecs, SyncedRecs
<1>5. Has(b)' = Has(b) /\ \A m : Needs(m)' = Needs(m)
  BY <1>1, Zenon DEF Has, Needs
<1>6. LogInv(b)'
  BY <1>1, <1>4, <1>5 DEF LogInv
<1>7. ASSUME NEW l \in Lsns, Bundle(l) \in Has(b) \cup LogRecs PROVE l \in applied'
  <2>1. CASE Bundle(l) \in Has(b)
    BY <1>2, <2>1, HasFacts, Zenon
  <2>2. CASE Bundle(l) \in LogRecs /\ l <= b.lsn
    BY <1>2, <2>2, HasFacts, Zenon DEF LogInv
  <2>3. CASE Bundle(l) \in LogRecs /\ ~ (l <= b.lsn)
    <3>1. b.lsn \in Int /\ l \in Int /\ Bundle(l).lsn = l
      BY RecordFacts DEF Snapshots, Lsns, NoLsn
    <3> QED BY <1>2, <1>3, <2>3, <3>1
  <2> QED BY <1>7, <2>1, <2>2, <2>3, Zenon
<1>8. ASSUME NEW n \in Names, Intern(n) \in Has(b) \cup LogRecs PROVE n \in names' \cup orphaned
  <2>1. Intern(n).name = n /\ n # NoName
    BY RecordFacts, Zenon
  <2> QED BY <1>2, <1>3, <1>8, <2>1, HasFacts, Zenon
<1>9. ASSUME NEW l \in applied'
      PROVE  Bundle(l) \in Has(b) \cup LogRecs /\ Needs(l) \subseteq Has(b) \cup LogRecs
  <2>0. l \in Lsns
    BY <1>2, Zenon
  <2>1. CASE l \in b.data
    BY <2>0, <2>1, HasFacts, Zenon DEF LogInv
  <2>2. CASE l \notin b.data
    <3>1. PICK j \in 1 .. Len(wal) : wal[j].rec = Bundle(l)
      BY <1>2, <2>2, Zenon
    <3>2. j \in 1 .. LogLen /\ Log[j] = Bundle(l) /\ Bundle(l) \in LogRecs
      BY <1>3, <3>1, Zenon DEF LogRecs
    <3>3. Needs(l) \subseteq Has(b) \cup {Log[i] : i \in 1 .. j - 1}
      BY <2>0, <3>2, Zenon DEF LogInv
    <3>4. {Log[i] : i \in 1 .. j - 1} \subseteq LogRecs
      <4>1. \A i \in 1 .. j - 1 : i \in 1 .. LogLen
        BY <3>2, LogType
      <4> QED BY <4>1, Zenon DEF LogRecs
    <3> QED BY <3>2, <3>3, <3>4, Zenon
  <2> QED BY <2>1, <2>2, Zenon
<1>10. InFlight' = {} /\ \A l \in Lsns : stage'[l] \in {"done", "none"} /\ (stage'[l] = "none" <=> l > counter')
  <2>1. Lsns \subseteq Int /\ counter' \in Int
    BY <1>2 DEF Lsns
  <2> QED BY <1>1, <2>1 DEF InFlight
<1>11. ASSUME NEW l \in applied'
       PROVE  seen[l] \subseteq applied' /\ uses[l] \in names' \cup orphaned \cup {NoName}
  <2>1. l \in Lsns /\ seen[l] \subseteq Lsns /\ uses[l] \in Names \cup {NoName}
    BY <1>2, Zenon DEF TypeOK
  <2>2. /\ \A m \in seen[l] : Bundle(m) \in Needs(l)
        /\ uses[l] # NoName => Intern(uses[l]) \in Needs(l)
    BY Zenon DEF Needs
  <2>3. Needs(l) \subseteq Has(b) \cup LogRecs
    BY <1>9, Zenon
  <2> QED BY <1>7, <1>8, <2>1, <2>2, <2>3, Zenon
<1>12. acked \subseteq applied'
  <2>1. acked \subseteq Lsns
    BY Zenon DEF TypeOK
  <2> QED BY <1>3, <1>7, <2>1, Zenon DEF LogInv
<1>13. MemoryInv'
  <2>1. \A l \in Lsns : Bundle(l) \in LogRecs' => l \in applied'
    BY <1>4, <1>7, Zenon
  <2>2. visible' <= counter'
    BY <1>2
  <2>3. \A l \in Lsns : stage'[l] # "waiting"
    BY <1>10, Zenon
  <2> QED BY <1>1, <1>2, <1>10, <1>11, <1>12, <2>1, <2>2, <2>3, Zenon DEF MemoryInv
<1>14. LiveInv(b)'
  <2>1. \A n \in names' : Intern(n) \in Has(b) \cup LogRecs
    <3>1. ASSUME NEW n \in names', n \notin b.names PROVE Intern(n) \in LogRecs
      <4>1. PICK r \in LogRecs : r.name = n /\ n # NoName
        BY <1>2, <1>3, <3>1, Zenon
      <4> QED BY <1>3, <4>1, RecordFacts, Zenon
    <3> QED BY <1>2, <3>1, HasFacts, Zenon
  <2>2. b.data \subseteq 1 .. counter'
    BY <1>2, Zenon
  <2>3. \A l \in Lsns : stage'[l] # "durable"
    BY <1>10, Zenon
  <2> QED BY <1>2, <1>4, <1>5, <1>9, <1>10, <2>1, <2>2, <2>3, Zenon DEF LiveInv
<1> QED BY <1>6, <1>13, <1>14, Zenon

-----------------------------------------------------------------------------
\* What is in memory, step by step.

\* A commit that is allocated took the next LSN and saw what is applied.
LEMMA MemoryAllocate ==
  ASSUME TypeOK, MemoryInv, NEW t \in {"Strict", "Periodic"}, NEW n \in Names \cup {NoName},
         Allocate(t, n)
  PROVE  MemoryInv'
<1>0. PICK new \in Lsns : new = counter + 1
  <2>1. counter \in 0 .. MaxLsn /\ counter < MaxLsn /\ MaxLsn \in Nat
    BY ConstAssumption, Zenon DEF Allocate, TypeOK
  <2> QED BY <2>1 DEF Lsns
<1>1. /\ UNCHANGED <<visible, applied, names, logged, queue, batch, wal, acked, orphaned>>
      /\ n = NoName \/ n \in logged
      /\ counter' = new
      /\ stage' = [stage EXCEPT ![new] = "allocated"]
      /\ uses' = [uses EXCEPT ![new] = n]
      /\ seen' = [seen EXCEPT ![new] = applied]
  BY <1>0, Zenon DEF Allocate, logVars
<1>2. /\ counter \in Nat /\ visible \in Nat /\ Lsns \subseteq Nat
      /\ stage \in [Lsns -> {"none", "allocated", "waiting", "durable", "done"}]
      /\ DOMAIN uses = Lsns /\ DOMAIN seen = Lsns
  BY DEF TypeOK, Lsns
<1>3. stage'[new] = "allocated" /\ uses'[new] = n /\ seen'[new] = applied
  BY <1>1, <1>2, Zenon
<1>4. \A l : l # new => stage'[l] = stage[l] /\ uses'[l] = uses[l] /\ seen'[l] = seen[l]
  BY <1>1, <1>2
<1>5. LogRecs' = LogRecs /\ InFlight' = InFlight \cup {new}
  BY <1>1, <1>3, <1>4, Zenon DEF LogLen, Log, LogRecs, InFlight
<1>6. new \notin applied
  <2>1. \A l \in applied : l \in 1 .. counter
    BY Zenon DEF MemoryInv
  <2> QED BY <1>0, <1>2, <2>1
<1>7. (visible <= counter /\ applied \subseteq 1 .. counter /\ acked \subseteq applied)'
  <2>1. visible <= counter /\ applied \subseteq 1 .. counter /\ acked \subseteq applied
    BY Zenon DEF MemoryInv
  <2>2. visible' = visible /\ applied' = applied /\ acked' = acked /\ counter' = new
    BY <1>1, Zenon
  <2> QED BY <1>0, <1>2, <2>1, <2>2
<1>8. \A l \in Lsns : stage'[l] = "none" <=> l > counter'
  <2>1. \A l \in Lsns : stage[l] = "none" <=> l > counter
    BY Zenon DEF MemoryInv
  <2>2. counter' = new
    BY <1>1, Zenon
  <2> QED BY <1>0, <1>2, <1>3, <1>4, <2>1, <2>2
<1>9. \A l \in applied' \cup InFlight' : seen'[l] \subseteq applied'
  BY <1>1, <1>3, <1>4, <1>5, Zenon DEF MemoryInv
<1>10. \A l \in applied' : uses'[l] \in names' \cup orphaned' \cup {NoName}
  BY <1>1, <1>4, <1>6, Zenon DEF MemoryInv
<1>11. \A l \in InFlight' : uses'[l] \in logged' \cup {NoName}
  <2>1. \A l \in InFlight : uses[l] \in logged \cup {NoName}
    BY Zenon DEF MemoryInv
  <2>2. logged' = logged /\ n \in logged \cup {NoName}
    BY <1>1, Zenon
  <2> QED BY <1>3, <1>4, <1>5, <2>1, <2>2, Zenon
<1>12. \A l \in Lsns : Bundle(l) \in LogRecs' => l \in applied' \/ stage'[l] \in {"waiting", "durable"}
  <2>1. stage[new] = "none"
    <3>1. \A l \in Lsns : stage[l] = "none" <=> l > counter
      BY Zenon DEF MemoryInv
    <3> QED BY <1>0, <1>2, <3>1
  <2> QED BY <1>1, <1>4, <1>5, <1>6, <2>1, Zenon DEF MemoryInv
<1>13. \A l \in Lsns : stage'[l] = "waiting" =>
         Bundle(l) \in batch' \/ \E i \in 1 .. Len(queue') : queue'[i] = Bundle(l)
  BY <1>1, <1>3, <1>4, Zenon DEF MemoryInv
<1> QED BY <1>7, <1>8, <1>9, <1>10, <1>11, <1>12, <1>13, Zenon DEF MemoryInv

\* A commit that is enqueued is with the writer.
LEMMA MemoryEnqueue ==
  ASSUME TypeOK, MemoryInv, NEW l \in Lsns, Enqueue(l)
  PROVE  MemoryInv'
<1>1. /\ UNCHANGED <<counter, visible, applied, names, logged, uses, seen, batch, wal, acked, orphaned>>
      /\ queue' = Append(queue, Bundle(l)) /\ stage[l] = "allocated"
      /\ stage' = [stage EXCEPT ![l] = IF tier[l] = "Strict" THEN "waiting" ELSE "durable"]
  BY Zenon DEF Enqueue
<1>2. /\ Len(queue') = Len(queue) + 1 /\ Len(queue) \in Nat
      /\ \A i \in 1 .. Len(queue) : queue'[i] = queue[i]
      /\ queue'[Len(queue) + 1] = Bundle(l)
      /\ LogRecs' = LogRecs \cup {Bundle(l)}
  BY <1>1, RecordFacts, AppendLog, LogType, Zenon
<1>3. /\ stage'[l] \in {"waiting", "durable"}
      /\ \A m : m # l => stage'[m] = stage[m]
  BY <1>1 DEF TypeOK
<1>4. InFlight' = InFlight
  BY <1>1, <1>3, Zenon DEF InFlight
<1>5. \A m \in Lsns : Bundle(m) = Bundle(l) => m = l
  BY RecordFacts
<1>6. \A m \in Lsns : stage'[m] = "none" <=> m > counter'
  BY <1>1, <1>3, Zenon DEF MemoryInv
<1>7. \A m \in Lsns : Bundle(m) \in LogRecs' => m \in applied' \/ stage'[m] \in {"waiting", "durable"}
  BY <1>1, <1>2, <1>3, <1>5, Zenon DEF MemoryInv
<1>8. ASSUME NEW m \in Lsns, stage'[m] = "waiting"
      PROVE  Bundle(m) \in batch' \/ \E i \in 1 .. Len(queue') : queue'[i] = Bundle(m)
  <2>1. CASE m = l
    <3>1. Len(queue) + 1 \in 1 .. Len(queue')
      BY <1>2
    <3> QED BY <1>2, <2>1, <3>1, Zenon
  <2>2. CASE m # l
    <3>1. Bundle(m) \in batch \/ \E i \in 1 .. Len(queue) : queue[i] = Bundle(m)
      BY <1>3, <1>8, <2>2, Zenon DEF MemoryInv
    <3>2. \A i \in 1 .. Len(queue) : i \in 1 .. Len(queue')
      BY <1>2
    <3> QED BY <1>1, <1>2, <3>1, <3>2, Zenon
  <2> QED BY <2>1, <2>2, Zenon
<1> QED BY <1>1, <1>4, <1>6, <1>7, <1>8, Zenon DEF MemoryInv

\* A commit that is published joins what is applied.
LEMMA MemoryPublish ==
  ASSUME TypeOK, MemoryInv, NEW l \in Lsns, Publish(l)
  PROVE  MemoryInv'
<1>1. /\ UNCHANGED <<counter, names, logged, uses, seen, queue, batch, wal, orphaned>>
      /\ stage[l] = "durable" /\ stage' = [stage EXCEPT ![l] = "done"]
      /\ visible' = l /\ applied' = applied \cup {l}
      /\ acked' = IF tier[l] = "Strict" THEN acked \cup {l} ELSE acked
  BY Zenon DEF Publish, logVars
<1>2. stage'[l] = "done" /\ \A m : m # l => stage'[m] = stage[m]
  BY <1>1 DEF TypeOK
<1>3. InFlight' \subseteq InFlight /\ l \in InFlight /\ LogRecs' = LogRecs
  BY <1>1, <1>2, Zenon DEF InFlight, LogLen, Log, LogRecs
<1>4. l \in 1 .. counter /\ l <= counter
  <2>1. l \in Nat /\ l >= 1 /\ counter \in Nat
    BY DEF TypeOK, Lsns
  <2>2. ~ (l > counter)
    BY <1>1, Zenon DEF MemoryInv
  <2> QED BY <2>1, <2>2
<1>5. (visible <= counter /\ applied \subseteq 1 .. counter /\ acked \subseteq applied)'
  BY <1>1, <1>4, Zenon DEF MemoryInv
<1>6. \A m \in Lsns : stage'[m] = "none" <=> m > counter'
  BY <1>1, <1>2, Zenon DEF MemoryInv
<1>7. \A m \in applied' \cup InFlight' : seen'[m] \subseteq applied'
  <2>1. \A m \in applied \cup InFlight : seen[m] \subseteq applied
    BY Zenon DEF MemoryInv
  <2> QED BY <1>1, <1>3, <2>1, Zenon
<1>8. \A m \in applied' : uses'[m] \in names' \cup orphaned' \cup {NoName}
  <2>1. uses[l] \in logged \cup {NoName} /\ logged \subseteq names
    BY <1>3, Zenon DEF MemoryInv, TypeOK
  <2> QED BY <1>1, <2>1, Zenon DEF MemoryInv
<1>9. \A m \in InFlight' : uses'[m] \in logged' \cup {NoName}
  BY <1>1, <1>3, Zenon DEF MemoryInv
<1>10. \A m \in Lsns : Bundle(m) \in LogRecs' => m \in applied' \/ stage'[m] \in {"waiting", "durable"}
  BY <1>1, <1>2, <1>3, Zenon DEF MemoryInv
<1>11. \A m \in Lsns : stage'[m] = "waiting" =>
         Bundle(m) \in batch' \/ \E i \in 1 .. Len(queue') : queue'[i] = Bundle(m)
  BY <1>1, <1>2, Zenon DEF MemoryInv
<1> QED BY <1>5, <1>6, <1>7, <1>8, <1>9, <1>10, <1>11, Zenon DEF MemoryInv

\* A batch leaves the queue and awaits its fsync.
LEMMA MemoryWrite ==
  ASSUME TypeOK, MemoryInv, WriteBatch
  PROVE  MemoryInv'
<1>1. UNCHANGED <<counter, visible, applied, names, logged, stage, uses, seen, acked, orphaned>>
      /\ batch = {}
  BY Zenon DEF WriteBatch, memVars
<1>2. PICK n \in 1 .. Len(queue) :
        /\ Len(queue') = Len(queue) - n
        /\ \A i \in 1 .. Len(queue) - n : queue'[i] = queue[n + i]
        /\ batch' = {queue[i] : i \in 1 .. n}
        /\ LogLen' = LogLen /\ Log' = Log
  BY WriteLog, Zenon
<1>3. LogRecs' = LogRecs /\ InFlight' = InFlight /\ Len(queue) \in Nat
  BY <1>1, <1>2, LogType, Zenon DEF LogRecs, InFlight
<1>4. ASSUME NEW l \in Lsns, stage'[l] = "waiting"
      PROVE  Bundle(l) \in batch' \/ \E i \in 1 .. Len(queue') : queue'[i] = Bundle(l)
  <2>1. PICK i \in 1 .. Len(queue) : queue[i] = Bundle(l)
    BY <1>1, <1>4, Zenon DEF MemoryInv
  <2>2. CASE i <= n
    BY <1>2, <2>1, <2>2
  <2>3. CASE ~ (i <= n)
    <3>1. i - n \in 1 .. Len(queue) - n /\ n + (i - n) = i
      BY <1>3, <2>1, <2>3
    <3>2. i - n \in 1 .. Len(queue') /\ queue'[i - n] = queue[i]
      BY <1>2, <3>1, Zenon
    <3> QED BY <2>1, <3>2, Zenon
  <2> QED BY <2>2, <2>3, Zenon
<1> QED BY <1>1, <1>3, <1>4, Zenon DEF MemoryInv

\* The commits of a fsynced batch wait no longer.
LEMMA MemoryFsync ==
  ASSUME TypeOK, MemoryInv, Fsync
  PROVE  MemoryInv'
<1>1. /\ UNCHANGED <<counter, visible, applied, names, uses, seen, queue, wal, acked, orphaned>>
      /\ stage' = [l \in Lsns |-> IF stage[l] = "waiting" /\ Bundle(l) \in batch
                                  THEN "durable" ELSE stage[l]]
      /\ logged \subseteq logged'
  BY Zenon DEF Fsync
<1>2. LogRecs' = LogRecs
  BY <1>1, Zenon DEF LogLen, Log, LogRecs
<1>3. \A l \in Lsns : \/ stage'[l] = stage[l] /\ (stage[l] = "waiting" => Bundle(l) \notin batch)
                      \/ stage[l] = "waiting" /\ stage'[l] = "durable"
  BY <1>1, Zenon
<1>4. InFlight' = InFlight
  BY <1>3, Zenon DEF InFlight
<1>5. \A l \in Lsns : stage'[l] = "none" <=> l > counter'
  BY <1>1, <1>3, Zenon DEF MemoryInv
<1>6. \A l \in InFlight' : uses'[l] \in logged' \cup {NoName}
  BY <1>1, <1>4, Zenon DEF MemoryInv
<1>7. \A l \in Lsns : Bundle(l) \in LogRecs' => l \in applied' \/ stage'[l] \in {"waiting", "durable"}
  BY <1>1, <1>2, <1>3, Zenon DEF MemoryInv
<1>8. \A l \in Lsns : stage'[l] = "waiting" =>
        Bundle(l) \in batch' \/ \E i \in 1 .. Len(queue') : queue'[i] = Bundle(l)
  BY <1>1, <1>3, Zenon DEF MemoryInv
<1> QED BY <1>1, <1>4, <1>5, <1>6, <1>7, <1>8, Zenon DEF MemoryInv

\* A step that leaves the commits alone, and adds to the log intern records only.
LEMMA MemorySame ==
  ASSUME MemoryInv, UNCHANGED <<counter, visible, applied, logged, stage, uses, seen, batch, acked>>,
         names \subseteq names', orphaned \subseteq orphaned',
         \A l \in Lsns : Bundle(l) \in LogRecs' => Bundle(l) \in LogRecs,
         \A i \in 1 .. Len(queue) : i \in 1 .. Len(queue') /\ queue'[i] = queue[i]
  PROVE  MemoryInv'
<1>1. InFlight' = InFlight
  BY Zenon DEF InFlight
<1>2. \A l \in Lsns : stage'[l] = "waiting" =>
        Bundle(l) \in batch' \/ \E i \in 1 .. Len(queue') : queue'[i] = Bundle(l)
  BY Zenon DEF MemoryInv
<1>3. \A l \in Lsns : Bundle(l) \in LogRecs' => l \in applied' \/ stage'[l] \in {"waiting", "durable"}
  BY Zenon DEF MemoryInv
<1>4. \A l \in applied' : uses'[l] \in names' \cup orphaned' \cup {NoName}
  BY Zenon DEF MemoryInv
<1> QED BY <1>1, <1>2, <1>3, <1>4, Zenon DEF MemoryInv

\* Every step of a running process keeps what is in memory consistent.
LEMMA MemoryStep ==
  ASSUME TypeOK, SegmentInv, MemoryInv, [Next]_vars, up, up'
  PROVE  MemoryInv'
<1>0. Len(queue) \in Nat
  BY LogType, Zenon
<1>1. ASSUME NEW n \in Names, InternPublish(n) PROVE MemoryInv'
  <2>1. UNCHANGED <<counter, visible, applied, logged, stage, uses, seen, batch, acked, queue, wal, orphaned>>
        /\ names \subseteq names'
    BY <1>1, Zenon DEF InternPublish, logVars
  <2>2. LogRecs' = LogRecs
    BY <2>1, Zenon DEF LogRecs, Log, LogLen
  <2> QED BY <2>1, <2>2, MemorySame, Zenon
<1>2. ASSUME NEW n \in Names, InternAppend(n) PROVE MemoryInv'
  <2>1. UNCHANGED <<counter, visible, applied, names, logged, stage, uses, seen, batch, acked, wal, orphaned>>
        /\ queue' = Append(queue, Intern(n))
    BY <1>2, Zenon DEF InternAppend, memVars
  <2>2. Intern(n) \in Records /\ \A l \in Lsns : Bundle(l) # Intern(n)
    BY RecordFacts
  <2>3. /\ Len(queue') = Len(queue) + 1 /\ \A i \in 1 .. Len(queue) : queue'[i] = queue[i]
        /\ LogRecs' = LogRecs \cup {Intern(n)}
    BY <2>1, <2>2, AppendLog, Zenon
  <2>4. \A i \in 1 .. Len(queue) : i \in 1 .. Len(queue') /\ queue'[i] = queue[i]
    BY <1>0, <2>3
  <2>5. \A l \in Lsns : Bundle(l) \in LogRecs' => Bundle(l) \in LogRecs
    BY <2>2, <2>3, Zenon
  <2> QED BY <2>1, <2>4, <2>5, MemorySame, Zenon
<1>3. ASSUME NEW t \in {"Strict", "Periodic"}, NEW n \in Names \cup {NoName}, Allocate(t, n)
      PROVE  MemoryInv'
  BY <1>3, MemoryAllocate, Zenon
<1>4. ASSUME NEW l \in Lsns, Enqueue(l) PROVE MemoryInv'
  BY <1>4, MemoryEnqueue, Zenon
<1>5. ASSUME NEW l \in Lsns, Publish(l) PROVE MemoryInv'
  BY <1>5, MemoryPublish, Zenon
<1>6. ASSUME CkCapture \/ CkRenameSnapshot \/ CkRenameSidecar \/ CkFail \/ CkDone \/ UNCHANGED vars
      PROVE  MemoryInv'
  <2>1. UNCHANGED <<counter, visible, applied, names, logged, stage, uses, seen, batch, acked,
                    queue, wal, orphaned>>
    BY <1>6, Zenon DEF CkCapture, CkRenameSnapshot, CkRenameSidecar, CkFail, CkDone, vars,
       memVars, logVars
  <2>2. LogRecs' = LogRecs
    BY <2>1, Zenon DEF LogRecs, Log, LogLen
  <2> QED BY <2>1, <2>2, MemorySame, Zenon
<1>7. CASE CkReclaim
  <2>1. /\ UNCHANGED <<counter, visible, applied, names, logged, stage, uses, seen, batch, acked, queue>>
        /\ orphaned \subseteq orphaned'
    BY <1>7, Zenon DEF CkReclaim, memVars
  <2>2. PICK n \in 1 .. synced : LogLen' = LogLen - n /\ \A i \in 1 .. LogLen - n : Log'[i] = Log[n + i]
    BY <1>7, ReclaimLog, Zenon
  <2>3. \A i \in 1 .. LogLen' : n + i \in 1 .. LogLen /\ Log'[i] = Log[n + i]
    BY <2>2, LogType
  <2>4. LogRecs' \subseteq LogRecs
    BY <2>3, Zenon DEF LogRecs
  <2> QED BY <2>1, <2>4, MemorySame, Zenon
<1>8. ~ Crash /\ ~ Recover
  BY Zenon DEF Crash, Recover
<1> QED BY <1>1, <1>2, <1>3, <1>4, <1>5, <1>6, <1>7, <1>8, MemoryWrite, MemoryFsync, Zenon DEF Next

-----------------------------------------------------------------------------
\* The invariant.

\* While the process stays up, a checkpoint that covers the log keeps doing so;
\* reclamation asks it to be the one the pass wrote.
LEMMA CoverStep ==
  ASSUME TypeOK, SegmentInv, MemoryInv, [Next]_vars, up, up',
         NEW b \in Snapshots, LogInv(b), LiveInv(b), CkReclaim => b = ckTemp
  PROVE  LogInv(b)' /\ LiveInv(b)'
<1>1. ASSUME NEW n \in Names, InternPublish(n) PROVE LogInv(b)' /\ LiveInv(b)'
  <2>1. UNCHANGED <<counter, applied, logged, stage, tier, uses, seen, queue, wal,
                    synced, acked, orphaned>>
    BY <1>1, Zenon DEF InternPublish, logVars
  <2> QED BY <2>1, CoverSame, Zenon
<1>2. ASSUME NEW n \in Names, InternAppend(n) PROVE LogInv(b)' /\ LiveInv(b)'
  BY <1>2, CoverIntern, Zenon
<1>3. ASSUME NEW t \in {"Strict", "Periodic"}, NEW n \in Names \cup {NoName}, Allocate(t, n)
      PROVE  LogInv(b)' /\ LiveInv(b)'
  BY <1>3, CoverAllocate, Zenon
<1>4. ASSUME NEW l \in Lsns, Enqueue(l) PROVE LogInv(b)' /\ LiveInv(b)'
  BY <1>4, CoverEnqueue, Zenon
<1>5. ASSUME NEW l \in Lsns, Publish(l) PROVE LogInv(b)' /\ LiveInv(b)'
  BY <1>5, CoverPublish, Zenon
<1>6. CASE WriteBatch
  BY <1>6, CoverWrite, Zenon
<1>7. CASE Fsync
  BY <1>7, CoverFsync, Zenon
<1>8. CASE CkReclaim
  BY <1>8, CoverReclaim, Zenon
<1>9. ASSUME CkCapture \/ CkRenameSnapshot \/ CkRenameSidecar \/ CkFail \/ CkDone \/ UNCHANGED vars
      PROVE  LogInv(b)' /\ LiveInv(b)'
  <2>1. UNCHANGED <<counter, applied, logged, stage, tier, uses, seen, queue, wal,
                    synced, acked, orphaned>>
    BY <1>9, Zenon DEF CkCapture, CkRenameSnapshot, CkRenameSidecar, CkFail, CkDone, vars, memVars, logVars
  <2> QED BY <2>1, CoverSame, Zenon
<1>10. ~ Crash /\ ~ Recover
  BY Zenon DEF Crash, Recover
<1> QED BY <1>1, <1>2, <1>3, <1>4, <1>5, <1>6, <1>7, <1>8, <1>9, <1>10, Zenon DEF Next

\* Three steps change the files of a checkpoint; the others may end the pass.
LEMMA FilesStep ==
  ASSUME [Next]_vars
  PROVE  \/ CkCapture \/ CkRenameSnapshot \/ CkRenameSidecar
         \/ UNCHANGED <<snapFile, sidecar, ckTemp, passes>> /\ (ckPc' = ckPc \/ ckPc' = "idle")
<1> DEFINE Kept == UNCHANGED <<snapFile, sidecar, ckTemp, passes>> /\ (ckPc' = ckPc \/ ckPc' = "idle")
<1>1. ASSUME NEW n \in Names, InternPublish(n) \/ InternAppend(n) PROVE UNCHANGED ckVars
  BY <1>1, Zenon DEF InternPublish, InternAppend
<1>2. ASSUME NEW t, NEW n, Allocate(t, n) PROVE UNCHANGED ckVars
  BY <1>2, Zenon DEF Allocate
<1>3. ASSUME NEW l \in Lsns, Enqueue(l) \/ Publish(l) PROVE UNCHANGED ckVars
  BY <1>3, Zenon DEF Enqueue, Publish
<1>4. ASSUME WriteBatch \/ Fsync \/ CkReclaim \/ Crash PROVE UNCHANGED ckVars
  BY <1>4, Zenon DEF WriteBatch, Fsync, CkReclaim, Crash
<1>5. ASSUME CkFail \/ CkDone \/ Recover PROVE Kept
  BY <1>5, Zenon DEF CkFail, CkDone, Recover
<1>6. ASSUME UNCHANGED vars PROVE UNCHANGED ckVars
  BY <1>6, Zenon DEF vars
<1>7. UNCHANGED ckVars => Kept
  BY Zenon DEF ckVars
<1> HIDE DEF Kept
<1>8. CkCapture \/ CkRenameSnapshot \/ CkRenameSidecar \/ Kept
  BY <1>1, <1>2, <1>3, <1>4, <1>5, <1>6, <1>7, Zenon DEF Next
<1> QED BY <1>8, Zenon DEF Kept

\* The captured checkpoint stays good until it is renamed into place.
LEMMA PassStep ==
  ASSUME TypeOK, SegmentInv, MemoryInv, PassInv, [Next]_vars, up, up'
  PROVE  PassInv'
<1>0. ckTemp \in Snapshots
  BY Zenon DEF TypeOK
<1>1. ASSUME NEW b \in Snapshots, ckPc # "idle", b = ckTemp
      PROVE  b.lsn >= 0 /\ LogInv(b)' /\ LiveInv(b)'
  <2>1. b.lsn >= 0 /\ LogInv(b) /\ LiveInv(b)
    BY <1>1, Zenon DEF PassInv
  <2> QED BY <1>1, <2>1, CoverStep, Zenon
<1>2. CASE CkCapture
  <2>1. ckPc' = "captured"
    BY <1>2, Zenon DEF CkCapture
  <2>2. \A b \in Snapshots : b = ckTemp' => b.lsn >= 0 /\ LogInv(b)' /\ LiveInv(b)'
    BY <1>2, CoverCapture, Zenon
  <2> QED BY <2>1, <2>2, Zenon DEF PassInv
<1>3. CASE CkRenameSnapshot
  <2>1. ckPc = "captured" /\ ckPc' = "snapped" /\ ckTemp' = ckTemp /\ snapFile' = ckTemp
    BY <1>3, Zenon DEF CkRenameSnapshot
  <2> QED BY <1>1, <2>1, Zenon DEF PassInv
<1>4. CASE CkRenameSidecar
  <2>1. /\ ckPc = "snapped" /\ ckPc' = "reclaim" /\ ckTemp' = ckTemp /\ snapFile' = snapFile
        /\ sidecar' = ckTemp.lsn
    BY <1>4, Zenon DEF CkRenameSidecar
  <2>2. snapFile = ckTemp
    BY <2>1, Zenon DEF PassInv
  <2> QED BY <1>1, <2>1, <2>2, Zenon DEF PassInv
<1>5. ASSUME UNCHANGED <<snapFile, sidecar, ckTemp>>, ckPc' = ckPc \/ ckPc' = "idle"
      PROVE  PassInv'
  BY <1>1, <1>5, Zenon DEF PassInv
<1> QED BY <1>2, <1>3, <1>4, <1>5, FilesStep, Zenon

\* What a recovery would restore stays good, or becomes the captured checkpoint.
LEMMA RestoreStep ==
  ASSUME TypeOK, SegmentInv, MemoryInv, PassInv, RestoreInv, [Next]_vars, up, up'
  PROVE  RestoreInv'
<1> SUFFICES ASSUME NEW b \in Snapshots, b = Restored', Whole'
             PROVE  LogInv(b)' /\ LiveInv(b)'
  BY Zenon DEF RestoreInv
<1>0. ckTemp \in Snapshots /\ Restored \in Snapshots
  BY RestoredType, Zenon DEF TypeOK
<1>1. ASSUME ckPc # "idle", b = ckTemp PROVE LogInv(b)' /\ LiveInv(b)' /\ b.lsn >= 0
  <2>1. b.lsn >= 0 /\ LogInv(b) /\ LiveInv(b)
    BY <1>1, Zenon DEF PassInv
  <2> QED BY <1>1, <2>1, CoverStep, Zenon
<1>2. ASSUME Whole, b = Restored, ~ CkReclaim PROVE LogInv(b)' /\ LiveInv(b)'
  <2>1. LogInv(b) /\ LiveInv(b)
    BY <1>2, Zenon DEF RestoreInv
  <2> QED BY <1>2, <2>1, CoverStep, Zenon
<1>3. ASSUME UNCHANGED <<snapFile, sidecar>> PROVE b = Restored /\ Whole
  BY <1>3, Zenon DEF Restored, Whole
<1>4. CASE CkCapture
  <2>1. UNCHANGED <<snapFile, sidecar>> /\ ~ CkReclaim
    BY <1>4, Zenon DEF CkCapture, CkReclaim
  <2> QED BY <1>2, <1>3, <2>1, Zenon
<1>5. CASE CkRenameSnapshot
  <2>1. ckPc = "captured" /\ snapFile' = ckTemp /\ sidecar' = sidecar /\ ~ CkReclaim
    BY <1>5, Zenon DEF CkRenameSnapshot, CkReclaim
  <2>2. CASE sidecar = NoLsn
    <3>1. b = Restored /\ Whole
      BY <2>1, <2>2, Zenon DEF Restored, Whole
    <3> QED BY <1>2, <2>1, <3>1, Zenon
  <2>3. CASE sidecar # NoLsn
    <3>1. b = ckTemp
      BY <2>1, <2>3, Zenon DEF Restored, Whole
    <3> QED BY <1>1, <2>1, <3>1, Zenon
  <2> QED BY <2>2, <2>3, Zenon
<1>6. CASE CkRenameSidecar
  <2>1. /\ ckPc = "snapped" /\ snapFile' = snapFile /\ sidecar' = ckTemp.lsn /\ snapFile = ckTemp
    BY <1>6, Zenon DEF CkRenameSidecar, PassInv
  <2>2. ckTemp.lsn >= 0
    BY <1>0, <2>1, Zenon DEF PassInv
  <2>3. b = ckTemp
    BY <2>1, <2>2 DEF Restored, NoLsn
  <2> QED BY <1>1, <2>1, <2>3, Zenon
<1>7. CASE CkReclaim
  <2>1. ckPc = "reclaim" /\ snapFile = ckTemp /\ sidecar = ckTemp.lsn /\ UNCHANGED <<snapFile, sidecar>>
    BY <1>7, Zenon DEF CkReclaim, PassInv, ckVars
  <2>2. ckTemp.lsn >= 0
    BY <1>0, <2>1, Zenon DEF PassInv
  <2>3. b = ckTemp
    BY <2>1, <2>2 DEF Restored, NoLsn
  <2> QED BY <1>1, <2>1, <2>3, Zenon
<1>8. CASE UNCHANGED <<snapFile, sidecar>> /\ ~ CkReclaim
  BY <1>2, <1>3, <1>8, Zenon
<1> QED BY <1>4, <1>5, <1>6, <1>7, <1>8, FilesStep, Zenon

\* A crash that leaves the two files belonging together leaves all there is to restore.
LEMMA CrashStep ==
  ASSUME IInv, Crash, Whole'
  PROVE  IInv'
<1>1. up /\ ~ up' /\ queue' = <<>> /\ batch' = {} /\ UNCHANGED <<snapFile, sidecar>>
  BY Zenon DEF Crash, ckVars
<1>2. TypeOK' /\ SegmentInv'
  BY TypeStep, SegmentStep, Zenon DEF IInv, Next
<1>3. Whole /\ Restored' = Restored
  BY <1>1, Zenon DEF Whole, Restored
<1>4. synced' = Len(wal')
  BY CrashLog, Zenon DEF IInv
<1>5. ASSUME NEW b \in Snapshots, b = Restored' PROVE LogInv(b)'
  <2>1. LogInv(b)
    BY <1>1, <1>3, <1>5, Zenon DEF IInv, RestoreInv
  <2> QED BY <2>1, CoverCrash, Zenon DEF IInv
<1> QED BY <1>1, <1>2, <1>4, <1>5, Zenon DEF IInv, RestoreInv

\* Recovery.
LEMMA RecoverStep ==
  ASSUME IInv, Recover
  PROVE  IInv'
<1>1. ~ up /\ up' /\ ckPc' = "idle" /\ UNCHANGED <<snapFile, sidecar>>
  BY Zenon DEF Recover
<1>2. TypeOK' /\ SegmentInv'
  BY TypeStep, SegmentStep, Zenon DEF IInv, Next
<1>3. Restored' = Restored /\ Restored \in Snapshots
  BY <1>1, RestoredType, Zenon DEF IInv, Restored
<1>4. ASSUME NEW b \in Snapshots, b = Restored
      PROVE  MemoryInv' /\ LogInv(b)' /\ LiveInv(b)'
  <2>1. LogInv(b) /\ TypeOK /\ queue = <<>> /\ synced = Len(wal)
    BY <1>1, <1>4, Zenon DEF IInv, RestoreInv
  <2> QED BY <1>4, <2>1, CoverRecover, Zenon
<1>5. MemoryInv'
  BY <1>3, <1>4, Zenon
<1>6. PassInv'
  BY <1>1, Zenon DEF PassInv
<1> QED BY <1>1, <1>2, <1>3, <1>4, <1>5, <1>6, Zenon DEF IInv, RestoreInv

\* Every step preserves the invariant, a crash when it leaves no torn pair.
LEMMA InvStep ==
  ASSUME IInv, [Next]_vars, NoTornPair'
  PROVE  IInv'
<1>0. up' \/ Whole'
  BY Zenon DEF NoTornPair
<1>1. CASE up /\ up'
  <2>1. TypeOK' /\ SegmentInv' /\ MemoryInv' /\ PassInv' /\ RestoreInv'
    BY <1>1, TypeStep, SegmentStep, MemoryStep, PassStep, RestoreStep, Zenon DEF IInv
  <2> QED BY <1>1, <2>1, Zenon DEF IInv
<1>2. CASE up /\ ~ up'
  <2>1. Crash
    BY <1>2, Zenon DEF Next, vars, InternPublish, InternAppend, Allocate, Enqueue, Publish, WriteBatch,
       Fsync, CkCapture, CkRenameSnapshot, CkRenameSidecar, CkFail, CkReclaim, CkDone, Recover
  <2> QED BY <1>0, <1>2, <2>1, CrashStep, Zenon
<1>3. CASE ~ up
  <2>1. Recover \/ UNCHANGED vars
    BY <1>3, Zenon DEF Next, InternPublish, InternAppend, Allocate, Enqueue, Publish, WriteBatch,
       Fsync, CkCapture, CkRenameSnapshot, CkRenameSidecar, CkFail, CkReclaim, CkDone, Crash
  <2>2. CASE UNCHANGED vars
    <3>1. TypeOK' /\ SegmentInv'
      BY TypeStep, SegmentStep, Zenon DEF IInv
    <3>2. UNCHANGED <<up, queue, batch, synced, wal, snapFile, sidecar, counter, applied, logged, stage,
                      tier, uses, seen, acked, orphaned>>
      BY <2>2, Zenon DEF vars, memVars, logVars, ckVars
    <3>3. Restored' = Restored
      BY <3>2, Zenon DEF Restored
    <3>4. ASSUME NEW b \in Snapshots, b = Restored PROVE LogInv(b)'
      <4>1. LogInv(b)
        BY <1>3, <3>4, Zenon DEF IInv, RestoreInv
      <4> QED BY <3>2, <4>1, CoverSame, Zenon
    <3> QED BY <1>3, <3>1, <3>2, <3>3, <3>4, Zenon DEF IInv, RestoreInv
  <2> QED BY <2>1, <2>2, RecoverStep, Zenon
<1> QED BY <1>1, <1>2, <1>3, Zenon

\* The invariant holds initially.
LEMMA InvInit ==
  ASSUME Init
  PROVE  IInv
<1>1. TypeOK /\ SegmentInv
  BY TypeInit, Zenon
<1>2. /\ up /\ counter = 0 /\ visible = 0 /\ applied = {} /\ logged = {} /\ acked = {}
      /\ \A l \in Lsns : stage[l] = "none"
      /\ queue = <<>> /\ wal = <<>> /\ ckPc = "idle" /\ sidecar = NoLsn
  BY Zenon DEF Init
<1>3. LogLen = 0 /\ LogRecs = {} /\ InFlight = {}
  <2>1. Len(wal) = 0 /\ Len(queue) = 0
    BY <1>2, Zenon
  <2>2. LogLen = 0
    BY <2>1 DEF LogLen
  <2> QED BY <1>2, <2>2 DEF LogRecs, InFlight
<1>4. MemoryInv
  BY <1>2, <1>3 DEF MemoryInv, Lsns
<1>5. PassInv
  BY <1>2, Zenon DEF PassInv
<1>6. Restored = [lsn |-> 0, data |-> {}, names |-> {}]
  BY <1>2, Zenon DEF Restored, NoSnap
<1>7. ASSUME NEW b \in Snapshots, b = Restored PROVE LogInv(b) /\ LiveInv(b)
  <2>1. b.lsn = 0 /\ b.data = {}
    BY <1>6, <1>7, Zenon
  <2>2. LogInv(b)
    BY <1>2, <1>3, <2>1 DEF LogInv
  <2>3. LiveInv(b)
    BY <1>2, <1>3, <2>1 DEF LiveInv
  <2> QED BY <2>2, <2>3, Zenon
<1> QED BY <1>1, <1>2, <1>4, <1>5, <1>7, Zenon DEF IInv, RestoreInv

-----------------------------------------------------------------------------
\* The theorems.

\* The invariant holds as long as no crash leaves a torn pair of files.
THEOREM CkInvariance == Spec /\ []NoTornPair => []IInv
<1>1. Init => IInv
  BY InvInit, Zenon
<1>2. IInv /\ [Next]_vars /\ NoTornPair' => IInv'
  BY InvStep, Zenon
<1> QED BY <1>1, <1>2, PTL DEF Spec

\* Every Strict commit acknowledged is there after every restart, whatever the
\* interleaving of batches, rotations, checkpoints, reclamation and crashes,
\* unless a crash leaves a torn pair.
THEOREM StrictIsDurable == Spec /\ []NoTornPair => []StrictDurable
<1>1. IInv => StrictDurable
  BY Zenon DEF IInv, MemoryInv, StrictDurable
<1> QED BY <1>1, CkInvariance, PTL

\* Recovery yields a causally closed state: a commit survives only with all the
\* commits its transaction could see.
THEOREM RecoveryIsCausal == Spec /\ []NoTornPair => []RecoveredCausally
<1>1. IInv => RecoveredCausally
  BY Zenon DEF IInv, MemoryInv, RecoveredCausally
<1> QED BY <1>1, CkInvariance, PTL

\* A name used by a commit resolves after every restart, unless reclamation
\* deleted its record before a checkpoint captured it.
THEOREM KeptNamesAreThere == Spec /\ []NoTornPair => []KeptNamesResolve
<1>1. IInv => KeptNamesResolve
  BY Zenon DEF IInv, MemoryInv, KeptNamesResolve
<1> QED BY <1>1, CkInvariance, PTL
=============================================================================
