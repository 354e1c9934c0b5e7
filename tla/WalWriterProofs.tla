--------------------------- MODULE WalWriterProofs ---------------------------
(***************************************************************************)
(* Proofs about the group-commit WAL writer, for any set of callers, any   *)
(* sizes, budget, batch bound and arriving LSNs.                           *)
(***************************************************************************)
EXTENDS WalWriter, Extrema

\* A leaf that names no prover goes to the SMT solver; the limit is generous, so
\* that a proof does not depend on how busy the machine is.
USE SMTT(60)

Taken == Range(accepted)

\* A caller's command is queued at most once, while it waits and before the
\* writer has taken its record.
QueuedOnce ==
  \A i, j \in 1 .. Len(channel) :
    channel[i] \in Appenders /\ channel[i] = channel[j] => i = j

QueuedWaiting ==
  \A i \in 1 .. Len(channel) : channel[i] \in Appenders =>
    pc[channel[i]] = "wait" /\ channel[i] \notin Taken

QueueInv == QueuedOnce /\ QueuedWaiting

\* The batch is the end of what the writer has taken, and the writer numbers a
\* record when it takes it.
Fired == Len(accepted) - Len(pending)

BatchInv ==
  /\ Fired >= 0
  /\ \A i \in 1 .. Len(pending) : pending[i] = accepted[Fired + i]
  /\ \A i, j \in 1 .. Len(accepted) : accepted[i] = accepted[j] => i = j
  /\ \A i \in 1 .. Len(accepted) :
       pc[accepted[i]] \in {"wait", "ok", "err"} /\ lsn[accepted[i]] > 0
  /\ wpc = "sync" => Batch \subseteq disk

\* The fsynced records are a prefix of those taken; while the thread is alive
\* they are all but the batch.
DurableInv ==
  /\ durable \subseteq Taken
  /\ \A i \in 1 .. Len(accepted) : accepted[i] \in durable =>
       \A j \in 1 .. i : accepted[j] \in durable
  /\ wpc \in {"recv", "release", "write", "sync"} =>
       \A i \in 1 .. Fired : accepted[i] \in durable

\* Only taken records are answered with success, the Strict ones after the fsync.
AckInv ==
  \A a \in Appenders : pc[a] = "ok" =>
    a \in Taken /\ (tier[a] = "Strict" => a \in durable)

\* The watermark is the LSN of an fsynced record.
MarkInv == watermark = 0 \/ \E d \in durable : watermark = lsn[d]

RecordInv == BatchInv /\ DurableInv /\ AckInv /\ MarkInv /\ PeriodicAckHeld

IInv == TypeOK /\ QueueInv /\ RecordInv

-----------------------------------------------------------------------------
\* The bytes of a batch: the recursive sum exists and is a natural number.
LEMMA BytesType ==
  ASSUME NEW s \in Seq(Appenders)
  PROVE  Bytes(s) \in Nat
<1> DEFINE n == Len(s)
           Sums(g, m) == g = [i \in 0 .. m |-> IF i = 0 THEN 0 ELSE g[i - 1] + SizeOf[s[i]]]
           Good(m) == \E g \in [0 .. m -> Nat] : Sums(g, m)
           upTo == CHOOSE g : Sums(g, n)
<1>1. n \in Nat /\ \A i \in 1 .. n : SizeOf[s[i]] \in Nat
  BY ConstAssumption
<1> HIDE DEF n
<1>2. Good(0)
  <2>1. [i \in 0 .. 0 |-> 0] \in [0 .. 0 -> Nat] /\ Sums([i \in 0 .. 0 |-> 0], 0)
    OBVIOUS
  <2> QED
    BY <2>1, Zenon
<1>3. ASSUME NEW m \in 0 .. n - 1, Good(m)
      PROVE  Good(m + 1)
  <2>1. PICK g \in [0 .. m -> Nat] : Sums(g, m)
    BY <1>3, Zenon
  <2> DEFINE h == [i \in 0 .. m + 1 |-> IF i = m + 1 THEN g[m] + SizeOf[s[m + 1]] ELSE g[i]]
  <2>2. h \in [0 .. m + 1 -> Nat]
    BY <1>1
  <2>3. ASSUME NEW i \in 0 .. m + 1
        PROVE  h[i] = IF i = 0 THEN 0 ELSE h[i - 1] + SizeOf[s[i]]
    <3>1. CASE i = m + 1
      BY <1>1, <3>1
    <3>2. CASE i \in 0 .. m
      <4>1. g[i] = IF i = 0 THEN 0 ELSE g[i - 1] + SizeOf[s[i]]
        BY <2>1, <3>2, Zenon
      <4> QED
        BY <3>2, <4>1
    <3> QED
      BY <1>1, <3>1, <3>2
  <2>4. Sums(h, m + 1)
    BY <2>2, <2>3, Zenon
  <2> QED
    BY <2>2, <2>4, Zenon
<1>4. Good(n)
  <2> HIDE DEF Good
  <2> DEFINE T == {m \in 0 .. n : ~ Good(m)}
  <2>1. SUFFICES ASSUME T # {} PROVE FALSE
    BY <1>1
  <2>2. PICK m \in T : \A k \in T : m <= k
    <3>1. T \in SUBSET Nat
      BY <1>1
    <3> HIDE DEF T
    <3> QED
      BY <2>1, <3>1, LeastExists, Zenon
  <2>3. m # 0 /\ m \in 0 .. n
    BY <1>2, Zenon
  <2>4. m - 1 \in 0 .. n - 1 /\ ~(m <= m - 1)
    BY <1>1, <2>3
  <2>5. Good(m - 1)
    BY <1>1, <2>2, <2>4
  <2>6. Good((m - 1) + 1)
    BY <1>3, <2>4, <2>5, Zenon
  <2> QED
    BY <2>3, <2>6
<1>5. Sums(upTo, n)
  BY <1>4, Zenon
<1>6. upTo[n] \in Nat
  <2>1. PICK g \in [0 .. n -> Nat] : Sums(g, n)
    BY <1>4, Zenon
  <2> DEFINE T == {m \in 0 .. n : upTo[m] # g[m]}
  <2>2. SUFFICES ASSUME T # {} PROVE FALSE
    <3> HIDE DEF upTo, Sums
    <3> QED
      BY <1>1
  <2>3. PICK m \in T : \A k \in T : m <= k
    <3>1. T \in SUBSET Nat
      BY <1>1
    <3> HIDE DEF T
    <3> QED
      BY <2>2, <3>1, LeastExists, Zenon
  <2> HIDE DEF upTo
  <2>4. CASE m = 0
    BY <1>1, <1>5, <2>1, <2>3, <2>4, Zenon
  <2>5. CASE m # 0
    <3>1. m - 1 \in 0 .. n /\ ~(m <= m - 1) /\ m \in 0 .. n
      BY <1>1, <2>5
    <3>2. upTo[m - 1] = g[m - 1]
      BY <2>3, <3>1, Zenon
    <3>3. upTo[m] = upTo[m - 1] + SizeOf[s[m]] /\ g[m] = g[m - 1] + SizeOf[s[m]]
      BY <1>5, <2>1, <2>5, <3>1, Zenon
    <3> QED
      BY <2>3, <3>2, <3>3, Zenon
  <2> QED
    BY <2>4, <2>5, Zenon
<1>7. Bytes(s) = upTo[n]
  BY Zenon DEF Bytes, n
<1> QED
  BY <1>6, <1>7, Zenon

\* The range of a sequence, by positions.
LEMMA RangeType ==
  ASSUME NEW S, NEW s \in Seq(S)
  PROVE  Range(s) \subseteq S /\ Range(s) = {s[i] : i \in 1 .. Len(s)}
BY DEF Range

\* fire picks the greatest LSN of the batch and the old watermark.
LEMMA WatermarkChoice ==
  ASSUME TypeOK,
         NEW w, w = CHOOSE v \in {watermark} \cup {lsn[a] : a \in Batch} :
                      v >= watermark /\ \A a \in Batch : v >= lsn[a]
  PROVE  /\ w \in {watermark} \cup {lsn[a] : a \in Batch}
         /\ w >= watermark
         /\ \A a \in Batch : w >= lsn[a]
<1> DEFINE n == Len(pending) + 1
           f == [i \in 1 .. n |-> IF i = n THEN watermark ELSE lsn[pending[i]]]
           V == {watermark} \cup {lsn[a] : a \in Batch}
<1>1. n \in Nat \ {0} /\ f \in [1 .. n -> Nat]
  BY DEF TypeOK
<1>2. Batch = {pending[i] : i \in 1 .. Len(pending)}
  BY RangeType, Zenon DEF Batch, TypeOK
<1>3. PICK m \in 1 .. n : \A i \in 1 .. n : f[i] <= f[m]
  <2> HIDE DEF n, f
  <2> QED
    BY <1>1, GreatestOfSeq, Zenon
<1>4. f[m] \in V
  BY <1>1, <1>2 DEF TypeOK
<1>5. f[m] >= watermark
  <2>1. f[n] <= f[m] /\ f[n] = watermark
    BY <1>1, <1>3
  <2> QED
    BY <1>1, <2>1, Zenon
<1>6. ASSUME NEW a \in Batch PROVE f[m] >= lsn[a]
  <2>1. PICK i \in 1 .. Len(pending) : a = pending[i]
    BY <1>2, Zenon
  <2>2. i \in 1 .. n /\ f[i] = lsn[a]
    BY <2>1 DEF TypeOK
  <2> QED
    BY <1>1, <1>3, <2>2, Zenon
<1>7. \E v \in V : v >= watermark /\ \A a \in Batch : v >= lsn[a]
  BY <1>4, <1>5, <1>6, Zenon
<1> QED
  BY <1>7, Zenon

\* The initial state has its types.
LEMMA TypeInit == Init => TypeOK
<1>1. SUFFICES ASSUME Init PROVE TypeOK
  BY Zenon
<1>2. lsn \in [Appenders -> Nat]
  BY <1>1, ConstAssumption, Zenon DEF Init
<1>3. <<>> \in Seq(Clients) /\ <<>> \in Seq(Appenders)
  OBVIOUS
<1>4. /\ dead \in BOOLEAN /\ rxOpen \in BOOLEAN /\ flushAck \in BOOLEAN
      /\ exiting \in BOOLEAN /\ panicked \in BOOLEAN /\ aborted \in BOOLEAN
  BY <1>1, Zenon DEF Init
<1>5. pc \in [Clients -> {"idle", "admit", "send", "wait", "ok", "err"}]
  BY <1>1, Zenon DEF Init
<1> QED
  BY <1>1, <1>2, <1>3, <1>4, <1>5, Zenon DEF Init, TypeOK

\* Every step of the callers, the ticks and the writer thread keeps the types.
LEMMA TypeStep ==
  ASSUME TypeOK, BatchInv, [Next]_vars
  PROVE  TypeOK'
<1> USE ConstAssumption DEF TypeOK, Clients
<1>1. ASSUME NEW a \in Appenders, Call(a) PROVE TypeOK'
  BY <1>1 DEF Call, budgetVars, batchVars, diskVars
<1>2. ASSUME NEW a \in Appenders, Admit(a) PROVE TypeOK'
  BY <1>2 DEF Admit, callVars, batchVars, diskVars
<1>3. ASSUME NEW a \in Appenders, AdmitDead(a) PROVE TypeOK'
  BY <1>3, Zenon DEF AdmitDead, callVars, budgetVars, batchVars, diskVars
<1>4. ASSUME NEW a \in Appenders, Send(a) PROVE TypeOK'
  BY <1>4 DEF Send, callVars, budgetVars, batchVars, diskVars
<1>5. ASSUME NEW a \in Appenders, SendFail(a) PROVE TypeOK'
  BY <1>5 DEF SendFail, Saturating, callVars, batchVars, diskVars
<1>6. CASE Tick
  BY <1>6 DEF Tick, callVars, budgetVars, batchVars, diskVars
<1>7. CASE TickFailed
  BY <1>7, Zenon DEF TickFailed, callVars, budgetVars, batchVars, diskVars
<1>8. CASE Shutdown
  BY <1>8 DEF Shutdown, callVars, budgetVars, batchVars, diskVars
<1>9. ASSUME NEW a \in Appenders, RecvAppend(a) PROVE TypeOK'
  BY <1>9 DEF RecvAppend, Receiving, RecordLsn, CounterAfter, budgetVars, diskVars
<1>10. ASSUME NEW a \in Appenders, RecvReject(a) PROVE TypeOK'
  BY <1>10 DEF RecvReject, Receiving, RecordLsn, CounterAfter, Saturating, callVars, diskVars
<1>11. CASE RecvControl
  BY <1>11 DEF RecvControl, Receiving, callVars, budgetVars, diskVars
<1>12. CASE Timeout
  BY <1>12, Zenon DEF Timeout, callVars, budgetVars, batchVars, diskVars
<1>13. CASE FireRelease
  <2>1. Bytes(pending) \in Nat
    BY BytesType, Zenon
  <2> QED
    BY <1>13, <2>1 DEF FireRelease, Saturating, callVars, batchVars, diskVars
<1>14. Batch \subseteq Appenders
  BY RangeType, Zenon DEF Batch
<1>15. \A result \in {"ok", "err"} : Acks(result) \in [Clients -> {"idle", "admit", "send", "wait", "ok", "err"}]
  BY Zenon DEF Acks
<1>16. CASE FireWrite
  BY <1>16, <1>14, Zenon DEF FireWrite, callVars, budgetVars, batchVars
<1>17. CASE FireOk
  <2>1. watermark' \in {watermark} \cup {lsn[a] : a \in Batch}
    BY <1>17, WatermarkChoice, Zenon DEF FireOk
  <2>2. watermark' \in Nat
    BY <1>14, <2>1
  <2>3. durable' \subseteq disk' /\ disk' \subseteq Appenders
    BY <1>17, <1>14, Zenon DEF FireOk, BatchInv
  <2>4. pc' = Acks("ok")
    BY <1>17, Zenon DEF FireOk
  <2>5. pc' \in [Clients -> {"idle", "admit", "send", "wait", "ok", "err"}]
    BY <1>15, <2>4, Zenon
  <2>6. flushAck' \in BOOLEAN
    BY <1>17, Zenon DEF FireOk
  <2>7. pending' \in Seq(Appenders)
    BY <1>17 DEF FireOk
  <2> QED
    BY <1>17, <2>2, <2>3, <2>5, <2>6, <2>7, Zenon DEF FireOk, callVars, budgetVars
<1>18. CASE FireFail
  <2>1. PICK n \in 0 .. Len(pending) : disk' = disk \cup Range(SubSeq(pending, 1, n))
    BY <1>18, Zenon DEF FireFail
  <2>2. Range(SubSeq(pending, 1, n)) \subseteq Appenders
    <3>1. SubSeq(pending, 1, n) \in Seq(Appenders)
      OBVIOUS
    <3> QED
      BY <3>1, RangeType, Zenon
  <2>3. disk' \subseteq Appenders /\ durable' \subseteq disk'
    BY <1>18, <2>1, <2>2, Zenon DEF FireFail
  <2>4. pc' = Acks("err") \/ pc' = pc
    BY <1>18, Zenon DEF FireFail
  <2>5. pc' \in [Clients -> {"idle", "admit", "send", "wait", "ok", "err"}]
    BY <1>15, <2>4, Zenon
  <2>6. flushAck' \in BOOLEAN /\ aborted' \in BOOLEAN
    BY <1>18, Zenon DEF FireFail
  <2>7. pending' = <<>> \/ pending' = pending
    BY <1>18, Zenon DEF FireFail
  <2>8. pending' \in Seq(Appenders)
    <3>1. <<>> \in Seq(Appenders)
      OBVIOUS
    <3> QED
      BY <2>7, <3>1, Zenon
  <2> QED
    BY <1>18, <2>3, <2>5, <2>6, <2>8, Zenon DEF FireFail, callVars, budgetVars
<1>19. CASE Panic
  BY <1>19, <1>15 DEF Panic, callVars, budgetVars, diskVars
<1>20. CASE Close
  <2>1. pc' \in [Clients -> {"idle", "admit", "send", "wait", "ok", "err"}]
    <3>1. \A c \in Clients : (IF c \in Range(channel) THEN "err" ELSE pc[c])
                              \in {"idle", "admit", "send", "wait", "ok", "err"}
      BY Zenon
    <3>2. pc' = [c \in Clients |-> IF c \in Range(channel) THEN "err" ELSE pc[c]]
      BY <1>20, Zenon DEF Close
    <3> HIDE DEF Clients
    <3> QED
      BY <3>1, <3>2, Zenon
  <2>2. rxOpen' \in BOOLEAN
    BY <1>20, Zenon DEF Close
  <2>3. channel' \in Seq(Clients)
    BY <1>20 DEF Close
  <2> QED
    BY <1>20, <2>1, <2>2, <2>3, Zenon DEF Close, callVars, budgetVars, batchVars, diskVars
<1>21. CASE Poison
  BY <1>21, Zenon DEF Poison, callVars, batchVars, diskVars
<1>22. CASE UNCHANGED vars
  BY <1>22 DEF vars, callVars, budgetVars, batchVars, diskVars
<1> HIDE DEF TypeOK, Clients
<1> QED
  BY <1>1, <1>2, <1>3, <1>4, <1>5, <1>6, <1>7, <1>8, <1>9, <1>10, <1>11, <1>12, <1>13, <1>16,
     <1>17, <1>18, <1>19, <1>20, <1>21, <1>22, Zenon DEF Next, AppenderStep, WriterStep

-----------------------------------------------------------------------------
Live == {"recv", "release", "write", "sync"}

\* What a step does to the calls when it moves no record into, within or out of
\* the batch: answered calls stay answered or fail, no record not taken is
\* answered with success.
CallsMove ==
  \A a \in Appenders :
    /\ a \in Taken => tier'[a] = tier[a] /\ pc'[a] \in {pc[a], "err"}
    /\ a \notin Taken => pc'[a] # "ok"

\* A step of a caller or of the writer that takes no record, fsyncs none and
\* answers none "ok" keeps what is known of the records.
LEMMA MoveStep ==
  ASSUME TypeOK, RecordInv,
         UNCHANGED <<lsn, accepted, pending, durable, watermark>>,
         wpc' \in Live => wpc \in Live,
         wpc' = "sync" => Batch \subseteq disk',
         ~panicked' /\ ~aborted' => ~panicked /\ ~aborted,
         CallsMove
  PROVE  RecordInv'
<1> BatchInv /\ DurableInv /\ AckInv /\ MarkInv /\ PeriodicAckHeld
  BY Zenon DEF RecordInv
<1>1. Taken' = Taken /\ Batch' = Batch /\ Fired' = Fired
  BY Zenon DEF Taken, Batch, Fired
<1>2. \A i \in 1 .. Len(accepted) : accepted[i] \in Taken /\ accepted[i] \in Appenders
  BY RangeType DEF TypeOK, Taken
<1>3. Taken \subseteq Appenders
  BY RangeType, Zenon DEF TypeOK, Taken
<1>4. BatchInv'
  <2>1. \A i \in 1 .. Len(accepted') : pc'[accepted'[i]] \in {"wait", "ok", "err"} /\ lsn'[accepted'[i]] > 0
    BY <1>2, Zenon DEF BatchInv, CallsMove
  <2> QED
    BY <1>1, <2>1, Zenon DEF BatchInv
<1>5. DurableInv'
  BY <1>1, Zenon DEF DurableInv, Live
<1>6. AckInv'
  BY <1>1, Zenon DEF AckInv, CallsMove
<1>7. MarkInv'
  BY Zenon DEF MarkInv
<1>8. PeriodicAckHeld'
  <2> SUFFICES ASSUME ~panicked', ~aborted', NEW a \in Appenders,
                      tier'[a] = "Periodic", pc'[a] = "ok"
               PROVE  a \in durable' \/ a \in Batch'
    BY Zenon DEF PeriodicAckHeld
  <2>1. a \in Taken
    BY Zenon DEF CallsMove
  <2>2. tier[a] = "Periodic" /\ pc[a] = "ok"
    BY <2>1, Zenon DEF CallsMove
  <2> QED
    BY <1>1, <2>2, Zenon DEF PeriodicAckHeld
<1> QED
  BY <1>4, <1>5, <1>6, <1>7, <1>8, Zenon DEF RecordInv

\* A call that has not been answered or queued has no record taken.
LEMMA NotTakenYet ==
  ASSUME TypeOK, BatchInv, NEW a \in Appenders, pc[a] \in {"idle", "admit", "send"}
  PROVE  a \notin Taken
<1>1. Taken = {accepted[i] : i \in 1 .. Len(accepted)}
  BY RangeType, Zenon DEF TypeOK, Taken
<1> QED
  BY <1>1, Zenon DEF BatchInv

\* A call that has not been queued is not in the channel.
LEMMA NotQueuedYet ==
  ASSUME QueueInv, NEW a \in Appenders, pc[a] # "wait"
  PROVE  \A i \in 1 .. Len(channel) : channel[i] # a
BY Zenon DEF QueueInv, QueuedWaiting

\* The steps that move no record: calls, control commands, and the writer
\* between receiving and answering.
LEMMA CallStep ==
  ASSUME TypeOK, QueueInv, BatchInv, AckInv,
         NEW a \in Appenders, Call(a) \/ AppenderStep(a)
  PROVE  /\ UNCHANGED <<lsn, accepted, pending, durable, watermark>>
         /\ UNCHANGED <<wpc, disk, panicked, aborted>>
         /\ CallsMove /\ QueueInv'
<1>1. UNCHANGED <<lsn, accepted, pending, durable, watermark>> /\ UNCHANGED <<wpc, disk, panicked, aborted>>
  BY Zenon DEF Call, AppenderStep, Admit, AdmitDead, Send, SendFail, callVars, batchVars,
     diskVars
<1>2. pc[a] \in {"idle", "admit", "send"}
  BY Zenon DEF Call, AppenderStep, Admit, AdmitDead, Send, SendFail
<1>3. a \notin Taken
  BY <1>2, NotTakenYet, Zenon
<1>4. pc'[a] \in {"admit", "send", "err", "wait"}
      /\ \A b \in Clients : b # a => pc'[b] = pc[b]
  BY Zenon DEF Call, AppenderStep, Admit, AdmitDead, Send, SendFail, TypeOK, Clients
<1>5. \A b \in Appenders : b # a => tier'[b] = tier[b]
  BY Zenon DEF Call, AppenderStep, Admit, AdmitDead, Send, SendFail, TypeOK, callVars
<1>6. CallsMove
  <2> SUFFICES ASSUME NEW b \in Appenders
               PROVE  /\ b \in Taken => tier'[b] = tier[b] /\ pc'[b] \in {pc[b], "err"}
                      /\ b \notin Taken => pc'[b] # "ok"
    BY Zenon DEF CallsMove
  <2>1. CASE b = a
    BY <1>3, <1>4, <2>1, Zenon
  <2>2. CASE b # a
    <3>1. pc'[b] = pc[b] /\ tier'[b] = tier[b]
      BY <1>4, <1>5, <2>2, Zenon DEF Clients
    <3> QED
      BY <3>1, Zenon DEF AckInv
  <2> QED
    BY <2>1, <2>2, Zenon
<1>7. \A i \in 1 .. Len(channel) : channel[i] # a
  BY <1>2, NotQueuedYet, Zenon
<1>8. Taken' = Taken
  BY <1>1, Zenon DEF Taken
<1>9. ASSUME UNCHANGED channel PROVE QueueInv'
  <2>1. \A i \in 1 .. Len(channel) : pc'[channel[i]] = pc[channel[i]]
    BY <1>4, <1>7 DEF TypeOK
  <2> QED
    BY <1>8, <1>9, <2>1, Zenon DEF QueueInv, QueuedOnce, QueuedWaiting
<1>10. ASSUME Send(a) PROVE QueueInv'
  <2>1. channel' = Append(channel, a) /\ pc'[a] = "wait"
    BY <1>10, Zenon DEF Send, TypeOK, Clients
  <2>2. Len(channel') = Len(channel) + 1 /\ channel'[Len(channel) + 1] = a
        /\ \A i \in 1 .. Len(channel) : channel'[i] = channel[i]
    BY <2>1 DEF TypeOK
  <2>3. Len(channel) \in Nat /\ \A i \in 1 .. Len(channel) : channel[i] \in Clients
    BY DEF TypeOK
  <2>4. ASSUME NEW i \in 1 .. Len(channel'), NEW j \in 1 .. Len(channel'),
               channel'[i] \in Appenders, channel'[i] = channel'[j]
        PROVE  i = j
    BY <1>7, <2>2, <2>3, <2>4 DEF QueueInv, QueuedOnce
  <2>5. ASSUME NEW i \in 1 .. Len(channel'), channel'[i] \in Appenders
        PROVE  pc'[channel'[i]] = "wait" /\ channel'[i] \notin Taken'
    <3>1. CASE i = Len(channel) + 1
      BY <1>3, <1>8, <2>1, <2>2, <3>1, Zenon
    <3>2. CASE i \in 1 .. Len(channel)
      <4>1. channel'[i] = channel[i] /\ channel[i] # a /\ channel[i] \in Clients
        BY <1>7, <2>2, <2>3, <3>2, Zenon
      <4> QED
        BY <1>4, <1>8, <2>5, <3>2, <4>1, Zenon DEF QueueInv, QueuedWaiting
    <3> QED
      BY <2>2, <2>3, <3>1, <3>2
  <2>6. QueuedOnce' /\ QueuedWaiting'
    BY <2>4, <2>5, Zenon DEF QueuedOnce, QueuedWaiting
  <2> QED
    BY <2>6, Zenon DEF QueueInv
<1>11. UNCHANGED channel \/ Send(a)
  BY Zenon DEF Call, AppenderStep, Admit, AdmitDead, SendFail
<1> QED
  BY <1>1, <1>6, <1>9, <1>10, <1>11, Zenon

\* A control command joins the channel.
LEMMA QueueControl ==
  ASSUME TypeOK, QueueInv, NEW c \in Clients \ Appenders,
         channel' \in {channel, Append(channel, c)},
         \A a \in Appenders : pc'[a] = pc[a], Taken' = Taken
  PROVE  QueueInv'
<1>1. Len(channel) \in Nat /\ \A i \in 1 .. Len(channel) : channel[i] \in Clients
  BY DEF TypeOK
<1>2. /\ Len(channel') \in {Len(channel), Len(channel) + 1}
      /\ \A i \in 1 .. Len(channel') :
           IF i \in 1 .. Len(channel) THEN channel'[i] = channel[i] ELSE channel'[i] = c
  BY DEF TypeOK
<1>3. ASSUME NEW i \in 1 .. Len(channel'), channel'[i] \in Appenders
      PROVE  i \in 1 .. Len(channel) /\ channel'[i] = channel[i]
  BY <1>2, <1>3, Zenon
<1>4. QueuedOnce'
  <2> SUFFICES ASSUME NEW i \in 1 .. Len(channel'), NEW j \in 1 .. Len(channel'),
                      channel'[i] \in Appenders, channel'[i] = channel'[j]
               PROVE  i = j
    BY Zenon DEF QueuedOnce
  <2>1. i \in 1 .. Len(channel) /\ j \in 1 .. Len(channel)
        /\ channel[i] = channel[j] /\ channel[i] \in Appenders
    BY <1>3, Zenon
  <2> QED
    BY <2>1, Zenon DEF QueueInv, QueuedOnce
<1>5. QueuedWaiting'
  <2> SUFFICES ASSUME NEW i \in 1 .. Len(channel'), channel'[i] \in Appenders
               PROVE  pc'[channel'[i]] = "wait" /\ channel'[i] \notin Taken'
    BY Zenon DEF QueuedWaiting
  <2>1. i \in 1 .. Len(channel) /\ channel'[i] = channel[i]
    BY <1>3, Zenon
  <2> QED
    BY <2>1, Zenon DEF QueueInv, QueuedWaiting
<1> QED
  BY <1>4, <1>5, Zenon DEF QueueInv

\* The writer receives the first command; only that one's call may move on.
LEMMA QueueTail ==
  ASSUME TypeOK, QueueInv, channel # <<>>, channel' = Tail(channel),
         \A a \in Appenders : a # Head(channel) => pc'[a] = pc[a] /\ (a \in Taken' => a \in Taken)
  PROVE  QueueInv'
<1>1. /\ Len(channel) \in Nat \ {0} /\ Len(channel') = Len(channel) - 1
      /\ Head(channel) = channel[1]
      /\ \A i \in 1 .. Len(channel') : i + 1 \in 1 .. Len(channel) /\ channel'[i] = channel[i + 1]
  BY DEF TypeOK
<1>2. ASSUME NEW i \in 1 .. Len(channel'), channel'[i] \in Appenders
      PROVE  channel'[i] # Head(channel)
  <2>1. i + 1 # 1 /\ 1 \in 1 .. Len(channel)
    BY <1>1
  <2> QED
    BY <1>1, <1>2, <2>1, Zenon DEF QueueInv, QueuedOnce
<1>3. QueuedOnce'
  <2> SUFFICES ASSUME NEW i \in 1 .. Len(channel'), NEW j \in 1 .. Len(channel'),
                      channel'[i] \in Appenders, channel'[i] = channel'[j]
               PROVE  i = j
    BY Zenon DEF QueuedOnce
  <2>1. i + 1 = j + 1
    BY <1>1 DEF QueueInv, QueuedOnce
  <2> QED
    BY <1>1, <2>1
<1>4. QueuedWaiting'
  <2> SUFFICES ASSUME NEW i \in 1 .. Len(channel'), channel'[i] \in Appenders
               PROVE  pc'[channel'[i]] = "wait" /\ channel'[i] \notin Taken'
    BY Zenon DEF QueuedWaiting
  <2>1. channel'[i] # Head(channel) /\ channel'[i] = channel[i + 1]
        /\ i + 1 \in 1 .. Len(channel)
    BY <1>1, <1>2, Zenon
  <2>2. pc[channel[i + 1]] = "wait" /\ channel[i + 1] \notin Taken
    BY <2>1, Zenon DEF QueueInv, QueuedWaiting
  <2> QED
    BY <2>1, <2>2, Zenon
<1> QED
  BY <1>3, <1>4, Zenon DEF QueueInv

\* A tick of the background fsync, failed or not, and a shutdown.
LEMMA ControlStep ==
  ASSUME IInv, Tick \/ TickFailed \/ Shutdown
  PROVE  QueueInv' /\ RecordInv'
<1> USE DEF IInv
<1>1. UNCHANGED <<lsn, accepted, pending, durable, watermark>>
      /\ UNCHANGED <<wpc, disk, tier, panicked>>
  BY Zenon DEF Tick, TickFailed, Shutdown, callVars, batchVars, diskVars
<1>2. \A a \in Appenders : pc'[a] = pc[a]
  BY ConstAssumption, Zenon DEF Tick, TickFailed, Shutdown, TypeOK, Clients
<1>3. ~aborted' => ~aborted
  BY Zenon DEF Tick, TickFailed, Shutdown
<1>4. Taken' = Taken
  BY <1>1, Zenon DEF Taken
<1>5. CallsMove
  BY <1>1, <1>2, Zenon DEF CallsMove, AckInv, RecordInv
<1>6. RecordInv'
  <2>1. wpc' = "sync" => Batch \subseteq disk'
    BY <1>1, Zenon DEF RecordInv, BatchInv
  <2> QED
    BY <1>1, <1>3, <1>5, <2>1, MoveStep, Zenon
<1>7. QueueInv'
  <2>1. \E c \in {Scheduler, Owner} : channel' \in {channel, Append(channel, c)}
    BY Zenon DEF Tick, TickFailed, Shutdown
  <2>2. {Scheduler, Owner} \subseteq Clients \ Appenders
    BY ConstAssumption, Zenon DEF Clients
  <2> QED
    BY <1>2, <1>4, <2>1, <2>2, QueueControl, Zenon
<1> QED
  BY <1>6, <1>7, Zenon

\* The steps of the writer that take and answer no record.
LEMMA WriterMoves ==
  ASSUME IInv,
         \/ \E a \in Appenders : RecvReject(a)
         \/ RecvControl \/ Timeout \/ FireRelease \/ FireWrite \/ Close \/ Poison
  PROVE  QueueInv' /\ RecordInv'
<1> USE DEF IInv
<1>1. UNCHANGED <<lsn, accepted, pending, durable, watermark>>
      /\ UNCHANGED <<tier, panicked, aborted>>
  BY Zenon DEF RecvReject, RecvControl, Timeout, FireRelease, FireWrite, Close, Poison,
     callVars, batchVars, diskVars
<1>2. wpc' \in Live => wpc \in Live
  BY Zenon DEF RecvReject, RecvControl, Timeout, FireRelease, FireWrite, Close, Poison,
     Receiving, Live
<1>3. wpc' = "sync" => Batch \subseteq disk'
  BY Zenon DEF RecvReject, RecvControl, Timeout, FireRelease, FireWrite, Close, Poison,
     Receiving, RecordInv, BatchInv, diskVars
<1>4. \A a \in Appenders : pc'[a] \in {pc[a], "err"}
  BY Zenon DEF RecvReject, RecvControl, Timeout, FireRelease, FireWrite, Close, Poison, TypeOK,
     Clients
<1>5. CallsMove
  BY <1>1, <1>4, Zenon DEF CallsMove, AckInv, RecordInv
<1>6. RecordInv'
  BY <1>1, <1>2, <1>3, <1>5, MoveStep, Zenon
<1>7. Taken' = Taken
  BY <1>1, Zenon DEF Taken
<1>8. QueueInv'
  <2>1. CASE \E a \in Appenders : RecvReject(a)
    <3>1. channel # <<>> /\ channel' = Tail(channel)
          /\ \A a \in Appenders : a # Head(channel) => pc'[a] = pc[a]
      BY <2>1, Zenon DEF RecvReject, Receiving, TypeOK, Clients
    <3> QED
      BY <1>7, <3>1, QueueTail, Zenon
  <2>2. CASE RecvControl
    <3>1. channel # <<>> /\ channel' = Tail(channel) /\ pc' = pc
      BY <2>2, Zenon DEF RecvControl, Receiving
    <3> QED
      BY <1>7, <3>1, QueueTail, Zenon
  <2>3. CASE Close
    BY <2>3 DEF Close, QueueInv, QueuedOnce, QueuedWaiting
  <2>4. CASE Timeout \/ FireRelease \/ FireWrite \/ Poison
    <3>1. channel' = channel /\ pc' = pc
      BY <2>4, Zenon DEF Timeout, FireRelease, FireWrite, Poison
    <3> QED
      BY <1>7, <3>1, Zenon DEF QueueInv, QueuedOnce, QueuedWaiting
  <2> QED
    BY <2>1, <2>2, <2>3, <2>4, Zenon
<1> QED
  BY <1>6, <1>8, Zenon

\* The batch and the history of taken records, element by element.
LEMMA TakenElements ==
  ASSUME TypeOK, BatchInv
  PROVE  /\ Len(accepted) \in Nat /\ Len(pending) \in Nat
         /\ Taken = {accepted[i] : i \in 1 .. Len(accepted)} /\ Taken \subseteq Appenders
         /\ Batch = {pending[i] : i \in 1 .. Len(pending)} /\ Batch \subseteq Taken
         /\ \A i \in 1 .. Len(accepted) : i > Fired => accepted[i] \in Batch
<1>1. Len(accepted) \in Nat /\ Len(pending) \in Nat
  BY DEF TypeOK
<1>2. Taken = {accepted[i] : i \in 1 .. Len(accepted)} /\ Taken \subseteq Appenders
      /\ Batch = {pending[i] : i \in 1 .. Len(pending)}
  BY RangeType, Zenon DEF TypeOK, Taken, Batch
<1>3. ASSUME NEW i \in 1 .. Len(pending) PROVE pending[i] \in Taken
  <2>1. Fired + i \in 1 .. Len(accepted) /\ pending[i] = accepted[Fired + i]
    BY <1>1 DEF BatchInv, Fired
  <2> QED
    BY <1>2, <2>1, Zenon
<1>4. ASSUME NEW i \in 1 .. Len(accepted), i > Fired PROVE accepted[i] \in Batch
  <2>1. i - Fired \in 1 .. Len(pending) /\ Fired + (i - Fired) = i
    BY <1>1, <1>4 DEF BatchInv, Fired
  <2>2. pending[i - Fired] = accepted[i]
    BY <2>1, Zenon DEF BatchInv
  <2> QED
    BY <1>2, <2>1, <2>2, Zenon
<1> QED
  BY <1>1, <1>2, <1>3, <1>4, Zenon

\* The writer takes an append from the channel into the pending batch.
LEMMA TakeStep ==
  ASSUME IInv, NEW a \in Appenders, RecvAppend(a)
  PROVE  QueueInv' /\ RecordInv'
<1> TypeOK /\ QueueInv /\ BatchInv /\ DurableInv /\ AckInv /\ MarkInv /\ PeriodicAckHeld
  BY Zenon DEF IInv, RecordInv
<1> DEFINE n == Len(accepted)  m == Len(pending)
<1>1. /\ channel # <<>> /\ a = Head(channel) /\ channel' = Tail(channel)
      /\ accepted' = Append(accepted, a) /\ pending' = Append(pending, a)
      /\ wpc = "recv" /\ wpc' \in {"recv", "release"}
      /\ UNCHANGED <<tier, durable, disk, watermark, panicked, aborted>>
  BY Zenon DEF RecvAppend, Receiving, diskVars
<1>2. pc[a] = "wait" /\ a \notin Taken
  <2>1. 1 \in 1 .. Len(channel) /\ channel[1] = a
    BY <1>1 DEF TypeOK
  <2> QED
    BY <2>1, Zenon DEF QueueInv, QueuedWaiting
<1>3. n \in Nat /\ m \in Nat /\ Taken = {accepted[i] : i \in 1 .. n}
      /\ Batch = {pending[i] : i \in 1 .. m}
  BY TakenElements, Zenon
<1>4. /\ Len(accepted') = n + 1 /\ accepted'[n + 1] = a
      /\ \A i \in 1 .. n : accepted'[i] = accepted[i]
      /\ accepted' \in Seq(Appenders)
  BY <1>1 DEF TypeOK
<1>5. /\ Len(pending') = m + 1 /\ pending'[m + 1] = a
      /\ \A i \in 1 .. m : pending'[i] = pending[i]
      /\ pending' \in Seq(Appenders)
  BY <1>1 DEF TypeOK
<1>6. Fired' = Fired /\ Fired \in Int
  BY <1>3, <1>4, <1>5 DEF Fired
<1>7. Taken' = Taken \cup {a} /\ Batch' = Batch \cup {a}
  <2>1. Taken' = {accepted'[i] : i \in 1 .. n + 1} /\ Batch' = {pending'[i] : i \in 1 .. m + 1}
    BY <1>4, <1>5, RangeType, Zenon DEF Taken, Batch
  <2>2. 1 .. n + 1 = 1 .. n \cup {n + 1} /\ 1 .. m + 1 = 1 .. m \cup {m + 1}
    BY <1>3
  <2> HIDE DEF n, m
  <2> QED
    BY <1>3, <1>4, <1>5, <2>1, <2>2
<1>8. /\ lsn'[a] > 0 /\ \A b \in Appenders : b # a => lsn'[b] = lsn[b]
      /\ pc'[a] = IF tier[a] = "Periodic" THEN "ok" ELSE "wait"
      /\ \A b \in Appenders : b # a => pc'[b] = pc[b]
  BY <1>2 DEF RecvAppend, RecordLsn, TypeOK, Clients
<1>9. durable \subseteq Taken /\ Taken \subseteq Appenders /\ a \notin durable
  BY <1>2, TakenElements, Zenon DEF DurableInv
<1> HIDE DEF n, m
<1>10. BatchInv'
  <2>1. Fired' >= 0
    BY <1>6, Zenon DEF BatchInv
  <2>2. ASSUME NEW i \in 1 .. Len(pending') PROVE pending'[i] = accepted'[Fired' + i]
    <3>1. CASE i \in 1 .. m
      <4>1. Fired + i \in 1 .. n /\ pending[i] = accepted[Fired + i]
        BY <1>3, <3>1 DEF BatchInv, Fired, n, m
      <4> QED
        BY <1>4, <1>5, <1>6, <3>1, <4>1, Zenon
    <3>2. CASE i = m + 1
      <4>1. Fired + i = n + 1
        BY <1>3, <3>2 DEF Fired, n, m
      <4> QED
        BY <1>4, <1>5, <1>6, <3>2, <4>1, Zenon
    <3> QED
      BY <1>3, <1>5, <3>1, <3>2
  <2>3. ASSUME NEW i \in 1 .. Len(accepted'), NEW j \in 1 .. Len(accepted'),
               accepted'[i] = accepted'[j]
        PROVE  i = j
    BY <1>2, <1>3, <1>4, <2>3 DEF BatchInv, n
  <2>4. ASSUME NEW i \in 1 .. Len(accepted')
        PROVE  pc'[accepted'[i]] \in {"wait", "ok", "err"} /\ lsn'[accepted'[i]] > 0
    <3>1. CASE i \in 1 .. n
      <4>1. accepted'[i] = accepted[i] /\ accepted[i] \in Appenders /\ accepted[i] # a
        BY <1>2, <1>3, <1>4, <1>9, <3>1, Zenon
      <4> QED
        BY <1>8, <3>1, <4>1 DEF BatchInv, n
    <3>2. CASE i = n + 1
      BY <1>4, <1>8, <3>2, Zenon
    <3> QED
      BY <1>3, <1>4, <3>1, <3>2
  <2>5. wpc' # "sync"
    BY <1>1, Zenon
  <2> QED
    BY <2>1, <2>2, <2>3, <2>4, <2>5, Zenon DEF BatchInv
<1>11. DurableInv'
  <2>1. durable' \subseteq Taken'
    BY <1>1, <1>7, <1>9, Zenon
  <2>2. ASSUME NEW i \in 1 .. Len(accepted'), accepted'[i] \in durable',
               NEW j \in 1 .. i
        PROVE  accepted'[j] \in durable'
    <3>1. i \in 1 .. n
      BY <1>1, <1>3, <1>4, <1>9, <2>2
    <3>2. j \in 1 .. n /\ accepted[j] \in durable
      BY <1>1, <1>3, <1>4, <2>2, <3>1 DEF DurableInv, n
    <3> QED
      BY <1>1, <1>4, <3>2, Zenon
  <2>3. ASSUME NEW i \in 1 .. Fired' PROVE accepted'[i] \in durable'
    <3>1. i \in 1 .. Fired /\ i \in 1 .. n
      BY <1>3, <1>6 DEF Fired, n, m
    <3>2. accepted[i] \in durable
      BY <1>1, <3>1, Zenon DEF DurableInv
    <3>3. accepted'[i] = accepted[i] /\ durable' = durable
      BY <1>1, <1>4, <3>1, Zenon
    <3> QED
      BY <3>2, <3>3, Zenon
  <2> QED
    BY <2>1, <2>2, <2>3, Zenon DEF DurableInv
<1>12. AckInv'
  BY <1>1, <1>7, <1>8, Zenon DEF AckInv
<1>13. MarkInv'
  BY <1>1, <1>8, <1>9, Zenon DEF MarkInv
<1>14. PeriodicAckHeld'
  BY <1>1, <1>7, <1>8, Zenon DEF PeriodicAckHeld
<1>15. QueueInv'
  BY <1>1, <1>7, <1>8, QueueTail, Zenon
<1> QED
  BY <1>10, <1>11, <1>12, <1>13, <1>14, <1>15, Zenon DEF RecordInv

\* The fsync succeeds: the batch is durable and its callers are answered.
LEMMA SyncStep ==
  ASSUME IInv, FireOk
  PROVE  QueueInv' /\ RecordInv'
<1> TypeOK /\ QueueInv /\ BatchInv /\ DurableInv /\ AckInv /\ MarkInv /\ PeriodicAckHeld
  BY Zenon DEF IInv, RecordInv
<1>1. /\ wpc = "sync" /\ wpc' \in {"recv", "close"}
      /\ durable' = durable \cup Batch /\ pending' = <<>> /\ pc' = Acks("ok")
      /\ UNCHANGED <<tier, lsn, channel, accepted, disk, panicked, aborted>>
  BY Zenon DEF FireOk, callVars
<1>2. watermark' \in {watermark} \cup {lsn[a] : a \in Batch}
  BY WatermarkChoice, Zenon DEF FireOk
<1>3. /\ Len(accepted) \in Nat
      /\ Taken = {accepted[i] : i \in 1 .. Len(accepted)} /\ Taken \subseteq Appenders
      /\ Batch \subseteq Taken
      /\ \A i \in 1 .. Len(accepted) : i > Fired => accepted[i] \in Batch
  BY TakenElements, Zenon
<1>4. Taken' = Taken /\ Len(pending') = 0 /\ Fired' = Len(accepted)
  BY <1>1, <1>3 DEF Taken, Fired
<1>5. \A a \in Appenders : pc'[a] = IF a \in Batch /\ tier[a] = "Strict" THEN "ok" ELSE pc[a]
  BY <1>1, ConstAssumption, Zenon DEF Acks, Clients
<1>6. ASSUME NEW i \in 1 .. Len(accepted) PROVE accepted[i] \in durable'
  <2>1. Fired \in Int
    BY DEF Fired, TypeOK
  <2>2. CASE i > Fired
    BY <1>1, <1>3, <2>2, Zenon
  <2>3. CASE ~ (i > Fired)
    <3>1. i \in 1 .. Fired
      BY <2>1, <2>3
    <3> QED
      BY <1>1, <3>1, Zenon DEF DurableInv
  <2> QED
    BY <2>2, <2>3, Zenon
<1>7. BatchInv'
  <2>1. \A i \in 1 .. Len(accepted') :
          pc'[accepted'[i]] \in {"wait", "ok", "err"} /\ lsn'[accepted'[i]] > 0
    BY <1>1, <1>3, <1>5 DEF BatchInv
  <2>2. \A i, j \in 1 .. Len(accepted') : accepted'[i] = accepted'[j] => i = j
    BY <1>1, Zenon DEF BatchInv
  <2>3. Fired' >= 0 /\ \A i \in 1 .. Len(pending') : pending'[i] = accepted'[Fired' + i]
    BY <1>3, <1>4
  <2>4. wpc' # "sync"
    BY <1>1, Zenon
  <2> QED
    BY <2>1, <2>2, <2>3, <2>4, Zenon DEF BatchInv
<1>8. DurableInv'
  <2>1. durable' \subseteq Taken'
    BY <1>1, <1>3, <1>4, Zenon DEF DurableInv
  <2>2. \A i \in 1 .. Len(accepted') : accepted'[i] \in durable'
    BY <1>1, <1>6, Zenon
  <2>3. \A i \in 1 .. Len(accepted') : \A j \in 1 .. i : j \in 1 .. Len(accepted')
    BY <1>1, <1>3
  <2>4. Fired' = Len(accepted')
    BY <1>1, <1>4, Zenon
  <2> QED
    BY <2>1, <2>2, <2>3, <2>4, Zenon DEF DurableInv
<1>9. AckInv'
  BY <1>1, <1>3, <1>4, <1>5, Zenon DEF AckInv
<1>10. MarkInv'
  BY <1>1, <1>2, Zenon DEF MarkInv
<1>11. PeriodicAckHeld'
  BY <1>1, <1>5, Zenon DEF PeriodicAckHeld
<1>12. QueueInv'
  <2>1. \A i \in 1 .. Len(channel) : channel[i] \in Appenders => pc'[channel[i]] = pc[channel[i]]
    BY <1>3, <1>5, Zenon DEF QueueInv, QueuedWaiting
  <2> QED
    BY <1>1, <1>4, <2>1 DEF QueueInv, QueuedOnce, QueuedWaiting
<1> QED
  BY <1>7, <1>8, <1>9, <1>10, <1>11, <1>12, Zenon DEF RecordInv

\* A failed fire or a panic gives the batch up: no answered Periodic record is
\* in it, or the thread panicked.
LEMMA DropStep ==
  ASSUME IInv, pc' = Acks("err"), pending' = <<>>, wpc' = "close",
         UNCHANGED <<tier, lsn, channel, accepted, durable, watermark>>,
         ~panicked' /\ ~aborted' =>
           ~panicked /\ ~aborted /\ \A a \in Batch : tier[a] # "Periodic"
  PROVE  QueueInv' /\ RecordInv'
<1> TypeOK /\ QueueInv /\ BatchInv /\ DurableInv /\ AckInv /\ MarkInv /\ PeriodicAckHeld
  BY Zenon DEF IInv, RecordInv
<1>1. /\ Len(accepted) \in Nat
      /\ Taken = {accepted[i] : i \in 1 .. Len(accepted)} /\ Taken \subseteq Appenders
      /\ Batch \subseteq Taken
  BY TakenElements, Zenon
<1>2. Taken' = Taken /\ Len(pending') = 0 /\ Fired' = Len(accepted)
  BY <1>1 DEF Taken, Fired
<1>3. \A a \in Appenders : pc'[a] = IF a \in Batch /\ tier[a] = "Strict" THEN "err" ELSE pc[a]
  BY ConstAssumption, Zenon DEF Acks, Clients
<1>4. BatchInv'
  <2>1. \A i \in 1 .. Len(accepted') :
          pc'[accepted'[i]] \in {"wait", "ok", "err"} /\ lsn'[accepted'[i]] > 0
    BY <1>1, <1>3 DEF BatchInv
  <2>2. \A i, j \in 1 .. Len(accepted') : accepted'[i] = accepted'[j] => i = j
    BY Zenon DEF BatchInv
  <2>3. Fired' >= 0 /\ \A i \in 1 .. Len(pending') : pending'[i] = accepted'[Fired' + i]
    BY <1>1, <1>2
  <2> QED
    BY <2>1, <2>2, <2>3, Zenon DEF BatchInv
<1>5. DurableInv'
  BY <1>2, Zenon DEF DurableInv
<1>6. AckInv'
  BY <1>2, <1>3, Zenon DEF AckInv
<1>7. MarkInv'
  BY Zenon DEF MarkInv
<1>8. PeriodicAckHeld'
  BY <1>3, Zenon DEF PeriodicAckHeld
<1>9. QueueInv'
  <2>1. \A i \in 1 .. Len(channel) : channel[i] \in Appenders => pc'[channel[i]] = pc[channel[i]]
    BY <1>1, <1>3, Zenon DEF QueueInv, QueuedWaiting
  <2> QED
    BY <1>2, <2>1 DEF QueueInv, QueuedOnce, QueuedWaiting
<1> QED
  BY <1>4, <1>5, <1>6, <1>7, <1>8, <1>9, Zenon DEF RecordInv

\* The invariant holds initially.
LEMMA InvInit == Init => IInv
<1> SUFFICES ASSUME Init PROVE IInv
  BY Zenon
<1>1. TypeOK
  BY TypeInit, Zenon
<1>2. channel = <<>> /\ pending = <<>> /\ accepted = <<>> /\ durable = {} /\ wpc = "recv"
      /\ watermark = 0 /\ \A a \in Appenders : pc[a] = "idle"
  BY Zenon DEF Init, Clients
<1>3. Taken = {} /\ Fired = 0
  BY <1>2 DEF Taken, Range, Fired
<1>4. QueueInv
  BY <1>2 DEF QueueInv, QueuedOnce, QueuedWaiting
<1>5. BatchInv
  BY <1>2, <1>3 DEF BatchInv
<1>6. DurableInv
  BY <1>2, <1>3 DEF DurableInv
<1>7. AckInv /\ PeriodicAckHeld /\ MarkInv
  BY <1>2, Zenon DEF AckInv, PeriodicAckHeld, MarkInv
<1> QED
  BY <1>1, <1>4, <1>5, <1>6, <1>7, Zenon DEF IInv, RecordInv

\* Every step preserves the invariant.
LEMMA InvStep == IInv /\ [Next]_vars => IInv'
<1> SUFFICES ASSUME IInv, [Next]_vars PROVE IInv'
  BY Zenon
<1> TypeOK /\ QueueInv /\ RecordInv
  BY Zenon DEF IInv
<1>1. TypeOK'
  BY TypeStep, Zenon DEF RecordInv
<1>2. ASSUME NEW a \in Appenders, Call(a) \/ AppenderStep(a)
      PROVE  QueueInv' /\ RecordInv'
  <2>1. /\ UNCHANGED <<lsn, accepted, pending, durable, watermark>>
        /\ UNCHANGED <<wpc, disk, panicked, aborted>>
        /\ CallsMove /\ QueueInv'
    BY <1>2, CallStep, Zenon DEF RecordInv
  <2>2. wpc' = "sync" => Batch \subseteq disk'
    BY <2>1, Zenon DEF RecordInv, BatchInv
  <2>3. RecordInv'
    BY <2>1, <2>2, MoveStep, Zenon
  <2> QED
    BY <2>1, <2>3, Zenon
<1>3. CASE Tick \/ TickFailed \/ Shutdown
  BY <1>1, <1>3, ControlStep, Zenon DEF IInv
<1>4. CASE \/ \E a \in Appenders : RecvReject(a)
           \/ RecvControl \/ Timeout \/ FireRelease \/ FireWrite \/ Close \/ Poison
  BY <1>1, <1>4, WriterMoves, Zenon DEF IInv
<1>5. CASE \E a \in Appenders : RecvAppend(a)
  BY <1>1, <1>5, TakeStep, Zenon DEF IInv
<1>6. CASE FireOk
  BY <1>1, <1>6, SyncStep, Zenon DEF IInv
<1>7. CASE FireFail
  <2>1. CASE \E a \in Batch : tier[a] = "Periodic"
    <3>1. aborted' = TRUE /\ UNCHANGED <<pc, tier, lsn, channel, accepted, pending, wpc, durable, watermark, panicked>>
      BY <1>7, <2>1, Zenon DEF FireFail, callVars
    <3>2. disk \subseteq disk'
      BY <1>7, Zenon DEF FireFail
    <3>3. CallsMove
      BY <3>1, Zenon DEF CallsMove, RecordInv, AckInv
    <3>4. wpc' = "sync" => Batch \subseteq disk'
      BY <3>1, <3>2, Zenon DEF RecordInv, BatchInv
    <3>5. RecordInv'
      BY <3>1, <3>3, <3>4, MoveStep, Zenon
    <3>6. QueueInv'
      BY <3>1, Zenon DEF QueueInv, QueuedOnce, QueuedWaiting, Taken
    <3> QED
      BY <1>1, <3>5, <3>6, Zenon DEF IInv
  <2>2. CASE \A a \in Batch : tier[a] # "Periodic"
    <3>1. /\ pc' = Acks("err") /\ pending' = <<>> /\ wpc' = "close"
          /\ UNCHANGED <<tier, lsn, channel, accepted, durable, watermark, panicked, aborted>>
      BY <1>7, <2>2, Zenon DEF FireFail, callVars
    <3> QED
      BY <1>1, <2>2, <3>1, DropStep, Zenon DEF IInv
  <2> QED
    BY <2>1, <2>2, Zenon
<1>8. CASE Panic
  <2>1. /\ pc' = Acks("err") /\ pending' = <<>> /\ wpc' = "close" /\ panicked'
        /\ UNCHANGED <<tier, lsn, channel, accepted, durable, watermark>>
    BY <1>8, Zenon DEF Panic, callVars, diskVars
  <2> QED
    BY <1>1, <2>1, DropStep, Zenon DEF IInv
<1>9. CASE UNCHANGED vars
  <2>1. QueueInv'
    BY <1>9, Zenon DEF vars, batchVars, QueueInv, QueuedOnce, QueuedWaiting, Taken
  <2>2. CallsMove
    BY <1>9, Zenon DEF vars, callVars, CallsMove, RecordInv, AckInv
  <2>3. RecordInv'
    <3>1. UNCHANGED <<lsn, accepted, pending, durable, watermark>> /\ UNCHANGED <<wpc, disk, panicked, aborted>>
      BY <1>9, Zenon DEF vars, callVars, batchVars, diskVars
    <3>2. wpc' = "sync" => Batch \subseteq disk'
      BY <3>1, Zenon DEF RecordInv, BatchInv
    <3> QED
      BY <2>2, <3>1, <3>2, MoveStep, Zenon
  <2> QED
    BY <1>1, <2>1, <2>3, Zenon DEF IInv
<1>10. ASSUME NEW a \in Appenders, Call(a) \/ AppenderStep(a) PROVE IInv'
  BY <1>1, <1>2, <1>10, Zenon DEF IInv
<1> QED
  BY <1>3, <1>4, <1>5, <1>6, <1>7, <1>8, <1>9, <1>10, Zenon DEF Next, WriterStep

\* IInv holds in every state the writer, its callers and the scheduler reach.
THEOREM WalInvariance == Spec => []IInv
<1> QED
  BY InvInit, InvStep, PTL DEF Spec

\* The WAL writer's state keeps its shape: the byte budget never goes below
\* zero (release saturates) and what fire has fsynced it has written before.
THEOREM WalTypeCorrect == Spec => []TypeOK
<1>1. IInv => TypeOK
  BY Zenon DEF IInv
<1> QED
  BY <1>1, WalInvariance, PTL

\* For any callers and any batching: when append has answered a Strict caller
\* with success, its record and every record taken before it are fsynced,
\* whatever fire, a failed fire or a panic did since.
THEOREM StrictAckIsDurable == Spec => []StrictAckDurable
<1>1. IInv => StrictAckDurable
  <2> SUFFICES ASSUME IInv, NEW i \in 1 .. Len(accepted),
                      tier[accepted[i]] = "Strict", pc[accepted[i]] = "ok", NEW j \in 1 .. i
               PROVE  accepted[j] \in durable
    BY Zenon DEF StrictAckDurable
  <2>1. accepted[i] \in Appenders
    BY DEF IInv, TypeOK
  <2>2. accepted[i] \in durable
    BY <2>1, Zenon DEF IInv, RecordInv, AckInv
  <2> QED
    BY <2>2, Zenon DEF IInv, RecordInv, DurableInv
<1> QED
  BY <1>1, WalInvariance, PTL

\* An append_async that was answered is never dropped by an error path that
\* carries on: it is fsynced, held in the batch, or the process goes down.
THEOREM PeriodicAckIsHeld == Spec => []PeriodicAckHeld
<1>1. IInv => PeriodicAckHeld
  BY Zenon DEF IInv, RecordInv
<1> QED
  BY <1>1, WalInvariance, PTL

\* While records reach the writer in the order of their LSNs, a caller that
\* compares its LSN with committed_fsync_watermark is never told too early.
THEOREM WatermarkIsSoundInOrder == Spec => []WatermarkSoundInOrder
<1>1. IInv => WatermarkSoundInOrder
  <2> SUFFICES ASSUME IInv,
                      \A i, j \in 1 .. Len(accepted) : i < j => lsn[accepted[i]] < lsn[accepted[j]],
                      NEW a \in Appenders, pc[a] = "ok", lsn[a] <= watermark, a \notin durable
               PROVE  FALSE
    BY Zenon DEF WatermarkSoundInOrder, WatermarkSound
  <2> TypeOK /\ BatchInv /\ DurableInv /\ AckInv /\ MarkInv
    BY Zenon DEF IInv, RecordInv
  <2>1. Len(accepted) \in Nat /\ Taken = {accepted[i] : i \in 1 .. Len(accepted)}
    BY TakenElements, Zenon
  <2>2. PICK k \in 1 .. Len(accepted) : accepted[k] = a
    BY <2>1, Zenon DEF AckInv
  <2>3. lsn[a] > 0 /\ lsn \in [Appenders -> Nat]
    BY <2>2, Zenon DEF BatchInv, TypeOK
  <2>4. PICK d \in durable : watermark = lsn[d]
    BY <2>3 DEF MarkInv, TypeOK
  <2>5. PICK i \in 1 .. Len(accepted) : accepted[i] = d
    BY <2>1, Zenon DEF DurableInv
  <2>6. i < k
    <3>1. ASSUME k <= i PROVE FALSE
      <4>1. k \in 1 .. i
        BY <3>1
      <4> QED
        BY <2>2, <2>5, <4>1, Zenon DEF DurableInv
    <3> QED
      BY <3>1
  <2>7. lsn[d] < lsn[a] /\ d \in Appenders
    BY <2>2, <2>5, <2>6, Zenon DEF TypeOK
  <2> QED
    BY <2>3, <2>4, <2>7
<1> QED
  BY <1>1, WalInvariance, PTL
=============================================================================
