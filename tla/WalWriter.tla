------------------------------ MODULE WalWriter ------------------------------
(***************************************************************************)
(* The group-commit WAL writer (wal/writer.rs) with its callers and the    *)
(* background fsync scheduler (wal/background_fsync.rs).  An appender is   *)
(* one call of append (Strict: answered after the fsync) or append_async   *)
(* (Periodic: answered when it enters the batch).  It is admitted against  *)
(* the byte budget, sent over the channel and batched by the one writer    *)
(* thread, which fires a batch on size, timeout, flush and shutdown.       *)
(***************************************************************************)
EXTENDS Integers, Sequences, Functions

CONSTANTS Appenders,  \* calls of append / append_async
          Scheduler,  \* the background fsync thread
          Owner,      \* who calls WalWriter::shutdown
          SizeOf,     \* the payload size of each call (budget_len)
          Budget,     \* inflight_budget_bytes
          MaxBatch,   \* group_commit_max_batch
          AssignedLsns, \* the LSNs the calls may bring (v9/v10 commits), 0: none
          MayPanic    \* TRUE: the writer thread may panic

ASSUME ConstAssumption ==
  /\ Scheduler \notin Appenders /\ Owner \notin Appenders /\ Scheduler # Owner
  /\ SizeOf \in [Appenders -> Nat \ {0}]
  /\ {Budget, MaxBatch} \subseteq Nat \ {0}
  /\ AssignedLsns \subseteq [Appenders -> Nat]
  /\ MayPanic \in BOOLEAN

Clients == Appenders \cup {Scheduler, Owner}

VARIABLES
  pc,                   \* each client's call
  tier, lsn,            \* each append: durability tier, LSN (0: not assigned yet)
  inFlight, dead,       \* WalByteBudget
  channel, rxOpen,      \* the command channel and its receiver
  pending, accepted,    \* the batch; history of all records ever batched
  flushAck, exiting,    \* why the current fire runs
  wpc,                  \* the writer thread
  lsnCounter,           \* the writer's own LSN counter
  disk, durable,        \* records written; records fsynced
  watermark,            \* committed_fsync_watermark
  panicked, aborted

callVars == <<tier, lsn>>
budgetVars == <<inFlight, dead>>
batchVars == <<pending, accepted, flushAck, exiting, lsnCounter>>
diskVars == <<disk, durable, watermark>>
vars == <<pc, callVars, budgetVars, channel, rxOpen, batchVars, wpc, diskVars,
          panicked, aborted>>

Init ==
  /\ pc = [c \in Clients |-> "idle"]
  /\ tier = [a \in Appenders |-> "Strict"]
  /\ lsn \in AssignedLsns
  /\ inFlight = 0 /\ dead = FALSE
  /\ channel = <<>> /\ rxOpen = TRUE
  /\ pending = <<>> /\ accepted = <<>> /\ flushAck = FALSE /\ exiting = FALSE
  /\ wpc = "recv" /\ lsnCounter = 0
  /\ disk = {} /\ durable = {} /\ watermark = 0
  /\ panicked = FALSE /\ aborted = FALSE

Saturating(m, n) == IF m < n THEN 0 ELSE m - n

(***************************************************************************)
(* append_inner / append_async_inner                                       *)
(***************************************************************************)
Call(a) ==
  /\ pc[a] = "idle"
  /\ \E t \in {"Strict", "Periodic"} : tier' = [tier EXCEPT ![a] = t]
  /\ pc' = [pc EXCEPT ![a] = "admit"]
  /\ UNCHANGED <<lsn, budgetVars, channel, rxOpen, batchVars, wpc, diskVars,
                 panicked, aborted>>

\* Mutant of Room: the test leaves out the append itself.
RoomBeforeAdding(n) == inFlight < Budget \/ inFlight = 0

\* There is room, or nothing is in flight (one oversized append alone).
Room(n) == inFlight + n <= Budget \/ inFlight = 0

Admit(a) ==
  /\ pc[a] = "admit" /\ ~dead /\ Room(SizeOf[a])
  /\ inFlight' = inFlight + SizeOf[a]
  /\ pc' = [pc EXCEPT ![a] = "send"]
  /\ UNCHANGED <<callVars, dead, channel, rxOpen, batchVars, wpc, diskVars,
                 panicked, aborted>>

AdmitDead(a) ==
  /\ pc[a] = "admit" /\ dead
  /\ pc' = [pc EXCEPT ![a] = "err"]
  /\ UNCHANGED <<callVars, budgetVars, channel, rxOpen, batchVars, wpc, diskVars,
                 panicked, aborted>>

Send(a) ==
  /\ pc[a] = "send" /\ rxOpen
  /\ channel' = Append(channel, a)
  /\ pc' = [pc EXCEPT ![a] = "wait"]
  /\ UNCHANGED <<callVars, budgetVars, rxOpen, batchVars, wpc, diskVars,
                 panicked, aborted>>

\* Mutant of SendFail: the subtraction does not saturate.
SendFailUnderflow(a) ==
  /\ pc[a] = "send" /\ ~rxOpen
  /\ inFlight' = inFlight - SizeOf[a]
  /\ pc' = [pc EXCEPT ![a] = "err"]
  /\ UNCHANGED <<callVars, dead, channel, rxOpen, batchVars, wpc, diskVars,
                 panicked, aborted>>

\* The receiver is gone: give the reservation back.
SendFail(a) ==
  /\ pc[a] = "send" /\ ~rxOpen
  /\ inFlight' = Saturating(inFlight, SizeOf[a])
  /\ pc' = [pc EXCEPT ![a] = "err"]
  /\ UNCHANGED <<callVars, dead, channel, rxOpen, batchVars, wpc, diskVars,
                 panicked, aborted>>

(***************************************************************************)
(* run_one_tick: flush, and abort the process when it fails; shutdown.     *)
(***************************************************************************)
Tick ==
  /\ pc[Scheduler] \in {"idle", "ok"}
  /\ channel' = IF rxOpen THEN Append(channel, Scheduler) ELSE channel
  /\ pc' = [pc EXCEPT ![Scheduler] = IF rxOpen THEN "wait" ELSE "err"]
  /\ UNCHANGED <<callVars, budgetVars, rxOpen, batchVars, wpc, diskVars,
                 panicked, aborted>>

\* Mutant of TickFailed: the failed flush is logged and the loop goes on.
TickFailedContinues ==
  /\ pc[Scheduler] = "err"
  /\ pc' = [pc EXCEPT ![Scheduler] = "idle"]
  /\ UNCHANGED <<callVars, budgetVars, channel, rxOpen, batchVars, wpc, diskVars,
                 panicked, aborted>>

TickFailed ==
  /\ pc[Scheduler] = "err"
  /\ aborted' = TRUE
  /\ UNCHANGED <<pc, callVars, budgetVars, channel, rxOpen, batchVars, wpc, diskVars,
                 panicked>>

Shutdown ==
  /\ pc[Owner] = "idle"
  /\ channel' = IF rxOpen THEN Append(channel, Owner) ELSE channel
  /\ pc' = [pc EXCEPT ![Owner] = "wait"]
  /\ UNCHANGED <<callVars, budgetVars, rxOpen, batchVars, wpc, diskVars,
                 panicked, aborted>>

(***************************************************************************)
(* run: receive one command, or time out.                                  *)
(***************************************************************************)
Receiving(a) == wpc = "recv" /\ channel # <<>> /\ Head(channel) = a

\* The LSN of the received record and the counter after it.
RecordLsn(a) == IF lsn[a] # 0 THEN lsn[a] ELSE lsnCounter + 1
CounterAfter(a) == IF RecordLsn(a) > lsnCounter THEN RecordLsn(a) ELSE lsnCounter

RecvAppend(a) ==
  /\ Receiving(a)
  /\ channel' = Tail(channel)
  /\ lsn' = [lsn EXCEPT ![a] = RecordLsn(a)]
  /\ lsnCounter' = CounterAfter(a)
  /\ pending' = Append(pending, a)
  /\ accepted' = Append(accepted, a)
  /\ pc' = IF tier[a] = "Periodic" THEN [pc EXCEPT ![a] = "ok"] ELSE pc
  /\ wpc' = IF Len(pending) + 1 >= MaxBatch THEN "release" ELSE "recv"
  /\ UNCHANGED <<tier, budgetVars, rxOpen, flushAck, exiting, diskVars,
                 panicked, aborted>>

\* The record cannot be encoded: it never enters the batch.
RecvReject(a) ==
  /\ Receiving(a)
  /\ channel' = Tail(channel)
  /\ lsnCounter' = CounterAfter(a)
  /\ inFlight' = Saturating(inFlight, SizeOf[a])
  /\ pc' = [pc EXCEPT ![a] = "err"]
  /\ UNCHANGED <<callVars, dead, rxOpen, pending, accepted, flushAck, exiting, wpc,
                 diskVars, panicked, aborted>>

RecvControl ==
  /\ \E c \in {Scheduler, Owner} :
       /\ Receiving(c)
       /\ flushAck' = (flushAck \/ c = Scheduler)
       /\ exiting' = (exiting \/ c = Owner)
  /\ channel' = Tail(channel)
  /\ wpc' = "release"
  /\ UNCHANGED <<pc, callVars, budgetVars, rxOpen, pending, accepted, lsnCounter,
                 diskVars, panicked, aborted>>

\* recv_timeout reports a timeout only when no command is queued.
Timeout ==
  /\ wpc = "recv" /\ channel = <<>> /\ pending # <<>>
  /\ wpc' = "release"
  /\ UNCHANGED <<pc, callVars, budgetVars, channel, rxOpen, batchVars, diskVars,
                 panicked, aborted>>

(***************************************************************************)
(* fire: release the budget, write the batch, fsync it, answer.            *)
(***************************************************************************)
Bytes(s) ==
  LET upTo[i \in 0 .. Len(s)] == IF i = 0 THEN 0 ELSE upTo[i - 1] + SizeOf[s[i]]
  IN upTo[Len(s)]

Batch == Range(pending)
Acks(result) == [c \in Clients |->
  IF (c \in Batch /\ tier[c] = "Strict") \/ (c = Scheduler /\ flushAck)
  THEN result ELSE pc[c]]

FireRelease ==
  /\ wpc = "release"
  /\ inFlight' = Saturating(inFlight, Bytes(pending))
  /\ wpc' = "write"
  /\ UNCHANGED <<pc, callVars, dead, channel, rxOpen, batchVars, diskVars,
                 panicked, aborted>>

\* Mutant of FireWrite: the batch is answered, and the watermark raised, when
\* the bytes are written and not when they are fsynced.
FireWriteAnswers ==
  /\ wpc = "write"
  /\ disk' = disk \cup Batch
  /\ watermark' = lsnCounter
  /\ pc' = Acks("ok")
  /\ wpc' = "sync"
  /\ UNCHANGED <<callVars, budgetVars, channel, rxOpen, batchVars, durable,
                 panicked, aborted>>

FireWrite ==
  /\ wpc = "write"
  /\ disk' = disk \cup Batch
  /\ wpc' = "sync"
  /\ UNCHANGED <<pc, callVars, budgetVars, channel, rxOpen, batchVars, durable,
                 watermark, panicked, aborted>>

FireOk ==
  /\ wpc = "sync"
  /\ durable' = durable \cup Batch
  /\ watermark' = CHOOSE w \in {watermark} \cup {lsn[a] : a \in Batch} :
                    w >= watermark /\ \A a \in Batch : w >= lsn[a]
  /\ pc' = Acks("ok")
  /\ pending' = <<>> /\ flushAck' = FALSE
  /\ wpc' = IF exiting THEN "close" ELSE "recv"
  /\ UNCHANGED <<callVars, budgetVars, channel, rxOpen, accepted, exiting, lsnCounter,
                 disk, panicked, aborted>>

\* Mutant of FireFail: a failed batch with answered Periodic records is dropped
\* like any other.
FireFailDrops ==
  /\ wpc \in {"write", "sync"}
  /\ \E n \in 0 .. Len(pending) : disk' = disk \cup Range(SubSeq(pending, 1, n))
  /\ pc' = Acks("err")
  /\ pending' = <<>> /\ flushAck' = FALSE
  /\ wpc' = "close"
  /\ UNCHANGED <<callVars, budgetVars, channel, rxOpen, accepted, exiting, lsnCounter,
                 durable, watermark, panicked, aborted>>

\* Encode, write or fsync failed, the write after a prefix of the batch.  An
\* answered Periodic record in the batch aborts the process; otherwise the
\* Strict callers get the error and the thread ends.
FireFail ==
  /\ wpc \in {"write", "sync"}
  /\ \E n \in 0 .. Len(pending) : disk' = disk \cup Range(SubSeq(pending, 1, n))
  /\ IF \E a \in Batch : tier[a] = "Periodic"
       THEN /\ aborted' = TRUE
            /\ UNCHANGED <<pc, pending, flushAck, wpc>>
       ELSE /\ pc' = Acks("err")
            /\ pending' = <<>> /\ flushAck' = FALSE
            /\ wpc' = "close"
            /\ UNCHANGED aborted
  /\ UNCHANGED <<callVars, budgetVars, channel, rxOpen, accepted, exiting, lsnCounter,
                 durable, watermark, panicked>>

\* The thread unwinds with a batch in hand: its callers' channels close.
Panic ==
  /\ MayPanic /\ wpc = "recv" /\ pending # <<>>
  /\ panicked' = TRUE
  /\ pc' = Acks("err")
  /\ pending' = <<>>
  /\ wpc' = "close"
  /\ UNCHANGED <<callVars, budgetVars, channel, rxOpen, accepted, flushAck, exiting,
                 lsnCounter, diskVars, aborted>>

(***************************************************************************)
(* The thread ends: the receiver is dropped with all queued commands, then *)
(* PoisonOnDrop poisons the budget.                                        *)
(***************************************************************************)
Close ==
  /\ wpc = "close"
  /\ rxOpen' = FALSE
  /\ channel' = <<>>
  /\ pc' = [c \in Clients |-> IF c \in Range(channel) THEN "err" ELSE pc[c]]
  /\ wpc' = "poison"
  /\ UNCHANGED <<callVars, budgetVars, batchVars, diskVars, panicked, aborted>>

\* Mutant of Poison: the budget's waiters are not told.
PoisonNobody ==
  /\ wpc = "poison"
  /\ wpc' = "gone"
  /\ UNCHANGED <<pc, callVars, budgetVars, channel, rxOpen, batchVars, diskVars,
                 panicked, aborted>>

Poison ==
  /\ wpc = "poison"
  /\ dead' = TRUE /\ inFlight' = 0
  /\ wpc' = "gone"
  /\ UNCHANGED <<pc, callVars, channel, rxOpen, batchVars, diskVars,
                 panicked, aborted>>

-----------------------------------------------------------------------------
AppenderStep(a) == Admit(a) \/ AdmitDead(a) \/ Send(a) \/ SendFail(a)

WriterStep ==
  \/ \E a \in Appenders : RecvAppend(a) \/ RecvReject(a)
  \/ RecvControl \/ Timeout
  \/ FireRelease \/ FireWrite \/ FireOk \/ FireFail
  \/ Panic \/ Close \/ Poison

Next ==
  /\ ~aborted
  /\ \/ \E a \in Appenders : Call(a) \/ AppenderStep(a)
     \/ Tick \/ TickFailed \/ Shutdown
     \/ WriterStep

Spec == Init /\ [][Next]_vars

\* Caller threads and the writer thread run; whether anyone flushes, shuts
\* down or calls at all is not assumed.
FairSpec ==
  /\ Spec
  /\ \A a \in Appenders : WF_vars(~aborted /\ AppenderStep(a))
  /\ WF_vars(~aborted /\ WriterStep)

-----------------------------------------------------------------------------
\* The budget's count never goes below zero, what is fsynced is on disk, and
\* the calls, the channel and the batch keep their shape.
TypeOK ==
  /\ pc \in [Clients -> {"idle", "admit", "send", "wait", "ok", "err"}]
  /\ tier \in [Appenders -> {"Strict", "Periodic"}]
  /\ lsn \in [Appenders -> Nat] /\ lsnCounter \in Nat
  /\ inFlight \in Nat /\ dead \in BOOLEAN /\ rxOpen \in BOOLEAN
  /\ channel \in Seq(Clients)
  /\ pending \in Seq(Appenders) /\ accepted \in Seq(Appenders)
  /\ flushAck \in BOOLEAN /\ exiting \in BOOLEAN
  /\ wpc \in {"recv", "release", "write", "sync", "close", "poison", "gone"}
  /\ durable \subseteq disk /\ disk \subseteq Appenders /\ watermark \in Nat
  /\ panicked \in BOOLEAN /\ aborted \in BOOLEAN

\* A Strict answer means the record is fsynced, and with it every record the
\* writer took before it, answered Periodic ones included (I-D3).
StrictAckDurable ==
  \A i \in 1 .. Len(accepted) :
    (tier[accepted[i]] = "Strict" /\ pc[accepted[i]] = "ok") =>
      \A j \in 1 .. i : accepted[j] \in durable

\* An answered Periodic record is fsynced or still held for the next fire,
\* unless the process went down: no error path drops it and carries on.
PeriodicAckHeld ==
  (~panicked /\ ~aborted) =>
    \A a \in Appenders : (tier[a] = "Periodic" /\ pc[a] = "ok") =>
      a \in durable \/ a \in Batch

\* A Periodic caller that polls the watermark with its LSN (as
\* committed_fsync_watermark tells it to) is never told too early.
WatermarkSound ==
  \A a \in Appenders : (pc[a] = "ok" /\ lsn[a] <= watermark) => a \in durable

\* The same while the records reached the writer in the order of their LSNs.
\* LSNs the writer assigns always do; LSNs that come with the call need not.
WatermarkSoundInOrder ==
  (\A i, j \in 1 .. Len(accepted) : i < j => lsn[accepted[i]] < lsn[accepted[j]])
    => WatermarkSound

\* A Periodic record that was answered reaches the disk or the process goes
\* down (I-D4), whatever becomes of the writer thread, as long as the scheduler
\* keeps ticking: the flush of a tick forces the batch out, and a tick that
\* finds the thread gone aborts.
PeriodicSettles ==
  (WF_vars(~aborted /\ Tick) /\ WF_vars(~aborted /\ TickFailed)) =>
    \A a \in Appenders :
      (tier[a] = "Periodic" /\ pc[a] = "ok") ~> (a \in durable \/ aborted)

\* Every append returns: batches fire, budget waiters are admitted or woken
\* by the poison, and a dropped channel answers all who wait on it.
AppendsReturn ==
  \A a \in Appenders : pc[a] = "admit" ~> (pc[a] \in {"ok", "err"} \/ aborted)
=============================================================================
