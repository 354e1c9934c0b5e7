----------------------------- MODULE MCWalWriter -----------------------------
(* Small instances of WalWriter for TLC.                                   *)
EXTENDS WalWriter, FiniteSetsExt

\* One append is larger than the whole budget.
OneOversized == [a \in Appenders |-> IF a = CHOOSE b \in Appenders : TRUE THEN 3 ELSE 1]
\* A v9 log: commits bring their LSNs and arrive in any order, between records
\* (names, for instance) whose LSNs the writer draws.
Numberings ==
  {CHOOSE f \in [Appenders -> 0 .. Cardinality(Appenders) - 1] : IsInjective(f)}

TotalSize(S) == MapThenSumSet(LAMBDA a : SizeOf[a], S)

\* Admitted appends that have not been handed to a fire yet, and the batch the
\* fire has at the disk, whose reservation is already released.
Queued ==
  {a \in Appenders : pc[a] = "send" \/ a \in Range(channel)}
    \cup (IF wpc \in {"recv", "release"} THEN Batch ELSE {})
AtDisk == IF wpc \in {"write", "sync"} THEN Batch ELSE {}

\* Within inflight_budget_bytes, or one append that alone exceeds it.
WithinBudget(S) == TotalSize(S) <= Budget \/ Cardinality(S) = 1

\* Back-pressure bounds the bytes that are admitted and not yet durable or
\* refused, whatever calls, fires, refusals and deaths of the writer interleave.
\* The bound is two budgets and not one: fire releases a batch before it writes
\* it, so callers refill the budget while the batch is at the disk.
UnsettledBounded == WithinBudget(Queued) /\ WithinBudget(AtDisk)
=============================================================================
