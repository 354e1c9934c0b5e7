-------------------------- MODULE SnapshotIsolation --------------------------
(***************************************************************************)
(* What the transaction manager promises its callers, without LSNs, chains *)
(* or phases: a transaction sees the store as it was at one instant, and   *)
(* commits all its writes at one later instant provided nobody has changed *)
(* a key it writes in between.  A value is the id of its last writer.      *)
(***************************************************************************)
CONSTANTS Txns, Keys, NoTxn

VARIABLES store,  \* key -> last committed writer
          view,   \* txn -> the store as the transaction sees it
          status  \* txn -> "new", "running", "done"

absVars == <<store, view, status>>

Values == Txns \cup {NoTxn}
EmptyStore == [k \in Keys |-> NoTxn]

AbsInit ==
  /\ store = EmptyStore
  /\ view = [t \in Txns |-> EmptyStore]
  /\ status = [t \in Txns |-> "new"]

AbsBegin(t) ==
  /\ status[t] = "new"
  /\ status' = [status EXCEPT ![t] = "running"]
  /\ view' = [view EXCEPT ![t] = store]
  /\ UNCHANGED store

\* Atomic, and first-committer-wins: the written keys are as this
\* transaction saw them.  The view is given up with the handle.
AbsCommit(t, W) ==
  /\ status[t] = "running"
  /\ status' = [status EXCEPT ![t] = "done"]
  /\ \A k \in W : store[k] = view[t][k]
  /\ store' = [k \in Keys |-> IF k \in W THEN t ELSE store[k]]
  /\ view' = [view EXCEPT ![t] = EmptyStore]

AbsAbort(t) ==
  /\ status[t] = "running"
  /\ status' = [status EXCEPT ![t] = "done"]
  /\ view' = [view EXCEPT ![t] = EmptyStore]
  /\ UNCHANGED store

AbsNext == \E t \in Txns :
  AbsBegin(t) \/ AbsAbort(t) \/ \E W \in SUBSET Keys : AbsCommit(t, W)

AbsSpec == AbsInit /\ [][AbsNext]_absVars
=============================================================================
