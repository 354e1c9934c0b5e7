---------------------------- MODULE TxnRefinesSI ----------------------------
(***************************************************************************)
(* The transaction manager implements SnapshotIsolation.  What a running   *)
(* transaction sees is whatever read_at would return to it in this very    *)
(* state, so the mapping fails as soon as one read would change under a    *)
(* running transaction, or a commit shows up in parts.                     *)
(***************************************************************************)
EXTENDS TxnManager

CONSTANT NoTxn

\* The commit that wrote the version a reader at snapshot s gets for key k.
WriterAt(k, s) ==
  LET r == ReadAt(k, s) IN
    IF r = 0 THEN NoTxn ELSE CHOOSE t \in Txns : k \in writes[t] /\ lsn[t] = r

StoreBar == [k \in Keys |-> WriterAt(k, visible)]

StatusBar ==
  [t \in Txns |-> CASE pc[t] \in {"idle", "bumped", "pending"} -> "new"
                    [] Reading(t) -> "running"
                    [] OTHER -> "done"]

ViewBar ==
  [t \in Txns |-> [k \in Keys |->
     IF Reading(t) THEN WriterAt(k, snapshot[t]) ELSE NoTxn]]

SI == INSTANCE SnapshotIsolation
        WITH store <- StoreBar, view <- ViewBar, status <- StatusBar

\* Every behaviour of the manager without gc is one of snapshot isolation.
ImplementsSnapshotIsolation == SI!AbsSpec
=============================================================================
