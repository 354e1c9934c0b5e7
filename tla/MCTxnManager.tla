---------------------------- MODULE MCTxnManager ----------------------------
(* Small instances of TxnManager, its invariant and its refinement for TLC. *)
EXTENDS TxnInvariant, TxnRefinesSI, TLC, SequencesExt

\* Identities carry no order: permuting transactions, index commits or keys
\* changes nothing, and each CHOOSE of the refinement mapping has one answer.
Perms == Permutations(Txns) \cup Permutations(Smos) \cup Permutations(Keys)

\* Either several transactions or the index commits, beside one gc.
OneKindOfRival ==
  \/ \A m \in Smos : pc[m] = "idle"
  \/ Cardinality({t \in Txns : pc[t] # "idle"}) <= 1

\* Past its reads and writes: the client has handed the transaction over.
Handed(t) == pc[t] \notin {"idle", "bumped", "pending", "loaded", "active"}

\* The third LSN is used only next to a redo range of two, before or after it, and
\* a transaction without writes is handed over only while gc is at rest: gone from
\* the active map it is nothing to gc.
RangesBesideGc ==
  /\ OneKindOfRival
  /\ counter <= 2 \/ \E c \in Committers : base[c] < lsn[c]
  /\ gcPc = "idle" \/ \A t \in Txns : Handed(t) => writes[t] # {}

TxnOrder == SetToSeq(Txns)
WriteSetOrder == SetToSeq(SUBSET Keys)

\* Transactions are interchangeable: it is enough that those past their handle
\* carry write sets in one order; one without writes does all its reading before.
\* (Only client steps are pruned, never a fair one.)
WriteSetsInOrder ==
  LET Rank(t) == CHOOSE i \in DOMAIN WriteSetOrder : WriteSetOrder[i] = writes[t]
  IN /\ \A i, j \in DOMAIN TxnOrder :
          i < j /\ Handed(TxnOrder[i]) /\ Handed(TxnOrder[j])
            => Rank(TxnOrder[i]) <= Rank(TxnOrder[j])
     /\ \A t \in Txns : Handed(t) => writes[t] # {}
     /\ OneKindOfRival
=============================================================================
