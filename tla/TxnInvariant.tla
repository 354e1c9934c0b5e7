---------------------------- MODULE TxnInvariant ----------------------------
(***************************************************************************)
(* The inductive invariant of TxnManager: what is true between any two     *)
(* steps of the commit pipeline, the rollback and gc, and makes the safety *)
(* properties of TxnManager true.                                          *)
(***************************************************************************)
EXTENDS TxnManager

\* Past allocation and not rolled back.
Kept == {"build", "append", "turn", "published", "retireOk", "committed"}
Numbered == InFlight \cup Committed

\* Allocated ranges are non-empty, disjoint and at or below the counter.
LsnInv ==
  /\ visible <= counter /\ installOrder <= counter /\ counter < LsnMax
  /\ \A c \in Numbered : 0 < base[c] /\ base[c] <= lsn[c] /\ lsn[c] <= counter
  /\ \A c, d \in Numbered : c # d => lsn[c] < base[d] \/ lsn[d] < base[c]

\* Nobody overtakes: the watermark and the install order are below every
\* unfinished range, and who is inside Phase 3 has the turn.
TurnInv ==
  /\ \A c \in InFlight : visible < base[c]
  /\ \A c \in Committers : c \in InFlight \/ pc[c] = "published" => installOrder < base[c]
  /\ \A c \in Committers : pc[c] \in {"undo", "undone", "published"} => MyTurn(c)

\* Everything a reader or gc goes by is at or below the watermark.
FloorInv ==
  /\ \A t \in Txns : snapshot[t] <= visible
  /\ \A t \in Txns : slot[t] = LsnMax \/ slot[t] <= visible
  /\ gcFloor = LsnMax \/ gcFloor <= visible
  /\ gcAnchor <= visible

\* commit_gate and checkpoint_lock exclude.
LockInv ==
  /\ \A c, d \in Committers :
       pc[c] \in {"install", "undo"} /\ pc[d] \in {"install", "undo"} => c = d
  /\ frozen => \A c \in Committers : pc[c] \notin Span

\* A chain is a sequence of adjoining intervals, the last one open.
Adjoining(vs) ==
  \A v \in vs :
    /\ v.created < v.expired
    /\ v.expired = LsnMax \/ \E w \in vs : w.created = v.expired
    /\ \A w \in vs : /\ v.created = w.created => v = w
                     /\ v.created < w.created => v.expired <= w.created

ChainInv == \A k \in AllKeys : Adjoining(chain[k])

\* Who may have put a version above the watermark.
Installer(c, k) ==
  IF k \in Keys THEN c \in Txns /\ k \in writes[c] /\ pc[c] # "undone"
                ELSE pc[c] = "turn" /\ MyTurn(c)

\* A version above the watermark is the work of one unfinished commit, and
\* nothing is ever pushed on top of it.
PendingInv ==
  /\ \A k \in AllKeys : \A v \in chain[k] : v.created > visible =>
       \E c \in InFlight : lsn[c] = v.created /\ Installer(c, k)
  /\ \A k \in Keys : \A v \in chain[k] : v.created > visible => IsLast(v, chain[k])

\* What validation established still holds while the gate is held.
InstallInv ==
  \A t \in Txns : pc[t] = "install" =>
    \A k \in writes[t] : \A v \in chain[k] :
      v.created <= snapshot[t] \/ v.created = lsn[t]

\* A commit that is installed and not rolled back stays in the way of every
\* older snapshot: its version, or a newer published one, is in the chain.
InTheWay(t, k) ==
  \E v \in chain[k] : /\ lsn[t] <= v.created /\ visible < v.expired
                      /\ v.created <= visible \/ v.created = lsn[t]

KeptInv ==
  \A t \in Txns : pc[t] \in Kept => \A k \in writes[t] : InTheWay(t, k)

\* First-committer-wins, already among commits that are still in flight.
WinsInv ==
  \A a, b \in Txns :
    (a # b /\ {pc[a], pc[b]} \subseteq Kept \cup {"install"}
           /\ writes[a] \cap writes[b] # {}) =>
      (lsn[a] <= snapshot[b] \/ lsn[b] <= snapshot[a])

\* The inductive invariant: LSN ranges are disjoint and finish in order, chains
\* are gapless intervals, a version above the watermark belongs to one commit
\* still in flight, and a kept commit blocks every older snapshot's writer.
IInv ==
  /\ TypeOK
  /\ LsnInv /\ TurnInv /\ FloorInv /\ LockInv
  /\ ChainInv /\ PendingInv /\ InstallInv /\ KeptInv /\ WinsInv
=============================================================================
