--------------------------- MODULE SnapshotStore ---------------------------
(***************************************************************************)
(* What the history promises to those who query it: at any time there are  *)
(* whole snapshots, each taken in the past; one is added at once with all  *)
(* its rows, and a prune takes away at once all rows that are older than   *)
(* some time, which lies at least the retention back.                      *)
(***************************************************************************)
EXTENDS Naturals

CONSTANTS
    Takers,      \* those who take snapshots
    Rows,        \* the rows of a snapshot
    Retention    \* how long they are kept, in seconds

VARIABLES
    clock,
    stored       \* the rows that a query finds

vars == << clock, stored >>

Snapshot(by, t) == {[by |-> by, ts |-> t, row |-> i] : i \in 1..Rows}

Init == clock = 1 /\ stored = {}

Store(by, t) ==
    /\ stored' = stored \cup Snapshot(by, t)
    /\ UNCHANGED clock

Prune(cutoff) ==
    /\ cutoff + Retention <= clock
    /\ stored' = {r \in stored : r.ts >= cutoff}
    /\ UNCHANGED clock

Tick == clock' = clock + 1 /\ UNCHANGED stored

Next ==
    \/ \E by \in Takers, t \in 0..clock : Store(by, t)
    \/ \E cutoff \in 0..clock : Prune(cutoff)
    \/ Tick

Spec == Init /\ [][Next]_vars

=============================================================================
