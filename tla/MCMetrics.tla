----------------------------- MODULE MCMetrics -----------------------------
(* Metrics on small instances.                                             *)
EXTENDS Metrics, TLC

CONSTANTS c1, c2, c3

\* The header and two parts of the body, of different lengths.
MCPartLength == (0 :> 1) @@ (1 :> 2) @@ (2 :> 1)

ChildSymmetry == Permutations(Child)

=============================================================================
