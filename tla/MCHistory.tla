----------------------------- MODULE MCHistory -----------------------------
(* History on small instances.                                             *)
EXTENDS History, TLC

CONSTANTS p1, p2, p3

PidSymmetry == Permutations(Pid)

\* Neither of the two flags stays taken: whoever takes one frees it, or the timer takes it
\* back from a process that is gone (History).
FlagsFreed == FlagFreed /\ RetentionFlagFreed

=============================================================================
