------------------------------ MODULE MCBridge ------------------------------
(* Bridge on small instances.                                              *)
EXTENDS Bridge, TLC

CONSTANTS b1, b2, b3, j1, j2

ChildSymmetry == Permutations(BridgeChild) \cup Permutations(JsonChild)

=============================================================================
