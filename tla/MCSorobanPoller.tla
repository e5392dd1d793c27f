--------------------------- MODULE MCSorobanPoller ---------------------------
(* Small instances of SorobanPoller.                                       *)
EXTENDS SorobanPoller, TLC

PollerSymmetry == Permutations(Pollers)
=============================================================================
