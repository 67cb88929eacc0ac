--------------------------- MODULE MCNativeQueue ---------------------------
(* TLC instances of NativeQueue.                                           *)
EXTENDS NativeQueue, TLC
Symmetry == Permutations(Operations \ Messages) \cup Permutations(Executors)
=============================================================================
