--------------------------- MODULE MCHandoffQueue ---------------------------
(* TLC instances of HandoffQueue.                                          *)
EXTENDS HandoffQueue, TLC
Symmetry == Permutations(Conversations) \cup Permutations(Generations)
=============================================================================
