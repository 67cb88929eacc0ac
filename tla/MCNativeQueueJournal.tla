------------------------ MODULE MCNativeQueueJournal ------------------------
(* TLC instances of NativeQueueJournal.                                    *)
EXTENDS NativeQueueJournal, TLC
Symmetry == Permutations(Operations) \cup Permutations(Bindings) \cup Permutations(Submissions)
            \cup Permutations(Turns) \cup Permutations(Inputs)
=============================================================================
