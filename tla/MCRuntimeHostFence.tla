------------------------ MODULE MCRuntimeHostFence ------------------------
(* TLC instances of RuntimeHostFence.                                      *)
EXTENDS RuntimeHostFence
=============================================================================
