--------------------------- MODULE MCWasmRuntime ---------------------------
(* Instance of WasmRuntime for TLC: one body is larger than the whole budget, *)
(* which a few small ones fill.                                              *)
EXTENDS WasmRuntime, TLC

CONSTANTS t1, t2

MCThreads == {t1, t2}
MCBodies  == {"small", "other", "large", "broken"}
MCSize    == [b \in MCBodies |-> IF b = "large" THEN 4 ELSE 1]
ThreadSymmetry == Permutations(MCThreads)
=============================================================================
