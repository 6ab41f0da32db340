--------------------------- MODULE MCAiSynthesis ---------------------------
(* Small instances of AiSynthesis for TLC.                                 *)
EXTENDS AiSynthesis, TLC

WorkerSymmetry == Permutations(Workers)
=============================================================================
