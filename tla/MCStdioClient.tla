--------------------------- MODULE MCStdioClient ----------------------------
(* Instances of StdioClient for TLC. *)
EXTENDS StdioClient, TLC

MCSymmetry == Permutations(Callers) \cup Permutations(Loops)
=============================================================================
