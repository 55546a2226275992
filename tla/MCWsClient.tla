----------------------------- MODULE MCWsClient -----------------------------
(* Instances of WsClient for TLC. *)
EXTENDS WsClient, TLC

MCSymmetry == Permutations(Callers) \cup Permutations(Conns)
=============================================================================
