--------------------------- MODULE MCStdioSystem ----------------------------
(* Instances of StdioSystem for TLC. *)
EXTENDS StdioSystem, TLC

MCInit == [method |-> "initialize", params |-> "good"]
MCCall == [method |-> "tools/call", params |-> "good"]

MCListNew == [method |-> "tools/list", params |-> "good"]
MCListOld == [method |-> "mcp/list_tools", params |-> "good"]
MCUnknown == [method |-> "", params |-> "good"]

MCQuestions == {MCCall}

MCSymmetry == Permutations(Callers)
=============================================================================
