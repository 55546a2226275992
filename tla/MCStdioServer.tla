--------------------------- MODULE MCStdioServer ----------------------------
(* Instances of StdioServer for TLC. *)
EXTENDS StdioServer, TLC

MCQuestions ==
    {[method |-> "initialize", params |-> "good"],
     [method |-> "tools/call", params |-> "good"],
     [method |-> "tools/call", params |-> "unnamed"],
     [method |-> "mcp/call_tool", params |-> "bad"],
     [method |-> "mcp/call_tool", params |-> "unnamed"],
     [method |-> "tools/list", params |-> "good"],
     [method |-> "mcp/list_resources", params |-> "good"],
     [method |-> "resources/list", params |-> "good"]}

Ask(i, q) == [kind |-> "request", id |-> i, ask |-> q]
Initialized == [kind |-> "initialized"]

\* Batches of up to three, with and without notifications.
MCBatches ==
    LET q == [method |-> "tools/call", params |-> "good"]
    IN {<<Ask(1, q)>>,
        <<Initialized>>,
        <<Ask(2, q), Initialized, Ask(1, q)>>,
        <<Ask(1, q), [kind |-> "progress"]>>}
=============================================================================
