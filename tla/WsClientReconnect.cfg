\* A reconnection fails once.
SPECIFICATION FairSpec
CONSTANTS
    Callers = {c1}
    Conns = {k1, k2}
    NoOne = NoOne
    MaxId = 1
    Cap = 1
    BatchSizes = {1}
    Served = {"call", "tools/list", "mcp/list_tools"}
PROPERTY KeepsTrying
\* Every connection may be gone and every call made.
CHECK_DEADLOCK FALSE
