\* One caller; the first connection and its successor.
SPECIFICATION FairSpec
CONSTANTS
    Callers = {c1}
    Conns = {k1, k2}
    NoOne = NoOne
    MaxId = 2
    Cap = 1
    BatchSizes = {1}
    Served = {"call", "mcp/list_tools"}
INVARIANTS
    TypeOK
    ReaderIsCurrent
PROPERTIES SequentialCallsMatch
    CloseEndsManager
    ExpiredCallsReturn
\* Every connection may be gone and every call made.
CHECK_DEADLOCK FALSE
