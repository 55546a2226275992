\* Two callers and one readLoop over an io.Pipe, against any server.
SPECIFICATION OpenSpec
CONSTANTS
    Callers = {c1, c2}
    Loops = {l1}
    MaxId = 3
    Cap = 0
    Questions = {q}
    InitQuestion = q
    ListNew = q
    ListOld = q
    Unknown = q
    Replies = {"result", "MethodNotFound"}
    Lines = {"overlong", "handled"}
    Notices = {"progress"}
    NoOne = NoOne
SYMMETRY MCSymmetry
INVARIANTS
    TypeOK
    PendingOpen
    OwnResponse
    OneReaderNeverBlocks
\* The process may have died of a panic, or every reader may have ended.
CHECK_DEADLOCK FALSE
