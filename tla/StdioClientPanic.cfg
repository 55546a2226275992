\* A context ends between the lookup and the send.
SPECIFICATION OpenSpec
CONSTANTS
    Callers = {c1}
    Loops = {l1}
    MaxId = 2
    Cap = 1
    Questions = {q}
    InitQuestion = q
    ListNew = q
    ListOld = q
    Unknown = q
    Replies = {"result", "InternalError"}
    Lines = {"other"}
    Notices = {"progress"}
    NoOne = NoOne
INVARIANT NoPanic
\* The process may have died of a panic, or every reader may have ended.
CHECK_DEADLOCK FALSE
