\* Initialize is called twice: two readLoops share the pipe, and may end.
SPECIFICATION AnsweringSpec
CONSTANTS
    Callers = {c1}
    Loops = {l1, l2}
    MaxId = 2
    Cap = 2
    Questions = {q}
    InitQuestion = q
    ListNew = q
    ListOld = q
    Unknown = q
    Replies = {"result"}
    Lines = {"handled"}
    Notices = {}
    NoOne = NoOne
SYMMETRY MCSymmetry
PROPERTY LostOnlyByReaders
\* The process may have died of a panic, or every reader may have ended.
CHECK_DEADLOCK FALSE
