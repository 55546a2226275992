\* Two callers over an io.Pipe block each other.
SPECIFICATION Spec
CONSTANTS
    Callers = {c1, c2}
    Loops = {l1}
    MaxId = 4
    Cap = 0
    Questions <- MCQuestions
    InitQuestion <- MCInit
    ListNew <- MCListNew
    ListOld <- MCListOld
    Unknown <- MCUnknown
    Notices = {}
    NoOne = NoOne
    ToolsEnabled = FALSE
SYMMETRY MCSymmetry
INVARIANT NoGridlock
\* The client may have died of a panic, or its readLoop or the server ended.
CHECK_DEADLOCK FALSE
