\* Two callers over pipes that take every message; fair runs.
SPECIFICATION CalmSpec
CONSTANTS
    Callers = {c1, c2}
    Loops = {l1}
    MaxId = 3
    Cap = 4
    Questions <- MCQuestions
    InitQuestion <- MCInit
    ListNew <- MCListNew
    ListOld <- MCListOld
    Unknown <- MCUnknown
    Notices = {}
    NoOne = NoOne
    ToolsEnabled = TRUE
INVARIANTS
    AnswersMyQuestion
    InitializedAfterWelcome
    ExactlyOnce
PROPERTY CallsEnd ImplementsRequestReply
\* The client may have died of a panic, or its readLoop or the server ended.
CHECK_DEADLOCK FALSE
