\* Every kind of message, single and batched; fair runs.
SPECIFICATION FairOpenSpec
CONSTANTS
    ReqIds = {1, 2}
    Questions <- MCQuestions
    Notices = {"progress"}
    Batches <- MCBatches
    Cap = 1
    ToolsEnabled = FALSE
INVARIANTS
    TypeOK
    EachRequestAnswered
PROPERTIES
    StopReturnsAfterClose
    KeepsReading
\* readLoop has ended, or the server waits for a client that is done.
CHECK_DEADLOCK FALSE
