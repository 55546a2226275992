\* Two concurrent calls, two callers of Stop, every registration; fair.
SPECIFICATION FairSpec
CONSTANTS
    Ops = {op1, op2}
    Stoppers = {s1, s2}
    Names = {echo}
    strict = strict
    lax = lax
    input = input
    Schemas = {strict, lax}
    WellFormed = {strict, lax}
    Handlers = {h1}
    Args = {input}
    Oversize = {}
    Accepts <- MCAccepts
    Versions = {v1}
    Supported = {v1}
    DatedVersions = {}
    EnableValidation = TRUE
    TimeoutOn = TRUE
    None = None
INVARIANTS
    TypeOK
    ActiveOpsExact
    GracefulStop
    NoStopOvertakes
    PanicNeedsOvertaking
    ValidatedWhileRunning
PROPERTIES
    ImplementsGate
    CallReturns
    StopReturns
\* The process may have died in sync.WaitGroup: nothing runs then.
CHECK_DEADLOCK FALSE
