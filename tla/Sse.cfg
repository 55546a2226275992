\* Two callers, two calls, a subscription, Close and Stop at any time.
SPECIFICATION FairSpec
CONSTANTS
    Callers = {c1, c2}
    None = None
    MaxCalls = 2
INVARIANTS
    ExchangesSound
PROPERTIES
    CallsReturn
    StopReturnsOnceClosed
\* Everything may be over.
CHECK_DEADLOCK FALSE
