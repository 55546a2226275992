\* One connection, two goroutines that publish to it, and a Stop; fair runs.
SPECIFICATION FairSpec
CONSTANTS
    Conns = {c1}
    Talkers = {c1}
    Publishers = {p1, p2}
    Pump = Pump
    NoConn = NoConn
    Cap = 1
    PongWait = 2
INVARIANTS
    TypeOK
    ServedIsRegistered
    StopClosesRegistered
    LiveConnectionsStay
PROPERTIES
    GoneClientsLeave
    PublishEndsAnyway
\* A Publish may have killed the process, or all is over.
CHECK_DEADLOCK FALSE
