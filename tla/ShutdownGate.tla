---------------------------- MODULE ShutdownGate ----------------------------
(***************************************************************************)
(* What a server with a graceful shutdown promises to its callers, with    *)
(* nothing of how BaseServer keeps the promise: no counter, no Once, no    *)
(* helper goroutine, no contexts.                                          *)
(*                                                                         *)
(* A caller first takes a ticket at an open gate and then begins.  Closing *)
(* the gate takes no ticket back, so a caller that holds one may still     *)
(* begin afterwards; such an operation is "late".  The shutdown may report *)
(* that the server is drained once no operation that began at the open     *)
(* gate is left.  It promises nothing about the late ones.                 *)
(***************************************************************************)
CONSTANT Ops

VARIABLES
    open,      \* the gate still gives tickets
    ticket,    \* callers that passed the gate and have not begun
    early,     \* operations in progress that began while the gate was open
    lateOps,   \* operations in progress that began after it closed
    drained    \* a shutdown has reported success

gateVars == <<open, ticket, early, lateOps, drained>>

Init ==
    /\ open = TRUE
    /\ ticket = {}
    /\ early = {}
    /\ lateOps = {}
    /\ drained = FALSE

TakeTicket(op) ==
    /\ open
    /\ op \notin ticket \cup early \cup lateOps
    /\ ticket' = ticket \cup {op}
    /\ UNCHANGED <<open, early, lateOps, drained>>

Begin(op) ==
    /\ op \in ticket
    /\ ticket' = ticket \ {op}
    /\ early' = IF open THEN early \cup {op} ELSE early
    /\ lateOps' = IF open THEN lateOps ELSE lateOps \cup {op}
    /\ UNCHANGED <<open, drained>>

End(op) ==
    /\ op \in early \cup lateOps
    /\ early' = early \ {op}
    /\ lateOps' = lateOps \ {op}
    /\ UNCHANGED <<open, ticket, drained>>

Close ==
    /\ open
    /\ open' = FALSE
    /\ UNCHANGED <<ticket, early, lateOps, drained>>

Report ==
    /\ ~open
    /\ early = {}
    /\ drained' = TRUE
    /\ UNCHANGED <<open, ticket, early, lateOps>>

Next ==
    \/ \E op \in Ops : TakeTicket(op) \/ Begin(op) \/ End(op)
    \/ Close
    \/ Report

Spec == Init /\ [][Next]_gateVars
=============================================================================
