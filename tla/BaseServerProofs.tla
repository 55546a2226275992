-------------------------- MODULE BaseServerProofs --------------------------
(***************************************************************************)
(* Theorems about BaseServer, for every number of calls and of callers of  *)
(* Stop, every registry and every configuration.                           *)
(***************************************************************************)
EXTENDS BaseServer, FiniteSetTheorems, TLAPS

\* The fields of a tool call.
LEMMA ToolCallFields ==
    ASSUME NEW c \in Call \cup {NoCall}, c.method = "tools/call"
    PROVE  c.name \in Names /\ c.args \in Args
  BY DEF Call, ToolCall, InitCall, NoCall

\* Type correctness is inductive.
LEMMA TypeStep ==
    ASSUME TypeOK, [Next]_vars
    PROVE  TypeOK'
<1> USE DEF TypeOK, registry, shutdown, ops
<1>1. ASSUME NEW n \in Names, NEW s \in Schemas, RegisterTool(n, s) PROVE TypeOK'
  BY <1>1 DEF RegisterTool, PutTool
<1>2. ASSUME NEW n \in Names, NEW h \in Handlers, RegisterToolHandler(n, h) PROVE TypeOK'
  BY <1>2 DEF RegisterToolHandler
<1>3. ASSUME NEW op \in Ops, NEW c \in Call, NEW d \in {"open", "timed"}, Enter(op, c, d)
      PROVE TypeOK'
  BY <1>3 DEF Enter, StartCall
<1>4. ASSUME NEW op \in Ops, Admit(op) PROVE TypeOK'
  BY <1>4 DEF Admit, DefaultDeadline
<1>5. ASSUME NEW op \in Ops, Reject(op) PROVE TypeOK'
  BY <1>5 DEF Reject, Return, Done, Unbound, Binding
<1>6. ASSUME NEW op \in Ops, Dispatch(op) PROVE TypeOK'
  <2>1. CASE call[op].method = "initialize"
    BY <1>6, <2>1 DEF Dispatch, Unbound, Binding
  <2>2. CASE call[op].method # "initialize"
    <3> DEFINE b == [handler |-> handlers[call[op].name], schema |-> tools[call[op].name]]
    <3>1. call[op].method = "tools/call"
      BY <1>6, <2>2 DEF Dispatch, Call, ToolCall, InitCall
    <3>2. call[op].name \in Names
      BY <3>1, ToolCallFields
    <3>3. b \in Binding
      BY <3>2 DEF Binding
    <3> QED BY <1>6, <2>2, <3>3 DEF Dispatch
  <2> QED BY <2>1, <2>2
<1>7. ASSUME NEW op \in Ops, HandlerEnds(op) PROVE TypeOK'
  BY <1>7 DEF HandlerEnds, WorkerSends, WrappedHandler
<1>8. ASSUME NEW op \in Ops, InitializeEnds(op) PROVE TypeOK'
  BY <1>8 DEF InitializeEnds, WorkerSends
<1>9. ASSUME NEW op \in Ops, DeadlinePasses(op) \/ CallerCancels(op) PROVE TypeOK'
  BY <1>9 DEF DeadlinePasses, CallerCancels
<1>10. ASSUME NEW op \in Ops, ReturnReply(op) PROVE TypeOK'
  BY <1>10 DEF ReturnReply, Return, Done, Unbound, Binding
<1>11. ASSUME NEW op \in Ops, ReturnTimeout(op) PROVE TypeOK'
  BY <1>11 DEF ReturnTimeout, Return, Done, Unbound, Binding
<1>12. ASSUME NEW s \in Stoppers, StopStep(s) PROVE TypeOK'
  BY <1>12 DEF StopStep, StopCalled, SetShuttingDown, StopDrained, StopGivesUp,
               StopSkipped, ReturnNil
<1>13. ASSUME WaitStarts \/ WaitResumes PROVE TypeOK'
  BY <1>13 DEF WaitStarts, WaitResumes
<1>14. CASE UNCHANGED vars
  BY <1>14 DEF vars
<1> QED
  BY <1>1, <1>2, <1>3, <1>4, <1>5, <1>6, <1>7, <1>8, <1>9, <1>10, <1>11, <1>12,
     <1>13, <1>14 DEF Next, RegistryStep, OpStep

LEMMA TypeInit == Init => TypeOK
<1> SUFFICES ASSUME Init PROVE TypeOK
  OBVIOUS
<1>1. Unbound \in Binding
  BY DEF Unbound, Binding
<1>2. call \in [Ops -> Call \cup {NoCall}]
  BY Zenon DEF Init
<1>3. bound \in [Ops -> Binding]
  BY <1>1, Zenon DEF Init
<1>4. \A op \in Ops : pc[op] # "idle" => call[op] \in Call
  BY DEF Init
<1>5. /\ tools \in [Names -> Schemas \cup {None}]
      /\ handlers \in [Names -> Handlers \cup {None}]
  BY Zenon DEF Init
<1>6. /\ stop \in [Stoppers -> {"idle", "first", "waiting", "blocked",
                              "drained", "gaveUp", "skipped"}]
      /\ pc \in [Ops -> {"idle", "entered", "admitted", "waiting"}]
      /\ ctx \in [Ops -> {"open", "timed", "done"}]
      /\ worker \in [Ops -> {"none", "running", "result", "error"}]
      /\ late \in [Ops -> BOOLEAN]
  BY DEF Init
<1>7. isShuttingDown \in BOOLEAN
  BY Zenon DEF Init
<1>8. /\ activeOps \in Int
      /\ shutdownOnce \in {"fresh", "running", "done"}
      /\ wait \in {"none", "spawned", "parked", "released", "closed", "panicked"}
  BY DEF Init
<1> QED BY <1>2, <1>3, <1>4, <1>5, <1>6, <1>7, <1>8 DEF TypeOK

\* Every variable of the server keeps its type, whatever calls, registrations
\* and shutdowns happen (server.go).
THEOREM TypeCorrect == Spec => []TypeOK
  BY TypeInit, TypeStep, PTL DEF Spec
-----------------------------------------------------------------------------
(***************************************************************************)
(* The counter is exact.                                                   *)
(***************************************************************************)

\* A step that moves no call across Add or Done and leaves the counter alone.
LEMMA CounterFrame ==
    ASSUME ActiveOpsExact, activeOps' = activeOps, Inside' = Inside
    PROVE  ActiveOpsExact'
  BY DEF ActiveOpsExact

LEMMA InsideFinite == IsFiniteSet(Inside)
  BY BaseServerAssumption, FS_Subset DEF Inside

\* The three ways a call returns: it leaves Inside and takes one off.
LEMMA ReturnCounts ==
    ASSUME TypeOK, ActiveOpsExact, NEW op \in Inside, Return(op)
    PROVE  ActiveOpsExact' /\ Inside' = Inside \ {op}
<1>1. Inside' = Inside \ {op}
  BY DEF TypeOK, Inside, Return
<1>2. Cardinality(Inside \ {op}) = Cardinality(Inside) - 1
  BY InsideFinite, FS_RemoveElement
<1>3. activeOps' = activeOps - 1
  BY DEF Return, Done
<1> QED BY <1>1, <1>2, <1>3 DEF ActiveOpsExact

LEMMA CounterStep ==
    ASSUME TypeOK, ActiveOpsExact, [Next]_vars
    PROVE  ActiveOpsExact'
<1> USE DEF registry, shutdown, ops
<1>1. ASSUME RegistryStep PROVE ActiveOpsExact'
  BY <1>1, CounterFrame
     DEF RegistryStep, RegisterTool, PutTool, RegisterToolHandler, Inside
<1>2. ASSUME NEW op \in Ops, NEW c \in Call, NEW d \in {"open", "timed"}, Enter(op, c, d)
      PROVE ActiveOpsExact'
  <2>1. Inside' = Inside
    BY <1>2 DEF Enter, StartCall, Inside, TypeOK
  <2> QED BY <1>2, <2>1, CounterFrame DEF Enter, StartCall
<1>3. ASSUME NEW op \in Ops, Admit(op) PROVE ActiveOpsExact'
  <2>1. op \notin Inside /\ Inside' = Inside \cup {op}
    BY <1>3 DEF Admit, Inside, TypeOK
  <2>2. Cardinality(Inside \cup {op}) = Cardinality(Inside) + 1
    BY <2>1, InsideFinite, FS_AddElement
  <2> QED BY <1>3, <2>1, <2>2 DEF Admit, ActiveOpsExact
<1>4. ASSUME NEW op \in Ops, Dispatch(op) PROVE ActiveOpsExact'
  <2>1. Inside' = Inside
    BY <1>4 DEF Dispatch, Inside, TypeOK
  <2> QED BY <1>4, <2>1, CounterFrame DEF Dispatch
<1>5. ASSUME NEW op \in Ops, Reject(op) \/ ReturnReply(op) \/ ReturnTimeout(op)
      PROVE ActiveOpsExact'
  BY <1>5, ReturnCounts DEF Reject, ReturnReply, ReturnTimeout, Inside
<1>6. ASSUME NEW op \in Ops, HandlerEnds(op) \/ InitializeEnds(op)
      PROVE ActiveOpsExact'
  BY <1>6, CounterFrame DEF HandlerEnds, InitializeEnds, WorkerSends, Inside
<1>7. ASSUME NEW op \in Ops, DeadlinePasses(op) \/ CallerCancels(op)
      PROVE ActiveOpsExact'
  BY <1>7, CounterFrame DEF DeadlinePasses, CallerCancels, Inside
<1>8. ASSUME NEW s \in Stoppers, StopStep(s) PROVE ActiveOpsExact'
  BY <1>8, CounterFrame DEF StopStep, StopCalled, SetShuttingDown, StopDrained,
     StopGivesUp, StopSkipped, ReturnNil, Inside
<1>9. ASSUME WaitStarts \/ WaitResumes PROVE ActiveOpsExact'
  BY <1>9, CounterFrame DEF WaitStarts, WaitResumes, Inside
<1>10. CASE UNCHANGED vars
  BY <1>10, CounterFrame DEF vars, Inside
<1> QED
  BY <1>1, <1>2, <1>3, <1>4, <1>5, <1>6, <1>7, <1>8, <1>9, <1>10 DEF Next, OpStep

LEMMA CounterInit == Init => ActiveOpsExact
<1> SUFFICES ASSUME Init PROVE ActiveOpsExact
  OBVIOUS
<1>1. Inside = {}
  BY DEF Init, Inside
<1> QED BY <1>1, FS_EmptySet DEF Init, ActiveOpsExact

\* The counter that Stop waits for is always the number of operations between
\* Add and Done (server.go:452-453), however calls end.
THEOREM CounterIsExact == Spec => []ActiveOpsExact
  BY TypeInit, TypeStep, CounterInit, CounterStep, PTL DEF Spec
-----------------------------------------------------------------------------
(***************************************************************************)
(* The shutdown.                                                           *)
(***************************************************************************)
Returned == {"drained", "gaveUp"}

\* What the progress of the callers of Stop says of the Once, the flag and
\* the goroutine that waits.
OnceInv ==
    /\ shutdownOnce = "fresh" => wait = "none" /\ \A s \in Stoppers : stop[s] = "idle"
    /\ shutdownOnce = "done" => \E t \in Stoppers : stop[t] \in Returned
    /\ \A s \in Stoppers :
        /\ stop[s] = "first" => wait = "none"
        /\ stop[s] \in {"first", "waiting"} =>
            /\ shutdownOnce = "running"
            /\ \A t \in Stoppers \ {s} : stop[t] \notin {"first", "waiting"}
        /\ stop[s] \in {"waiting"} \cup Returned => isShuttingDown
        /\ stop[s] = "drained" => wait = "closed"
        /\ stop[s] = "skipped" => shutdownOnce = "done"

\* Once the waiting goroutine has seen zero, no early operation is left: the
\* flag is set before it starts, and whoever is counted after that is late.
DrainInv ==
    /\ wait # "none" => isShuttingDown
    /\ wait \in {"released", "closed", "panicked"} => Early = {}
    /\ wait = "panicked" => activeOps # 0

LEMMA OnceFrame ==
    ASSUME OnceInv, UNCHANGED <<isShuttingDown, shutdownOnce, stop>>,
           wait' = wait \/ (wait # "none" /\ wait # "closed" /\ wait' # "none")
    PROVE  OnceInv'
  BY DEF OnceInv, Returned

LEMMA OnceStep ==
    ASSUME TypeOK, OnceInv, [Next]_vars
    PROVE  OnceInv'
<1> USE DEF registry, shutdown, ops
<1>1. ASSUME RegistryStep \/ \E op \in Ops : OpStep(op) PROVE OnceInv'
  BY <1>1, OnceFrame DEF RegistryStep, RegisterTool, PutTool, RegisterToolHandler,
     OpStep, Enter, StartCall, Admit, Reject, Dispatch, HandlerEnds, InitializeEnds,
     WorkerSends, DeadlinePasses, CallerCancels, ReturnReply, ReturnTimeout, Return, Done
<1>2. ASSUME WaitStarts \/ WaitResumes PROVE OnceInv'
  BY <1>2, OnceFrame DEF WaitStarts, WaitResumes
<1>3. ASSUME NEW s \in Stoppers, StopCalled(s) PROVE OnceInv'
  BY <1>3 DEF StopCalled, OnceInv, Returned, TypeOK
<1>4. ASSUME NEW s \in Stoppers, SetShuttingDown(s) PROVE OnceInv'
  BY <1>4 DEF SetShuttingDown, OnceInv, Returned, TypeOK
<1>5. ASSUME NEW s \in Stoppers, StopDrained(s) PROVE OnceInv'
  BY <1>5 DEF StopDrained, OnceInv, Returned, TypeOK
<1>6. ASSUME NEW s \in Stoppers, StopGivesUp(s) PROVE OnceInv'
  BY <1>6 DEF StopGivesUp, OnceInv, Returned, TypeOK
<1>7. ASSUME NEW s \in Stoppers, StopSkipped(s) PROVE OnceInv'
  BY <1>7 DEF StopSkipped, ReturnNil, OnceInv, Returned, TypeOK
<1>8. CASE UNCHANGED vars
  BY <1>8, OnceFrame DEF vars
<1> QED
  BY <1>1, <1>2, <1>3, <1>4, <1>5, <1>6, <1>7, <1>8 DEF Next, StopStep

\* A step that counts no call keeps what the shutdown has seen.
LEMMA DrainFrame ==
    ASSUME DrainInv, Early' \subseteq Early, UNCHANGED <<isShuttingDown, wait>>,
           wait # "panicked" \/ UNCHANGED activeOps
    PROVE  DrainInv'
  BY DEF DrainInv

\* A call returns; if the counter falls to zero nobody is inside.
LEMMA ReturnDrains ==
    ASSUME TypeOK, ActiveOpsExact, DrainInv, NEW op \in Inside, Return(op),
           isShuttingDown' = isShuttingDown, wait # "panicked"
    PROVE  DrainInv'
<1>1. Early' \subseteq Early
  BY DEF TypeOK, Early, Inside, Return
<1>2. CASE wait' = wait
  BY <1>1, <1>2, DrainFrame
<1>3. CASE wait = "parked" /\ activeOps = 1 /\ wait' = "released"
  <2>1. ActiveOpsExact'
    BY ReturnCounts
  <2>2. activeOps' = 0
    BY <1>3 DEF Return, Done
  <2>3. Inside' = Inside \ {op} /\ IsFiniteSet(Inside \ {op})
    BY ReturnCounts, InsideFinite, FS_RemoveElement
  <2>4. Inside' = {}
    BY <2>1, <2>2, <2>3, FS_EmptySet DEF ActiveOpsExact
  <2>5. Early' = {}
    BY <2>4 DEF Early
  <2> QED BY <1>3, <2>5 DEF DrainInv
<1> QED BY <1>2, <1>3 DEF Return, Done

LEMMA DrainStep ==
    ASSUME TypeOK, ActiveOpsExact, OnceInv, DrainInv, [Next]_vars
    PROVE  DrainInv'
<1>11. CASE UNCHANGED vars
  BY <1>11, DrainFrame DEF vars, registry, shutdown, ops, Early, Inside
<1> SUFFICES ASSUME Next, wait # "panicked" PROVE DrainInv'
  BY <1>11 DEF Next
<1> USE DEF registry, shutdown, ops
<1>1. ASSUME RegistryStep PROVE DrainInv'
  BY <1>1, DrainFrame
     DEF RegistryStep, RegisterTool, PutTool, RegisterToolHandler, Early, Inside
<1>2. ASSUME NEW op \in Ops, NEW c \in Call, NEW d \in {"open", "timed"}, Enter(op, c, d)
      PROVE DrainInv'
  <2>1. Early' \subseteq Early
    BY <1>2 DEF Enter, StartCall, Early, Inside, TypeOK
  <2> QED BY <1>2, <2>1, DrainFrame DEF Enter, StartCall
<1>3. ASSUME NEW op \in Ops, Admit(op) PROVE DrainInv'
  <2>1. isShuttingDown => Early' \subseteq Early
    BY <1>3 DEF Admit, Early, Inside, TypeOK
  <2> QED BY <1>3, <2>1 DEF Admit, DrainInv
<1>4. ASSUME NEW op \in Ops, Dispatch(op) PROVE DrainInv'
  <2>1. Early' \subseteq Early
    BY <1>4 DEF Dispatch, Early, Inside, TypeOK
  <2> QED BY <1>4, <2>1, DrainFrame DEF Dispatch
<1>5. ASSUME NEW op \in Ops, Reject(op) \/ ReturnReply(op) \/ ReturnTimeout(op)
      PROVE DrainInv'
  BY <1>5, ReturnDrains DEF Reject, ReturnReply, ReturnTimeout, Inside
<1>6. ASSUME NEW op \in Ops, \/ HandlerEnds(op) \/ InitializeEnds(op)
                            \/ DeadlinePasses(op) \/ CallerCancels(op)
      PROVE DrainInv'
  BY <1>6, DrainFrame DEF HandlerEnds, InitializeEnds, WorkerSends, DeadlinePasses,
     CallerCancels, Early, Inside
<1>7. ASSUME NEW s \in Stoppers, SetShuttingDown(s) PROVE DrainInv'
  BY <1>7 DEF SetShuttingDown, DrainInv
<1>8. ASSUME NEW s \in Stoppers, \/ StopCalled(s) \/ StopDrained(s)
                                 \/ StopGivesUp(s) \/ StopSkipped(s)
      PROVE DrainInv'
  BY <1>8, DrainFrame DEF StopCalled, StopDrained, StopGivesUp, StopSkipped, ReturnNil,
     Early, Inside
<1>9. ASSUME WaitStarts \/ WaitResumes PROVE DrainInv'
  <2>1. Early' = Early /\ isShuttingDown' = isShuttingDown
    BY <1>9 DEF WaitStarts, WaitResumes, Early, Inside
  <2>2. activeOps = 0 => Early = {}
    BY InsideFinite, FS_EmptySet DEF ActiveOpsExact, Early
  <2> QED BY <1>9, <2>1, <2>2 DEF WaitStarts, WaitResumes, DrainInv
<1> QED
  BY <1>1, <1>2, <1>3, <1>4, <1>5, <1>6, <1>7, <1>8, <1>9
     DEF Next, OpStep, StopStep

LEMMA ShutdownInit == Init => OnceInv /\ DrainInv
  BY DEF Init, OnceInv, DrainInv, Returned

ShutdownInv == TypeOK /\ ActiveOpsExact /\ OnceInv /\ DrainInv

\* The inductive invariant of the shutdown holds in every reachable state.
THEOREM ShutdownInvariant == Spec => []ShutdownInv
<1>1. Init => ShutdownInv
  BY TypeInit, CounterInit, ShutdownInit DEF ShutdownInv
<1>2. ShutdownInv /\ [Next]_vars => ShutdownInv'
  BY TypeStep, CounterStep, OnceStep, DrainStep DEF ShutdownInv
<1> QED BY <1>1, <1>2, PTL DEF Spec

\* When Stop reports success every operation counted before the shutdown
\* began has returned (server.go:532-557).
THEOREM StopIsGraceful == Spec => []GracefulStop
<1>1. ShutdownInv => GracefulStop
  BY DEF ShutdownInv, OnceInv, DrainInv, GracefulStop
<1> QED BY <1>1, ShutdownInvariant, PTL

\* The WaitGroup panics only if a call overtook the flag: every call counted in
\* time has returned and another one is running (server.go:447-449, 542-545).
THEOREM PanicIsOvertaking == Spec => []PanicNeedsOvertaking
<1>1. ASSUME ShutdownInv PROVE PanicNeedsOvertaking
  <2>1. Inside = {} => activeOps = 0
    BY <1>1, FS_EmptySet DEF ShutdownInv, ActiveOpsExact
  <2> QED BY <1>1, <2>1 DEF ShutdownInv, DrainInv, PanicNeedsOvertaking
<1> QED BY <1>1, ShutdownInvariant, PTL

\* No other caller of Stop returns before the shutdown is through.
THEOREM StopsAreOrdered == Spec => []NoStopOvertakes
<1>1. ShutdownInv => NoStopOvertakes
  BY DEF ShutdownInv, OnceInv, NoStopOvertakes, Returned
<1> QED BY <1>1, ShutdownInvariant, PTL
-----------------------------------------------------------------------------
(***************************************************************************)
(* Registrations that race a call.                                         *)
(***************************************************************************)
ToolsWellFormed == \A n \in Names : tools[n] \in WellFormed \cup {None}

\* One call: a validated tool call may rely on what it was checked against.
Validated(op) ==
    pc[op] = "waiting" /\ call[op].method = "tools/call" =>
        /\ handlers[call[op].name] # None
        /\ bound[op].handler # None
        /\ bound[op].schema = tools[call[op].name]
        /\ bound[op].schema \in WellFormed
        /\ EnableValidation => <<bound[op].schema, call[op].args>> \in Accepts

LEMMA ValidatedAll == ValidatedWhileRunning <=> \A op \in Ops : Validated(op)
  BY DEF ValidatedWhileRunning, Validated

\* A call whose own variables do not change stays validated, since a tool is
\* never registered twice and a handler never removed.
LEMMA ValidatedFrame ==
    ASSUME TypeOK, [Next]_vars, NEW op \in Ops, Validated(op),
           pc'[op] = pc[op], call'[op] = call[op], bound'[op] = bound[op]
    PROVE  Validated(op)'
<1>1. UNCHANGED registry \/ RegistryStep
  BY DEF Next, vars, registry, OpStep, StopStep, Enter, StartCall, Admit, Reject,
     Dispatch, HandlerEnds, InitializeEnds, WorkerSends, DeadlinePasses, CallerCancels,
     ReturnReply, ReturnTimeout, StopCalled, SetShuttingDown, StopDrained, StopGivesUp,
     StopSkipped, ReturnNil, WaitStarts, WaitResumes
<1>2. CASE UNCHANGED registry
  BY <1>2 DEF registry, Validated
<1>3. CASE pc[op] = "waiting" /\ call[op].method = "tools/call"
  <2>1. call[op].name \in Names
    BY <1>3, ToolCallFields DEF TypeOK
  <2>2. ASSUME NEW n \in Names, NEW s \in Schemas, RegisterTool(n, s)
        PROVE Validated(op)'
    BY <1>3, <2>1, <2>2, BaseServerAssumption
       DEF RegisterTool, PutTool, Validated, TypeOK
  <2>3. ASSUME NEW n \in Names, NEW h \in Handlers, RegisterToolHandler(n, h)
        PROVE Validated(op)'
    BY <1>3, <2>1, <2>3, BaseServerAssumption
       DEF RegisterToolHandler, Validated, TypeOK
  <2> QED BY <1>1, <1>2, <2>2, <2>3 DEF RegistryStep
<1>4. CASE ~(pc[op] = "waiting" /\ call[op].method = "tools/call")
  BY <1>4 DEF Validated
<1> QED BY <1>3, <1>4

ValidInv == ToolsWellFormed /\ ValidatedWhileRunning

LEMMA ToolsStep ==
    ASSUME TypeOK, ToolsWellFormed, [Next]_vars
    PROVE  ToolsWellFormed'
<1>1. UNCHANGED tools \/ \E n \in Names, s \in Schemas : RegisterTool(n, s)
  BY DEF Next, vars, registry, OpStep, StopStep, Enter, StartCall, Admit, Reject,
     Dispatch, HandlerEnds, InitializeEnds, WorkerSends, DeadlinePasses, CallerCancels,
     ReturnReply, ReturnTimeout, StopCalled, SetShuttingDown, StopDrained, StopGivesUp,
     StopSkipped, ReturnNil, WaitStarts, WaitResumes, RegistryStep, RegisterToolHandler
<1>2. ASSUME NEW n \in Names, NEW s \in Schemas, RegisterTool(n, s)
      PROVE ToolsWellFormed'
  BY <1>2 DEF RegisterTool, PutTool, ToolsWellFormed, TypeOK
<1> QED BY <1>1, <1>2 DEF ToolsWellFormed

LEMMA ValidStep ==
    ASSUME TypeOK, ValidInv, [Next]_vars
    PROVE  ValidInv'
<1> SUFFICES ASSUME NEW op \in Ops PROVE Validated(op)'
  BY ToolsStep, ValidatedAll DEF ValidInv, ValidatedWhileRunning, Validated
<1>1. Validated(op)
  BY ValidatedAll DEF ValidInv
<1>2. CASE pc'[op] # "waiting"
  BY <1>2 DEF Validated
<1>3. CASE Dispatch(op)
  <2>1. CASE call[op].method = "tools/call"
    <3>1. call[op].name \in Names
      BY <2>1, ToolCallFields DEF TypeOK
    <3>2. Callable(call[op])
      BY <1>3, <2>1 DEF Dispatch, Valid
    <3>3. bound'[op] = [handler |-> handlers[call[op].name], schema |-> tools[call[op].name]]
      BY <1>3, <2>1 DEF Dispatch, TypeOK
    <3>4. tools[call[op].name] \in WellFormed
      BY <3>1, <3>2 DEF Callable, ValidInv, ToolsWellFormed
    <3> QED BY <1>3, <3>2, <3>3, <3>4 DEF Dispatch, registry, Callable, Validated
  <2>2. CASE call[op].method # "tools/call"
    BY <1>3, <2>2 DEF Dispatch, Validated
  <2> QED BY <2>1, <2>2
<1>4. CASE pc'[op] = "waiting" /\ ~Dispatch(op)
  <2>1. pc'[op] = pc[op] /\ call'[op] = call[op] /\ bound'[op] = bound[op]
    BY <1>4 DEF TypeOK, Next, vars, registry, shutdown, ops, OpStep, StopStep, Enter,
       StartCall, Admit, Reject, Dispatch, HandlerEnds, InitializeEnds, WorkerSends,
       DeadlinePasses, CallerCancels, ReturnReply, ReturnTimeout, Return, StopCalled,
       SetShuttingDown, StopDrained, StopGivesUp, StopSkipped, ReturnNil, WaitStarts,
       WaitResumes, RegistryStep, RegisterTool, PutTool, RegisterToolHandler
  <2> QED BY <1>1, <2>1, ValidatedFrame
<1> QED BY <1>2, <1>3, <1>4

\* No registration that races a running tool call invalidates the checks the
\* call passed: its schema is still the registered one (server.go:133-195,
\* 470-488).
THEOREM CallsStayValid == Spec => []ValidatedWhileRunning
<1>1. Init => ValidInv
  BY DEF Init, ValidInv, ToolsWellFormed, ValidatedWhileRunning
<1>2. TypeOK /\ ValidInv /\ [Next]_vars => ValidInv'
  BY ValidStep
<1> QED BY <1>1, <1>2, TypeInit, TypeStep, PTL DEF Spec, ValidInv
-----------------------------------------------------------------------------
(***************************************************************************)
(* BaseServer implements ShutdownGate.                                     *)
(***************************************************************************)
Ticket == {op \in Ops : pc[op] = "entered"}
LateOps == Inside \ Early
Drained == \E s \in Stoppers : stop[s] = "drained"

\* Steps that the gate does not see.
LEMMA GateStutters ==
    ASSUME UNCHANGED <<isShuttingDown, pc, late>>, Drained' = Drained
    PROVE  UNCHANGED Gate!gateVars
  BY DEF Gate!gateVars, Ticket, Early, LateOps, Inside, Drained

\* A call returns: it ends, early or late, at the gate.
LEMMA ReturnEnds ==
    ASSUME TypeOK, NEW op \in Inside, Return(op), UNCHANGED <<isShuttingDown, stop>>
    PROVE  Gate!End(op)
<1>1. Inside' = Inside \ {op} /\ Early' = Early \ {op} /\ Ticket' = Ticket
  BY DEF TypeOK, Return, Inside, Early, Ticket
<1> QED BY <1>1 DEF Gate!End, Early, Ticket

LEMMA GateStep ==
    ASSUME ShutdownInv, [Next]_vars
    PROVE  [Gate!Next]_(Gate!gateVars)
<1> USE DEF registry, shutdown, ops
<1>0. TypeOK
  BY DEF ShutdownInv
<1>1. ASSUME RegistryStep PROVE UNCHANGED Gate!gateVars
  BY <1>1, GateStutters
     DEF RegistryStep, RegisterTool, PutTool, RegisterToolHandler, Drained
<1>2. ASSUME NEW op \in Ops, NEW c \in Call, NEW d \in {"open", "timed"}, Enter(op, c, d)
      PROVE Gate!TakeTicket(op)
  <2>1. Ticket' = Ticket \cup {op} /\ Inside' = Inside /\ Early' = Early
    BY <1>0, <1>2 DEF TypeOK, Enter, StartCall, Ticket, Early, Inside
  <2>2. op \notin Ticket \cup Inside
    BY <1>2 DEF Enter, StartCall, Ticket, Inside
  <2> QED BY <1>2, <2>1, <2>2 DEF Enter, StartCall, Gate!TakeTicket, Ticket, Early
<1>3. ASSUME NEW op \in Ops, Admit(op) PROVE Gate!Begin(op)
  <2>1. op \in Ticket /\ Ticket' = Ticket \ {op} /\ Inside' = Inside \cup {op}
    BY <1>0, <1>3 DEF TypeOK, Admit, Ticket, Inside
  <2>2. op \notin Inside
    BY <1>3 DEF Admit, Inside
  <2>3. Early' = IF ~isShuttingDown THEN Early \cup {op} ELSE Early
    BY <1>0, <1>3 DEF TypeOK, Admit, Early, Inside
  <2>4. LateOps' = IF ~isShuttingDown THEN LateOps ELSE LateOps \cup {op}
    BY <2>1, <2>2, <2>3 DEF LateOps, Early
  <2> QED BY <1>3, <2>1, <2>3, <2>4 DEF Admit, Gate!Begin, Ticket, LateOps
<1>4. ASSUME NEW op \in Ops, Dispatch(op) PROVE UNCHANGED Gate!gateVars
  <2>1. Ticket' = Ticket /\ Inside' = Inside /\ Early' = Early
    BY <1>0, <1>4 DEF TypeOK, Dispatch, Ticket, Early, Inside
  <2> QED BY <1>4, <2>1 DEF Dispatch, Gate!gateVars, Ticket
<1>5. ASSUME NEW op \in Ops, Reject(op) \/ ReturnReply(op) \/ ReturnTimeout(op)
      PROVE Gate!End(op)
  BY <1>0, <1>5, ReturnEnds DEF Reject, ReturnReply, ReturnTimeout, Inside
<1>6. ASSUME NEW op \in Ops, \/ HandlerEnds(op) \/ InitializeEnds(op)
                            \/ DeadlinePasses(op) \/ CallerCancels(op)
      PROVE UNCHANGED Gate!gateVars
  BY <1>6, GateStutters DEF HandlerEnds, InitializeEnds, WorkerSends, DeadlinePasses,
     CallerCancels, Drained
<1>7. ASSUME WaitStarts \/ WaitResumes PROVE UNCHANGED Gate!gateVars
  BY <1>7, GateStutters DEF WaitStarts, WaitResumes, Drained
<1>8. ASSUME NEW s \in Stoppers, StopCalled(s) \/ StopGivesUp(s) \/ StopSkipped(s)
      PROVE UNCHANGED Gate!gateVars
  <2>1. Drained' = Drained
    BY <1>0, <1>8 DEF TypeOK, StopCalled, StopGivesUp, StopSkipped, ReturnNil, Drained
  <2> QED BY <1>8, <2>1, GateStutters DEF StopCalled, StopGivesUp, StopSkipped, ReturnNil
<1>9. ASSUME NEW s \in Stoppers, SetShuttingDown(s)
      PROVE Gate!Close \/ UNCHANGED Gate!gateVars
  <2>1. Drained' = Drained /\ Ticket' = Ticket /\ Inside' = Inside /\ Early' = Early
    BY <1>0, <1>9 DEF TypeOK, SetShuttingDown, Drained, Ticket, Early, Inside
  <2>2. CASE isShuttingDown
    BY <1>9, <2>1, <2>2 DEF SetShuttingDown, Gate!gateVars, Drained, Ticket
  <2>3. CASE ~isShuttingDown
    BY <1>9, <2>1, <2>3 DEF SetShuttingDown, Gate!Close, Drained, Ticket
  <2> QED BY <2>2, <2>3
<1>10. ASSUME NEW s \in Stoppers, StopDrained(s) PROVE Gate!Report
  <2>1. isShuttingDown /\ Early = {}
    BY <1>10 DEF StopDrained, ShutdownInv, DrainInv
  <2>2. Drained'
    BY <1>0, <1>10 DEF TypeOK, StopDrained, Drained
  <2>3. Ticket' = Ticket /\ Inside' = Inside /\ Early' = Early
    BY <1>10 DEF StopDrained, Ticket, Early, Inside
  <2> QED BY <1>10, <2>1, <2>2, <2>3 DEF StopDrained, Gate!Report, Drained, Ticket
<1>11. CASE UNCHANGED vars
  BY <1>11, GateStutters DEF vars, Drained
<1> QED
  BY <1>1, <1>2, <1>3, <1>4, <1>5, <1>6, <1>7, <1>8, <1>9, <1>10, <1>11
     DEF Next, OpStep, StopStep, Gate!Next

LEMMA GateInit == Init => Gate!Init
  BY DEF Init, Gate!Init, Early, Inside

\* The server keeps the promise of a graceful shutdown that ShutdownGate
\* states, with its counter, Once, goroutines and contexts abstracted away.
THEOREM ServerImplementsGate == Spec => ImplementsGate
  BY GateInit, GateStep, ShutdownInvariant, PTL DEF Spec, Gate!Spec, ImplementsGate
=============================================================================
