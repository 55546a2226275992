----------------------------- MODULE BaseServer -----------------------------
(***************************************************************************)
(* pkg/server/server.go: the tool registry of BaseServer and the life of   *)
(* the operations it runs, HandleToolCall and HandleInitialize, against a  *)
(* concurrent Stop.                                                        *)
(*                                                                         *)
(* Each element of Ops is a slot for one goroutine that calls into the     *)
(* server, again and again; a slot is reused once the goroutine that ran   *)
(* the handler for its previous call is gone, so Ops also bounds the       *)
(* handler goroutines alive.  Each element of Stoppers calls Stop once.    *)
(*                                                                         *)
(* The code reads isShuttingDown without the lock and only then adds to    *)
(* activeOps: two steps here, Enter and Admit.                             *)
(*                                                                         *)
(* sync.WaitGroup is modelled with its documented reuse rule: a Wait that  *)
(* slept is "released" when the counter reaches zero, and panics if it     *)
(* finds the counter above zero again when it runs.  A panic in that       *)
(* goroutine ends the process: no action is enabled any more.              *)
(***************************************************************************)
EXTENDS Integers, FiniteSets

CONSTANTS
    Ops,              \* slots for concurrent calls into the server
    Stoppers,         \* callers of Stop
    Names,            \* tool names (non-empty strings)
    Schemas,          \* input schemas a tool may be registered with
    WellFormed,       \* those that are JSON objects with "type" and "properties"
    Handlers,         \* tool handlers
    Args,             \* arguments of a tool call
    Oversize,         \* arguments of more than MaxMessageSize bytes
    Accepts,          \* <<schema, args>>: validation.ValidateParameters succeeds
    Versions,         \* protocol versions a client may ask for
    Supported,        \* Options.Version and Options.SupportedVersions
    DatedVersions,    \* dddd-xx-xx with a year from 2024 to 2025
    EnableValidation, \* Config.EnableValidation
    TimeoutOn,        \* Config.ConnectionTimeout > 0
    None              \* no schema, no handler

ASSUME BaseServerAssumption ==
    /\ IsFiniteSet(Ops)
    /\ WellFormed \subseteq Schemas
    /\ Oversize \subseteq Args
    /\ Accepts \subseteq Schemas \X Args
    /\ Supported \subseteq Versions
    /\ DatedVersions \subseteq Versions
    /\ EnableValidation \in BOOLEAN
    /\ TimeoutOn \in BOOLEAN
    /\ None \notin Schemas \cup Handlers

VARIABLES
    tools,          \* schema of each registered tool, None if not registered
    handlers,       \* handler of each tool, None if it has none
    isShuttingDown,
    activeOps,      \* counter of the WaitGroup
    shutdownOnce,   \* "fresh", "running", "done"
    wait,           \* goroutine that waits for activeOps and closes done
    stop,           \* progress of each caller of Stop
    pc,             \* progress of each call
    call,           \* its request
    bound,          \* the handler and the schema it read from the maps
    ctx,            \* its context: "open", "timed" (has a deadline), "done"
    worker,         \* the goroutine that runs the handler, and what it sent
    late            \* history: the call was counted after the flag was set

registry == <<tools, handlers>>
shutdown == <<isShuttingDown, shutdownOnce, stop>>
ops == <<pc, call, bound, ctx, worker, late>>
vars == <<tools, handlers, isShuttingDown, activeOps, shutdownOnce, wait, stop,
          pc, call, bound, ctx, worker, late>>

ToolCall == [method : {"tools/call"}, name : Names, args : Args]
InitCall == [method : {"initialize"}, version : Versions, named : BOOLEAN]
Call == ToolCall \cup InitCall
NoCall == [method |-> "none"]

Binding == [handler : Handlers \cup {None}, schema : Schemas \cup {None}]
Unbound == [handler |-> None, schema |-> None]

\* Calls counted in activeOps: between activeOps.Add and the deferred Done.
Inside == {op \in Ops : pc[op] \in {"admitted", "waiting"}}
Early == {op \in Inside : ~late[op]}

TypeOK ==
    /\ tools \in [Names -> Schemas \cup {None}]
    /\ handlers \in [Names -> Handlers \cup {None}]
    /\ isShuttingDown \in BOOLEAN
    /\ activeOps \in Int
    /\ shutdownOnce \in {"fresh", "running", "done"}
    /\ wait \in {"none", "spawned", "parked", "released", "closed", "panicked"}
    /\ stop \in [Stoppers -> {"idle", "first", "waiting", "blocked",
                              "drained", "gaveUp", "skipped"}]
    /\ pc \in [Ops -> {"idle", "entered", "admitted", "waiting"}]
    /\ call \in [Ops -> Call \cup {NoCall}]
    /\ \A op \in Ops : pc[op] # "idle" => call[op] \in Call
    /\ bound \in [Ops -> Binding]
    /\ ctx \in [Ops -> {"open", "timed", "done"}]
    /\ worker \in [Ops -> {"none", "running", "result", "error"}]
    /\ late \in [Ops -> BOOLEAN]

Init ==
    /\ tools = [n \in Names |-> None]
    /\ handlers = [n \in Names |-> None]
    /\ isShuttingDown = FALSE
    /\ activeOps = 0
    /\ shutdownOnce = "fresh"
    /\ wait = "none"
    /\ stop = [s \in Stoppers |-> "idle"]
    /\ pc = [op \in Ops |-> "idle"]
    /\ call = [op \in Ops |-> NoCall]
    /\ bound = [op \in Ops |-> Unbound]
    /\ ctx = [op \in Ops |-> "open"]
    /\ worker = [op \in Ops |-> "none"]
    /\ late = [op \in Ops |-> FALSE]

-----------------------------------------------------------------------------
(* The registry.  Every operation runs under s.mu.                         *)

PutTool(n, s) ==
    /\ s \in WellFormed
    /\ tools' = [tools EXCEPT ![n] = s]
    /\ UNCHANGED <<handlers, activeOps, wait, shutdown, ops>>

\* A name is registered once, with a well-formed schema; otherwise an error.
RegisterTool(n, s) ==
    /\ tools[n] = None
    /\ PutTool(n, s)

\* The tool must exist; an earlier handler of it is replaced.
RegisterToolHandler(n, h) ==
    /\ tools[n] # None
    /\ handlers' = [handlers EXCEPT ![n] = h]
    /\ UNCHANGED <<tools, activeOps, wait, shutdown, ops>>

-----------------------------------------------------------------------------
(* One call of HandleToolCall or HandleInitialize.                         *)

StartCall(op, c, deadline) ==
    /\ pc[op] = "idle" /\ worker[op] = "none"
    /\ pc' = [pc EXCEPT ![op] = "entered"]
    /\ call' = [call EXCEPT ![op] = c]
    /\ ctx' = [ctx EXCEPT ![op] = deadline]
    /\ UNCHANGED <<registry, activeOps, wait, shutdown, bound, worker, late>>

\* The flag is read as clear (if it is set the call fails and changes nothing).
\* The caller's context may have a deadline.
Enter(op, c, deadline) ==
    /\ ~isShuttingDown
    /\ StartCall(op, c, deadline)

\* A context without deadline gets the default one.
NoDefaultDeadline(c) == c
DefaultDeadline(c) == IF c = "open" /\ TimeoutOn THEN "timed" ELSE c

\* activeOps.Add(1), counted even if the flag has been set since.
Admit(op) ==
    /\ pc[op] = "entered"
    /\ pc' = [pc EXCEPT ![op] = "admitted"]
    /\ activeOps' = activeOps + 1
    /\ late' = [late EXCEPT ![op] = isShuttingDown]
    /\ ctx' = [ctx EXCEPT ![op] = DefaultDeadline(@)]
    /\ UNCHANGED <<registry, wait, shutdown, call, bound, worker>>

DoneForgotten == UNCHANGED <<activeOps, wait>>

DoneReleasesEarly ==
    /\ activeOps' = activeOps - 1
    /\ wait' = IF wait = "parked" /\ activeOps = 2 THEN "released" ELSE wait

\* The deferred activeOps.Done: at zero it releases a Wait that sleeps.
Done ==
    /\ activeOps' = activeOps - 1
    /\ wait' = IF wait = "parked" /\ activeOps = 1 THEN "released" ELSE wait

\* The call returns: its locals are gone, and its deferred cancel ends the
\* context that its handler may still hold.
Return(op) ==
    /\ pc' = [pc EXCEPT ![op] = "idle"]
    /\ bound' = [bound EXCEPT ![op] = Unbound]
    /\ ctx' = [ctx EXCEPT ![op] = "done"]
    /\ late' = [late EXCEPT ![op] = FALSE]
    /\ Done

\* validateInitializeParams; named stands for a client name, a client version
\* and parameters within MaxMessageSize.
ValidInit(c) ==
    /\ c.version \in Supported \cup DatedVersions
    /\ c.named

\* What HandleToolCall checks before it runs the handler of c.name.
Callable(c) ==
    /\ ~(EnableValidation /\ c.args \in Oversize)
    /\ handlers[c.name] # None
    /\ tools[c.name] # None
    /\ EnableValidation => <<tools[c.name], c.args>> \in Accepts

Valid(c) ==
    IF c.method = "initialize" THEN ValidInit(c) ELSE Callable(c)

\* The request is invalid or its tool is unknown: an error, no goroutine.
Reject(op) ==
    /\ pc[op] = "admitted"
    /\ ~Valid(call[op])
    /\ Return(op)
    /\ UNCHANGED <<registry, shutdown, call, worker>>

\* handler and schema are read under one RLock; the handler gets a goroutine.
Dispatch(op) ==
    /\ pc[op] = "admitted"
    /\ Valid(call[op])
    /\ pc' = [pc EXCEPT ![op] = "waiting"]
    /\ bound' = [bound EXCEPT ![op] =
         IF call[op].method = "initialize" THEN Unbound
         ELSE [handler |-> handlers[call[op].name], schema |-> tools[call[op].name]]]
    /\ worker' = [worker EXCEPT ![op] = "running"]
    /\ UNCHANGED <<registry, activeOps, wait, shutdown, call, ctx, late>>

NotWrapped(outcome) == outcome

\* The wrapper of RegisterToolHandler turns a panic into an error.
WrappedHandler(outcome) ==
    IF outcome = "panic" THEN "error" ELSE outcome

\* The goroutine ends and leaves w in a buffered channel that may be garbage.
WorkerSends(op, w) ==
    /\ worker[op] = "running"
    /\ worker' = [worker EXCEPT ![op] = IF pc[op] = "waiting" THEN w ELSE "none"]
    /\ UNCHANGED <<registry, activeOps, wait, shutdown, pc, call, bound, ctx, late>>

\* A tool handler ends when and as it likes, whatever its context says.
HandlerEnds(op) ==
    /\ call[op].method = "tools/call"
    /\ \E outcome \in {"result", "error", "panic"} : WorkerSends(op, WrappedHandler(outcome))

\* After its sleep the goroutine of HandleInitialize sends the result, or
\* the context's error if the context has ended (select picks either one).
InitializeEnds(op) ==
    /\ call[op].method = "initialize"
    /\ \/ WorkerSends(op, "result")
       \/ ctx[op] = "done" /\ WorkerSends(op, "error")

\* The deadline of the context passes, or its caller cancels it.
DeadlinePasses(op) ==
    /\ pc[op] # "idle" /\ ctx[op] = "timed"
    /\ ctx' = [ctx EXCEPT ![op] = "done"]
    /\ UNCHANGED <<registry, activeOps, wait, shutdown, pc, call, bound, worker, late>>

CallerCancels(op) ==
    /\ pc[op] # "idle" /\ ctx[op] # "done"
    /\ ctx' = [ctx EXCEPT ![op] = "done"]
    /\ UNCHANGED <<registry, activeOps, wait, shutdown, pc, call, bound, worker, late>>

\* The final select: any ready case may be taken.
ReturnReply(op) ==
    /\ pc[op] = "waiting"
    /\ worker[op] \in {"result", "error"}
    /\ Return(op)
    /\ worker' = [worker EXCEPT ![op] = "none"]
    /\ UNCHANGED <<registry, shutdown, call>>

\* The handler may still be running: nothing tracks it from here on.
ReturnTimeout(op) ==
    /\ pc[op] = "waiting"
    /\ ctx[op] = "done"
    /\ Return(op)
    /\ worker' = [worker EXCEPT ![op] = IF @ = "running" THEN @ ELSE "none"]
    /\ UNCHANGED <<registry, shutdown, call>>

-----------------------------------------------------------------------------
(* Stop.                                                                   *)

\* shutdownOnce.Do: the first caller runs the function, the others wait.
StopCalled(s) ==
    /\ stop[s] = "idle"
    /\ stop' = [stop EXCEPT ![s] = IF shutdownOnce = "fresh" THEN "first" ELSE "blocked"]
    /\ shutdownOnce' = IF shutdownOnce = "fresh" THEN "running" ELSE shutdownOnce
    /\ UNCHANGED <<registry, isShuttingDown, activeOps, wait, ops>>

\* The flag is set under the lock and the waiting goroutine started.
SetShuttingDown(s) ==
    /\ stop[s] = "first"
    /\ stop' = [stop EXCEPT ![s] = "waiting"]
    /\ isShuttingDown' = TRUE
    /\ wait' = "spawned"
    /\ UNCHANGED <<registry, activeOps, shutdownOnce, ops>>

WaitSkipped ==
    /\ wait = "spawned"
    /\ wait' = "closed"
    /\ UNCHANGED <<registry, activeOps, shutdown, ops>>

\* activeOps.Wait returns at once if the counter is zero, else it sleeps.
WaitStarts ==
    /\ wait = "spawned"
    /\ wait' = IF activeOps = 0 THEN "closed" ELSE "parked"
    /\ UNCHANGED <<registry, activeOps, shutdown, ops>>

\* A Wait that was woken checks that the counter was not used again.
WaitResumes ==
    /\ wait = "released"
    /\ wait' = IF activeOps = 0 THEN "closed" ELSE "panicked"
    /\ UNCHANGED <<registry, activeOps, shutdown, ops>>

\* The first caller sees done closed and returns nil ...
StopDrained(s) ==
    /\ stop[s] = "waiting"
    /\ wait = "closed"
    /\ stop' = [stop EXCEPT ![s] = "drained"]
    /\ shutdownOnce' = "done"
    /\ UNCHANGED <<registry, isShuttingDown, activeOps, wait, ops>>

\* ... or its context has ended, at any time, and it returns that error.
StopGivesUp(s) ==
    /\ stop[s] = "waiting"
    /\ stop' = [stop EXCEPT ![s] = "gaveUp"]
    /\ shutdownOnce' = "done"
    /\ UNCHANGED <<registry, isShuttingDown, activeOps, wait, ops>>

ReturnNil(s) ==
    /\ stop[s] = "blocked"
    /\ stop' = [stop EXCEPT ![s] = "skipped"]
    /\ UNCHANGED <<registry, isShuttingDown, activeOps, shutdownOnce, wait, ops>>

\* Every other caller returns nil when the first one is through.
StopSkipped(s) ==
    /\ shutdownOnce = "done"
    /\ ReturnNil(s)

-----------------------------------------------------------------------------
RegistryStep ==
    \E n \in Names :
        \/ \E s \in Schemas : RegisterTool(n, s)
        \/ \E h \in Handlers : RegisterToolHandler(n, h)

OpStep(op) ==
    \/ \E c \in Call, deadline \in {"open", "timed"} : Enter(op, c, deadline)
    \/ Admit(op) \/ Reject(op) \/ Dispatch(op)
    \/ HandlerEnds(op) \/ InitializeEnds(op)
    \/ DeadlinePasses(op) \/ CallerCancels(op)
    \/ ReturnReply(op) \/ ReturnTimeout(op)

StopStep(s) ==
    \/ StopCalled(s) \/ SetShuttingDown(s)
    \/ StopDrained(s) \/ StopGivesUp(s) \/ StopSkipped(s)

Next ==
    /\ wait # "panicked"
    /\ \/ RegistryStep
       \/ \E op \in Ops : OpStep(op)
       \/ \E s \in Stoppers : StopStep(s)
       \/ WaitStarts
       \/ WaitResumes

Spec == Init /\ [][Next]_vars

\* Goroutines that can run do run and timers fire.  Nothing makes a caller
\* call or cancel, a handler end, or a Stop context expire.
Alive(A) == wait # "panicked" /\ A

Fairness ==
    /\ \A op \in Ops :
        /\ WF_vars(Alive(Admit(op)))
        /\ WF_vars(Alive(Reject(op) \/ Dispatch(op)))
        /\ WF_vars(Alive(InitializeEnds(op)))
        /\ WF_vars(Alive(DeadlinePasses(op)))
        /\ WF_vars(Alive(ReturnReply(op) \/ ReturnTimeout(op)))
    /\ \A s \in Stoppers :
        /\ WF_vars(Alive(SetShuttingDown(s)))
        /\ WF_vars(Alive(StopDrained(s)))
        /\ WF_vars(Alive(StopSkipped(s)))
    /\ WF_vars(Alive(WaitStarts))
    /\ WF_vars(Alive(WaitResumes))

FairSpec == Spec /\ Fairness

-----------------------------------------------------------------------------
(* Properties.                                                             *)

\* Every return path of a call undoes its Add exactly once: the counter Stop
\* waits for is the number of calls between Add and Done (lines 452-453).
ActiveOpsExact == activeOps = Cardinality(Inside)

\* When Stop reports success, every operation that was counted before the
\* shutdown began has returned (lines 539-552).  Late ones may be running.
GracefulStop ==
    (\E s \in Stoppers : stop[s] = "drained") => Early = {}

\* A caller of Stop that did not run the shutdown itself returns only when
\* the one that did is through (shutdownOnce.Do, line 534).
NoStopOvertakes ==
    (\E s \in Stoppers : stop[s] = "skipped")
      => /\ isShuttingDown
         /\ \E t \in Stoppers : stop[t] \in {"drained", "gaveUp"}

\* The WaitGroup brings the process down only when every call that was counted
\* in time has returned and one that read the flag too early is running: no
\* server dies whose callers stop calling before Stop does (lines 447-449
\* against 542-545).
PanicNeedsOvertaking == wait = "panicked" => Early = {} /\ Inside # {}

\* While a validated tool call runs, the schema it was checked against is
\* well-formed and still the registered one, and the tool has a handler: no
\* registration that races the call invalidates the check (lines 133-195
\* against 470-488).
ValidatedWhileRunning ==
    \A op \in Ops :
        pc[op] = "waiting" /\ call[op].method = "tools/call" =>
            /\ handlers[call[op].name] # None
            /\ bound[op].handler # None
            /\ bound[op].schema = tools[call[op].name]
            /\ bound[op].schema \in WellFormed
            /\ EnableValidation => <<bound[op].schema, call[op].args>> \in Accepts

\* With a default timeout every call returns, whether or not its handler ever
\* does (lines 456-460, 504-511) - unless the process has died.
CallReturns ==
    TimeoutOn => \A op \in Ops :
        pc[op] = "entered" ~> (pc[op] = "idle" \/ wait = "panicked")

\* With a default timeout every Stop returns, even if no Stop context ends.
StopReturns ==
    TimeoutOn => \A s \in Stoppers :
        stop[s] # "idle" ~> (\/ stop[s] \in {"drained", "gaveUp", "skipped"}
                             \/ wait = "panicked")

-----------------------------------------------------------------------------
(* BaseServer implements ShutdownGate: a call holds a ticket from the read  *)
(* of the flag to its Add.                                                 *)
Gate == INSTANCE ShutdownGate WITH
    open <- ~isShuttingDown,
    ticket <- {op \in Ops : pc[op] = "entered"},
    early <- Early,
    lateOps <- Inside \ Early,
    drained <- \E s \in Stoppers : stop[s] = "drained"

\* Every step is a step of the gate or changes nothing of it.
ImplementsGate == Gate!Spec
=============================================================================
