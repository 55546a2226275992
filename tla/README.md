# TLA+ verification of go-mcp-sdk

A Go SDK for the Model Context Protocol: clients and servers that exchange
JSON-RPC messages over standard input and output, WebSocket, or HTTP with
server-sent events (SSE). These modules model the server object with its graceful
shutdown, its resources and its validation of parameters, and both ends of each of
the three transports.
TLC checks small instances; TLAPS proves the main theorems for all of them.

Line numbers refer to `src/`; `server.go` is `pkg/server/server.go`, "client
stdio.go" is `pkg/client/stdio/stdio.go`, "server stdio.go" is
`pkg/server/stdio/stdio.go`, and likewise "client ws.go", "server ws.go", "client
sse.go" and "server sse.go".

## The system

| component | state | operations | what makes it correct |
|---|---|---|---|
| BaseServer (`server.go`) | maps of tools, handlers, resources under an RWMutex; `isShuttingDown`; WaitGroup `activeOps`; `shutdownOnce` | RegisterTool, RegisterToolHandler, RegisterResource, HandleInitialize, HandleToolCall, Start, Stop, GetTools, ApplyResourceTemplate | a Stop that succeeds has waited for the calls in progress; calls return at their deadline; a running call was validated against the schema that is registered |
| Stdio client (client `stdio.go`) | `nextID`, `pendingRequests` (id to channel) and the write side under one mutex; goroutines of `readLoop`; handlers | Initialize, SendRequest, SendNotification, SendProgress, ListTools, ExecuteTool, ... (all by SendRequest) | each call gets the response to its own request, exactly one; calls end; the process survives |
| Stdio server (server `stdio.go`) | decoder, `done` channel, WaitGroup of `readLoop` | Start, Stop, readLoop, handleRequest, batches | each request is answered once, in order; Stop returns |
| WebSocket client (`pkg/client/ws/ws.go`) | connection, `errorChan`, `responseChan`, state | connectionManager (reconnects), readLoop, requests, Close | a broken connection is replaced; a request gets its own response |
| WebSocket server (`pkg/server/ws/ws.go`) | `sync.Map` of connections; per connection a read deadline, a ping goroutine, a send buffer | handleWS (handshake, read pump, pings), Publish, Stop | an open connection is in the map; Stop closes what it finds; clients that answer stay, clients that vanish go |
| SSE client (`pkg/client/sse/sse.go`) | event channel, a mutex held across each HTTP request | sendRequest and the calls built on it, subscription, event loop, Close | a hanging handler does not block other calls for good |
| SSE server (`pkg/server/sse/sse.go`) | event stream, HTTP server | handleEvents, handleRPC, Publish, Stop | handlers end with their request; Stop returns |
| Validation (`pkg/validation/validation.go`) | none | ValidateParameters | accepts exactly what the schema describes, at every depth |
| Resources (`server.go:197-205, 560-624`) | resources of BaseServer | RegisterResource, ApplyResourceTemplate | the template in use is the registered one; the result does not depend on the order of a map |
| Session (`pkg/client/client.go`) | none of its own | forwards to a client | - |
| Types (`pkg/types/types.go`) | none | messages, errors, decoding | - |

How they interact: a transport decodes a request and calls `HandleInitialize`
or `HandleToolCall` of the one BaseServer, in its own goroutine; that call
starts a goroutine for the tool's handler and waits for it or for a deadline.
On the client side any goroutine may call `SendRequest`; it writes under `c.mu`
and waits on a channel of its own, into which `readLoop` - started by
`Initialize` - puts the response. The WebSocket client has one channel for all
responses and one for errors, from which its connection manager receives too. The
WebSocket server has one goroutine per connection that reads and answers, one that
pings, and any number that publish. A call of the SSE client is an HTTP request of
its own; events come on a separate stream.

The hard behaviours: the read of the shutdown flag outside the lock; calls that time
out while their handler runs on; a channel looked up under the lock and used after
it; a mutex held across a blocking write or round trip; late, duplicate and unknown
responses; two read loops whose scanners read ahead from one stream; a peer that closes its pipes, or vanishes without a word; a decoder that
is stuck after bad input; connections registered while Stop ranges over the map;
writers of one connection with no lock between them; a read deadline that races the
pongs; a cached method name that is read and written without a lock.

## The modules

| module | models | built on |
|---|---|---|
| `ShutdownGate` | what a graceful shutdown promises, without counter, Once, goroutines or contexts | - |
| `BaseServer` | registry, HandleToolCall, HandleInitialize, Stop | implements `ShutdownGate` (`Gate == INSTANCE ... WITH`, `ImplementsGate`) |
| `BaseServerProofs` | the theorems about BaseServer | `BaseServer`, TLAPS |
| `Pipe` | an io.Pipe (capacity 0) or OS pipe as pure operators | - |
| `StdioClient` | SendRequest, SendNotification, Initialize, ListTools, readLoop with its handlers, against any server | `Pipe` |
| `StdioServer` | readLoop, handleRequest, batches, Stop against any client | `Pipe` |
| `StdioClientProofs` | the theorems about StdioClient | `StdioClient`, TLAPS |
| `StdioServerProofs` | the theorems about StdioServer | `StdioServer`, TLAPS |
| `RequestReply` | what the callers of a stdio client may expect of it and its server, without pipes, locks, channels or read loops | - |
| `StdioSystem` | client and server joined by two pipes | instances of both; implements `RequestReply` (`R == INSTANCE ... WITH`, `ImplementsRequestReply`) |
| `StdioSystemProofs` | the theorems about StdioSystem | `StdioSystem`, an instance of `StdioClientProofs`, TLAPS |
| `WsClient` | calls, ListTools, connectionManager, connect, readLoop and Close of the WebSocket client, against a server like `pkg/server/ws` | - |
| `WsClientProofs` | the theorems about WsClient | `WsClient`, TLAPS |
| `WsServer` | handshake, read pump, pings, deadlines, Publish and Stop of the WebSocket server, against any clients | - |
| `WsServerProofs` | the theorems about WsServer | `WsServer`, TLAPS |
| `Sse` | calls, events and Close of the SSE client together with handleRPC, the event stream and Stop of its server | - |
| `SseProofs` | the theorem about Sse | `Sse`, TLAPS |
| `Validation` | ValidateParameters, and its reference definition `Conforms` | - |
| `Resources` | RegisterResource and ApplyResourceTemplate, with any check of the parameters | - |
| `ResourcesProofs` | the theorems about Resources | `Resources`, TLAPS |
| `ValidatedResources` | Resources with the checks of Validation, and the properties of both | `Resources`, `Validation` |
| `MC...` | the instances for TLC | |

**BaseServer.** A slot of `Ops` is one goroutine calling the server. Its
progress `pc` goes through *entered* (flag read as clear, lines 345/447),
*admitted* (after `activeOps.Add`), *waiting* (the final select) and back to
*idle*; every way back undoes the Add in `Return`, as the deferred `Done` does.
`worker` is the goroutine that runs the handler: it outlives the call when the
call times out. `stop` is the progress of each caller of Stop through
`shutdownOnce.Do`; `wait` is the goroutine in `activeOps.Wait`. The WaitGroup
is modelled with its documented rule of reuse: a Wait that slept is *released*
when the counter reaches zero and panics if the counter is positive again when
it runs. Data is abstract: a schema is a model value, whether it is well-formed
and which arguments it accepts are the constants `WellFormed` and `Accepts`
(the relation computed by `ValidateParameters`).

**StdioClient.** `c.mu` is free between two steps except while a caller is
blocked in its write, so the variable `mu` names only that caller. `Lookup`
(under the lock) and `Deliver` (after it) are separate steps; a send on a
channel that was closed in between is `DeliverPanics` and stops everything.
`SendRequest` ends in `Cleanup`, the deferred function; an Initialize that
succeeded goes on to `notifications/initialized` from there. A read loop has
the context of the Initialize that started it: `LoopTop` looks at it only
between two messages. It also has a bufio.Scanner of its own over the one stream
(lines 101-105): a Read (`Fill`) takes as many bytes as there are, so any number of
whole lines moves to the `buffer` of the loop, which hands them on one by one
(`Scan`, `Skim`) and takes them with it when it ends. A Read may also end in the
middle of a line (`begun`); when another loop then reads on, it gets the rest of that
line, which is no message (`Garbled`, `Garbage`), and the first loop puts what it has
in front of whatever it reads next (`spoiled`). A handler of a notification runs in
the loop, which reads nothing until it returns; a line beyond the buffer of the
scanner ends the loop.
ListTools is a chain of requests: `Cleanup` of one leads to the next (`Fallback`) or
to `ListSaves`. The name it remembers, `cached`, is guarded by nothing: while another
caller is about to write it (`Saving`, `Clearing`), a read may see either value
(`Sees`) or a mixture of pointer and length - `Unknown`, a method nobody has, or
`ListCrashes`. In `OpenSpec` the other end is any server: it reads when it likes,
answers what it has read, in any order and number, sends unknown ids and other lines,
and may exit or outlive the client. In `AnsweringSpec` it reads on, sends responses,
perhaps several to one request, only to what it has read, and does not exit.

**StdioServer.** `todo` holds the requests of the current message, one or a
batch, `message` all of them, `out` the responses so far. `ReplyTo` is the method
table of `handleRequest`; the calls into BaseServer may succeed or fail. A message that
is not JSON leaves the decoder stuck (`broken`): encoding/json reports the same
error from then on. A message of the wrong types does not. In `OpenSpec` the other
end is any client; it may turn to something else after each message that it reads
(`ClientReads`), and in `FairOpenSpec` it comes back to its reading.

**StdioSystem.** The client's other end is the server and the converse: the
environments of the two modules are dropped and the pipes shared. `Places` says where
a request, or its response, is: in a pipe, in the hands of the server or of a read
loop, or in the channel of its caller. What an application sees of all this is
`RequestReply`: a call makes a request with a fresh id, sends it and waits; what was
sent is carried out once and in order, whether its call still waits or not; the answer
waits for the call that asked and is lost only if that call gives up - or once the
reading is disturbed: after a second Initialize, or the end of the read loop, answers
may be lost (`Disturb`). In the mapping, `steady` says that Initialize was called once
at most and its loop has not ended (`Steady`),
`asked` is the message in the server's hands and those in its pipe, and `Answers` the
responses on their way to a call that still waits: a late response, a read loop that
drops one, a lock and the map of requests are steps nobody sees.

**WsClient.** `link` is what has become of each connection; `unread` and `wire`
are what is under way on it. `errorChan` and `responseChan` have no buffer, so a
readLoop hands over in the step of its receiver: `ManagerTakesError`,
`ReceiveError`, `ReceiveResponse`. `ReaderTop` reads `c.conn` for each message, as
the code does. `connect` is `BackoffEnds` (the compare-and-swap), `DialSucceeds`
or `DialFails`, and `ConnectStores`; where the code changes `c.conn` and `c.state`
one after the other, nobody reads one without the other, and the two are one
step. `Fails` is any failure of a request: `ListTools` tries its next method, also
when the context has ended. A write on a connection that the other side has left
may succeed or fail. A slot of `Conns` is dialled again once it is closed and no
readLoop uses it, so two slots are an unbounded number of reconnections. `stray`
remembers that a context ended, an event was published or two calls overlapped.

**WsServer.** `pump` is the progress of handleWS for a connection: accepted,
upgraded, in the map and reading, in a tool call, in the write of a response, and out
through its deferred Delete and Close. `link` is the connection itself, `outbox` the
frames in its send buffer, `silent` the ping intervals since SetReadDeadline, moved
by `Tick`, which also fires the ticker. A write is two steps (`StartWrite`,
`WriteEnds`), because nothing keeps two writers apart: those that meet are `clashed`,
and gorilla panics in one of them or in none. The panic of the pump is recovered by
net/http and runs its deferred calls; that of a publisher is `dead`. A Range over the
sync.Map visits each key once, and each that stays from its beginning to its end
(`todo`, `seen`; `early` for Stop). A ping that finds the buffer full makes later
writes fail ("stuffed"); a data write has no deadline.

**Sse.** A call is a row of `phase`: queued for `c.mu`, sent, in the server's
handler, answered, over; `cut` says that its connection is closed. The client may
abort, and the server's handler then ends when it notices (`ContextCancelled`), or
may still begin (`Accept`). `sub`, `stream` and `loop` are the subscription, its
connection and the goroutine that takes events; `close` and `stop` the progress of
Close and Stop. What a call returns is left out.

**Validation and Resources.** What a check of parameters accepts is the constant
`Accepted` of `Resources`, for which the instance takes `ValidateParameters` of
`Validation`; the two meet in `ValidatedResources`. That check is a recursive operator
over values and schemas (`ValidateNestedParameter`); `Conforms` says the same by
positions: every place in the value is one the schema knows. `Substitute` is one turn
of the loop over the map of parameters, in any order; URIs are sequences of tokens in
which the braces are tokens of their own, so that a parameter may bring a placeholder
with it.

## What the runs check

| run | instance | shows |
|---|---|---|
| `base` | 2 calls, 2 callers of Stop, 2 schemas, one that refuses the arguments, fair | counter exact, graceful Stop, order of Stops, when a panic is possible, validation under racing registrations, refinement of `ShutdownGate`; `CallReturns`, `StopReturns` |
| `client_safety` | 2 callers, 1 read loop, 2 ids, io.Pipe | entries, own responses, room in the channel |
| `client_two_readers` | 1 caller, 2 read loops that may end, 1 id, 2 unread messages, handlers | with a second Initialize, a response to a call that waits is lost only in the buffer of a loop whose context is done, or in a line torn between two loops |
| `client_panic` | 1 caller, 1 id | refutes `NoPanic`: send on a closed channel |
| `server` | every method with good and bad parameters, 4 batches, fair | responses account for requests; readLoop never hangs; Stop returns once the client is gone |
| `system` | 2 callers, pipes with room for 4 messages, one read loop, a server that knows `tools/list`, nobody stops the server, fair | each request, ListTools' included, handled and answered exactly once, to its caller; `initialized` only after an accepted initialize; every request ends; refinement of `RequestReply` |
| `system_gridlock` | 2 callers, io.Pipe, 3 ids | refutes `NoGridlock` |
| `ws_client` | 1 caller, 2 connections, a server without `tools/list`, fair | one reader, own responses of sequential calls, `CloseEndsManager`, `ExpiredCallsReturn` |
| `ws_reconnect` | as above | refutes `KeepsTrying`: a reconnection that fails is the last |
| `ws_server` | 1 connection, 2 publishers, a buffer of 1 frame, a deadline of 2 intervals, fair | what is served is registered; Stop closes what it found; the deadline spares clients that answer and removes those that do not; Publish ends |
| `resources` | 39 schemas and URIs, 61 sets of parameters, a registration in between | the recursive check is exact; the looked-up template is current; the order of the map makes no difference |
| `sse` | 2 callers, 2 calls, a tool that hangs, Close and Stop at any time, fair | tool calls overlap only after a timeout; calls with deadlines return; Stop returns once the client is closed |

Deadlock is not checked: in every instance the system may really stop (the
process has panicked, a read loop or the server has ended, or all calls the id
bound allows have been made).

### Bounds

Two calls and two callers of Stop are the least with which a counter can go
up while another operation goes down and a second Stop can meet a first; the
proofs lift the bound. Two callers and one read loop give every overlap of one
call's cleanup with another's registration and the reader's two halves; two
read loops give the sharing of the pipe, and with two unread messages one Read takes
several lines, or one and a part of the next. `MaxId` bounds the requests ever sent
(ids 2 to `MaxId`; the counter starts at 1), so that a late response of one call
can meet the next call of the same goroutine. The request that follows a remembered
method which the server has forgotten is a third one: only the proofs reach it.
`Listings` make requests for `ListNew` and the others, which the runs of the client
do not tell apart, since any server may answer anything; `system` does. `Cap` is the
number of unread messages a pipe holds, 0 for io.Pipe. Batches have up to three members, with and
without notifications. In `ws_client` one caller makes two calls, the least that
`SequentialCallsMatch` needs to confuse them; it competes with the manager for the
errors of readLoop, and its ListTools goes through three methods. Overlapping
callers are in the proofs.

In `ws_server` one connection meets two publishers, the read pump and Stop, all the
writers that can clash; two intervals are the least deadline that survives one ping,
and one frame of buffer makes it full at once. Two connections, among which Range
and Stop choose, are in the proofs. In `resources` the schemas nest two deep, with
objects in arrays and the converse, and the values are those that fit, miss a field,
have one too many or are of a wrong type at each depth. In `sse` one call waits for
the other's round trip, and one can be given up while the other runs.

### Fairness

Goroutines that can run do run, and timers fire: weak fairness per step in
BaseServer and StdioServer. Strong fairness for the goroutines of the client,
which compete for `c.mu`: Go's mutex hands itself over to a waiter that has
starved for a millisecond. Nothing makes a user call, a caller cancel, a tool
handler end, a context of Stop expire, or a peer send or close. In WsClient also the manager has
strong fairness, since it too competes for `c.mu`, and a dial that is tried
infinitely often succeeds some time. The handlers of notifications of the stdio
client return. `system` drops the steps that stop the server or end the read loop's
context, and keeps those that end the contexts of calls.

In WsServer a connection has strong fairness for the steps of its pump, and a
publisher for its own: writers of one connection queue in a channel, which is served
in turn. Tool calls end (`CallReturns` of BaseServer), time passes, and a client that
is alive reads; nothing makes a client send, vanish or break, or anybody call Stop.
In Sse callers set deadlines (weak fairness of `ContextEnds`), the mutex is fair, and
both processes run; tool handlers, the network, Close and Stop owe nothing.

## What is proved

`BaseServerProofs`, for every number of calls, stoppers, tools, schemas and
handlers, from the assumption `BaseServerAssumption` (the finiteness of `Ops` and
the types of the constants):

- `TypeCorrect`: the type invariant.
- `CounterIsExact`: `activeOps` is the number of calls between Add and Done.
  Finite-set cardinality lemmas for a call that enters (`Admit`) and one that
  leaves (`Return`).
- `StopIsGraceful`, `StopsAreOrdered`, `PanicIsOvertaking`: from the inductive
  invariant `ShutdownInv`. `GracefulStop` is not inductive: that Stop drained
  says nothing of the goroutine that waits. The invariant adds what the
  progress of the stoppers says of the Once, the flag and that goroutine
  (`OnceInv`), and that no early call is left once that goroutine was released
  (`DrainInv`), for which the exact counter is needed: at zero nobody is inside.
- `CallsStayValid`: registered schemas are well-formed and never replaced, so what
  a running call was checked against is still there.
- `ServerImplementsGate`: each step of BaseServer maps to a step of
  `ShutdownGate` or to a stutter; the report of success maps to `Report`, whose
  guard is `DrainInv`.

`StdioClientProofs`, for every number of callers and read loops, any bound on ids,
any capacity of the pipes and any server (`OpenSpec`), from `StdioClientAssumption`:

- `ClientTypeCorrect`: the type invariant, with the invariant of which callers
  have a request (`CallInv`).
- `MapIsSound`, `IdsAreDistinct`, `ResponsesAreOwn`: `PendingOpen`, `IdsDistinct` and
  `OwnResponse` from the inductive invariant `TableInv`. It adds that ids in flight
  were given out and have an open channel (`IdInv`), so that a fresh id meets none
  of them, and that a channel holds only responses with its own id (`SentInv`). No run
  checks `IdsDistinct` by itself: a request with an id that is not fresh is no step of
  `RequestReply`.
- `RoomForResponses`: `OneReaderNeverBlocks` from `RoomInv`. While one loop runs
  (`Alone`), an entry of the map whose channel is full is one this loop is about to
  delete (`FullIsDeleted`), so it never looks up a full channel. Two loops break
  `Alone`, and the invariant says nothing then. The finiteness of `Loops` is used to
  read "the number of active loops is 1" as "any two are the same".
- `ReadersLoseNothingElse`: `LostOnlyByReaders`, action by action: no step of any read
  loop, caller or server takes the last response under way from a call that waits,
  unless that response is in the buffer of a loop whose context is done, or is torn. It
  needs `KeptInv`: the entry of a call that waits leaves the map only after a response
  to it has been put into its channel, so what is looked up finds its call.

`WsClientProofs`, for every number of callers and connections, from
`WsClientAssumption`:

- `WsTypeCorrect`, with what callers, readLoops and connect() hold (`HoldsInv`) and
  who holds `c.mu` (`WritingInv`).
- `OneReader`: `ReaderIsCurrent` is inductive with the types. The manager leaves its
  select only for an error, which the only readLoop has handed over as its last act.
- `SequentialCalls`: `SequentialCallsMatch` from `SequentialInv`. On the connection
  that is read there is nothing, or only the request of the one call or its answer;
  what a broken connection still held is never read; a new one starts empty, and
  nobody writes to it before it is stored (`Dropped`).

`WsServerProofs`, for every number of connections and publishers, any buffer and any
deadline of two intervals or more, from `WsServerAssumption`:

- `WsServerTypeCorrect`, among it the bound of the send buffers.
- `ServedAreRegistered`, `StopClosesThem` and `LiveOnesStay` from one inductive
  invariant, `IInv`. It adds that a connection in the map, or at which a Range may
  be, has a pump that has got that far (`MapKnown`); that a publisher deletes only
  what it has closed (`DeletesClosed`), without which `ServedIsRegistered` is not
  inductive; what has become of each connection that Stop found (`EarlyAccounted`,
  `EarlyLater`); and that on an open connection whose client answers, no interval has
  passed since the deadline was set, or one has and its pong is there (`PongInTime`).

`StdioServerProofs`, for any client, batches of any length and any capacity of the
pipes (`OpenSpec`), from `StdioServerAssumption` (among it, that a notification has a
kind of its own) and `BatchesAssumption` (line 95 takes no empty batch):

- `ServerTypeCorrect`.
- `RequestsAreAnswered`: `EachRequestAnswered` says, by positions, that responses
  follow the requests handled so far: there is an increasing map from the responses
  made onto the singles that want one. It is inductive with the types, the types of
  what is in the pipe (`WireOK`) and with something left to handle (`HandleInv`); the
  proof extends the map by one position when a response is appended.

`SseProofs`, for any number of callers and calls, from `SseAssumption`:

- `ExchangesAreSound`: while the client lives, whoever has sent its request holds the
  mutex until it returns (`SenderHolds`), so a request under way on an open connection
  is the holder's (`UnderWayIsHolders`), and there is only one. Callers have different
  calls (`CallsApart`), without which a step of one would disturb another's.

`StdioSystemProofs`, for any numbers of callers and read loops, any bound on ids, any
capacity of the pipes and with Stop, timeouts and lost contexts at any time, from
`StdioSystemAssumption`. What says that something is *not lost* is restricted to
`Steady` times: with a second read loop, or after the end of the first, lines are lost
in the code. That nothing is doubled or misdirected needs no such restriction.

- `SystemInvariant`: the inductive invariant `IInv`. It says of the server that it has
  one message in hand at a time (`ServerInv`) and closes both pipes as its last act
  (`PipesInv`); of each request under way that it asks what its caller asked, and of
  each response that it answers that request (`MessagesInv`, `CarriedInv`), up to
  what a channel holds or a call has received; and that a request or response is in
  one place only (`Single`), and in one as long as its caller waits and times are
  steady (`NotLost`). The last is inductive only with `HeldInv`: a read loop may drop a
  response, but an entry that it drops, or does not find, is of a call that has given
  up or has its response; and with `ReaderInv`: a single loop's lines are not torn.
- `ClientRunsOpen`, `ServerRunsOpen`: every step of the system is one of `StdioClient`
  or of any server, and one of `StdioServer` or of any client; so what is proved of
  the two modules alone is true in the system. The step of the server is shown to be
  one of `CP!ServerStep` first (`ServerMoves`), and then the client's invariants,
  instanced as `CP`, hold here too and are part of `IInv`.
- `QuestionsGetTheirAnswers`, `WelcomeComesFirst` and `NothingIsLostOrDoubled`:
  `AnswersMyQuestion`, `InitializedAfterWelcome` and `ExactlyOnce`. None is inductive:
  a late response in any of the seven places could be the next one received. For the
  second, the response that lets Initialize go on carries in `AnswerTo` that the
  server has accepted. `ExactlyOnce` says of any number of read loops that nothing is
  doubled, and of steady times that nothing is lost.
- `SystemImplementsRequestReply`: each step of the system maps to a step of
  `RequestReply` or to a stutter. What a read loop loses in times that are not steady
  is `Disturb`. A write that completes is `Send`, handleRequest
  is `CarryOut` or `TakeNotice`, the select of the caller `Receive` or `GiveUp`. The
  steps of read loops and of the server's write must change no answer that a call still
  waits for in steady times (`HandedOn`, `MovedOn`): that a read loop drops none of these is `HeldInv`
  with `Single`. A request that is being written has no answer (`NoAnswerYet`, from
  `MessagesInv`); when a call leaves its select only its own answer goes, since ids
  differ (`NoLongerWaiting`, from `TableInv`); and what it takes from its channel is an
  answer to its id (`SentInv`).
- `TwoWaysToPanic`: the panic of `client_panic` needs a call whose context ends, or
  ListTools calls that overlap. While neither happens, whatever is under way belongs
  to a call that waits (`NothingIsLate`), so no call closes a channel before a send
  (`SendsOnOpen`), with any number of read loops and also when the server exits.
- `GridlockNeedsCallers`: the gridlock of `system_gridlock` needs `Cap + 2` callers,
  or a call that gives up, or a notification that the server answers. In a gridlock
  the pipe to the client is full and the server holds one more response; a different
  call waits for each of these `Cap + 1` (`NothingIsLate`, `Single` and the pigeonhole
  theorem of the library), and the writer is none of them (`AllWait`). The bound is
  exact: with the two callers and the `Cap = 0` of the run, TLC finds a gridlock also
  if `Spec` is cut to steps after which no context has ended; its calls send no
  notifications.

`ResourcesProofs`, for any resources, requests, goroutines and checks, from
`ResourcesAssumption`:

- `RegistryIsSound`: `RegistrySound` is inductive once the types include what is left
  of the parameters: a resource is added only where there is none.
- `ResultsAreChecked`: a result is made only from a template, and with validation only
  from one whose schema, if it has one, accepts the parameters (`CheckedInv`).

Only model-checked:

- liveness, which is out of the prover's reach with the `ENABLED` of its fairness:
  `CallReturns`, `StopReturns`, `StopReturnsAfterClose`, `KeepsReading`,
  `CallsEnd`, `CloseEndsManager`, `ExpiredCallsReturn`,
  `GoneClientsLeave`, `PublishEndsAnyway`, `CallsReturn` and `StopReturnsOnceClosed`;
- `ValidationExact` and `OrderMakesNoDifference`, which say what recursive definitions
  compute for every input: induction over data, which needs operators as parameters
  of a theorem.

## Where the code departs from what it says

Checked by the refuting runs: `NoPanic` (client stdio.go:176), `KeepsTrying` (client
ws.go:121), `NoGridlock` (client stdio.go:399). What the first and the last need is
proved: `TwoWaysToPanic`, `GridlockNeedsCallers`. The models have these too, and no
run states them:

- *BaseServer.* A call that read the flag (line 447) before Stop set it may run after
  Stop has returned nil (531, 552), and a handler whose call timed out runs on.
- *Stdio client.* Calls in flight are not told when the server closes its pipe or
  sends an overlong line; readLoop ends with the context that was passed to
  Initialize, and with it go the lines in its buffer; after a second Initialize two
  loops read one stream and may tear its lines (101-112, 194), which loses responses
  although the server sent them; a handler that calls the client waits for the loop it
  runs in; ListTools calls that race may ask for no method, or crash (241-242).
- *Stdio server.* After a syntax error the decoder reports that error for ever
  (line 82), although `implementation_status.md:18` counts recovery after
  errors as done; Stop waits for a readLoop blocked in Decode (65, 82), so with a client
  that is silent and pipes that are open it does not return, whereas
  `test/server/server_test.go:100,157,211` call Stop before they close the pipes and
  assert that it succeeds: `StopReturnsAfterClose` is what does hold, and without its
  `toServer.closed` TLC refutes it in six states. A `tools/call` without params is
  answered InvalidParams (148-153), as `ReplyTo` and `EachRequestAnswered` have it;
  `test/server/server_test.go:203-208` asserts MethodNotFound. Notifications the server
  does not know are answered with an error of id 0.
- *WebSocket client.* A call in flight may take the error that was meant for the
  connection manager, after which nobody reconnects; a late response, or a published
  event, is taken for the answer to whatever call waits; a normal closure ends
  readLoop without a reconnection; a connection that is dialled while Close runs
  stays open; a readLoop whose message nobody takes waits for ever.
- *WebSocket server.* The pump and publishers write to one connection at once, and
  gorilla may panic: in the pump that is recovered, in Publish it ends the process.
  A tool call longer than PongWait lets the deadline of a live client pass. A write
  of data has no deadline, so a pump whose client stopped reading is stuck. A
  connection that is accepted or upgraded but not yet in the map when Stop ranges
  over it survives Stop. The ping goroutine ranges over a ticker that is stopped but
  never closed, and leaks.
- *SSE.* The server knows no batches (it answers one with `MethodNotFound`, so that
  SendBatchRequest fails) and rejects notifications, which SendNotification does not
  notice. A call that was given up may run in the server after a later one. An event
  that arrives during Close, or a second Close, panics. Stop waits for a client that
  stays subscribed. The id of a response is not looked at.
- *Resources and validation.* A placeholder inside a parameter's value is substituted
  or not, depending on the order of the map (line 607), and those of parameters that
  are absent stay in the URI. An `enum` on an array or object is ignored, "integer"
  is no type, and an enum of JSON numbers rejects an `int`. Ids of results are clock
  readings and may collide.

## What is not modelled

`Session` forwards to a client and keeps no state. The decoding of messages
(`types.go`) is data conversion: where its failure matters, it is a message or a
parameter of its own kind. The date format of protocol versions is abstract
(`ValidInit`), and `isValidVersion` is called by nobody. `ConnectionState` of the
WebSocket server is only reported; `MaxSessions` is enforced by no code. What the
r3labs library does to subscribe, beyond connecting and reconnecting, is left out,
as are the contents of results in all clients. The test programs are no part of the
library.

Smaller abstractions, each at its definition: `Register` takes an id and enters it in
the map in one step, since between the two nobody else knows the id. `ReplyTo` takes
missing parameters for parameters that do not unmarshal. What a Scanner has begun
when the stream ends, and then returns, is taken not to parse, although it might be a
response that lacks nothing but its newline. A torn line and the one that runs
into it stay under a megabyte together, and do not parse. With `Cap = 0` reads may end
within a line too, although an io.Pipe hands over what one Write has brought unless the
buffer is full: this only adds behaviours. `ConnLost` of WsServer drops what the pump
has not read. `Subscribe` of Sse may succeed, although this repository's own server
refuses the stream "" that the client asks for; Close is called once, since a second
call panics. `Sprint` gives a list or a map as one token, so braces within are not
seen.
