---------------------------- MODULE StdioServer -----------------------------
(***************************************************************************)
(* pkg/server/stdio/stdio.go: the goroutine that runs readLoop - decode a  *)
(* message, handle its request or its batch of requests one by one, write  *)
(* the response - and a Stop of the transport.                             *)
(*                                                                         *)
(* The operations of BaseServer appear by their outcomes: HandleInitialize *)
(* and HandleToolCall may succeed or fail, and they return (BaseServer's   *)
(* CallReturns).  A json.Decoder that met a syntax error or a truncated    *)
(* message reports that error for ever: the variable broken.               *)
(***************************************************************************)
EXTENDS Integers, Pipe, SequencesExt

CONSTANTS
    ReqIds,        \* ids of requests; a message without id is given id 0
    Questions,     \* [method, params] of a request
    Notices,       \* notifications of a client, except "initialized"
    Batches,       \* batches a client may send: sequences of singles
    Cap,           \* capacity of the pipes
    ToolsEnabled   \* Capabilities["tools"] is the boolean true

ASSUME StdioServerAssumption ==
    /\ ReqIds \subseteq Nat \ {0}
    /\ Cap \in Nat
    /\ Notices \cap {"request", "batch", "initialized"} = {}
    /\ ToolsEnabled \in BOOLEAN

VARIABLES
    srv,      \* progress of readLoop
    todo,     \* requests of the current message that are not yet handled
    out,      \* responses to the ones that are
    batch,    \* the current message is a batch
    broken,   \* the decoder is stuck with an error
    done,     \* t.done is closed
    ctxDone,  \* the context of Start has ended
    stopper,  \* progress of a caller of Stop
    message,  \* history: the singles of the current message
    toServer, \* t.Reader
    toClient  \* t.Writer

work == <<todo, out, batch, message>>
stopping == <<done, ctxDone, stopper>>
serverVars == <<srv, todo, out, batch, broken, done, ctxDone, stopper, message,
                toServer, toClient>>

\* What a client sends: a request, a notification, a batch of them, or a line
\* that does not decode into a Request - bad JSON, or JSON of the wrong types.
Single == [kind : {"request"}, id : ReqIds, ask : Questions]
          \cup [kind : {"initialized"} \cup Notices]
BatchMsg == [kind : {"batch"}, requests : Batches]
Undecodable == [kind : {"syntax", "types"}]
Incoming == Single \cup BatchMsg \cup Undecodable

\* Only an array with an element is taken for a batch (line 95).
ASSUME BatchesAssumption == Batches \subseteq Seq(Single) \ {<<>>}

Replies == {"result", "InvalidParams", "InternalError", "MethodNotFound"}
Response == [kind : {"response"}, id : ReqIds \cup {0}, reply : Replies]
\* A parse error has a null id: for a client it is a line without id.
ParseError == [kind |-> "other"]

TypeOK ==
    /\ srv \in {"top", "decode", "handle", "write", "writeError", "ended"}
    /\ todo \in Seq(Single)
    /\ out \in Seq(Response)
    /\ batch \in BOOLEAN
    /\ broken \in BOOLEAN
    /\ done \in BOOLEAN
    /\ ctxDone \in BOOLEAN
    /\ stopper \in {"idle", "waiting", "returned"}
    /\ message \in Seq(Single)

ServerInit ==
    /\ srv = "top"
    /\ todo = <<>>
    /\ out = <<>>
    /\ batch = FALSE
    /\ broken = FALSE
    /\ done = FALSE
    /\ ctxDone = FALSE
    /\ stopper = "idle"
    /\ message = <<>>

-----------------------------------------------------------------------------
(* handleRequest, as the set of replies it may give.                       *)

ToolListMethods == {"tools/list", "mcp/list_tools"}

RawOutcome == {"result", "error"}
\* HandleInitialize and HandleToolCall; any error becomes an internal error.
Outcome == {"result", "InternalError"}

\* params is "good", "bad" (does not unmarshal, or is missing) or "unnamed" (no
\* tool name).  test/server/server_test.go:203-208 expects MethodNotFound for a
\* tools/call without params; lines 148-153 answer InvalidParams.
ReplyTo(q) ==
    CASE q.method \in {"initialize", "tools/call", "mcp/call_tool"} /\ q.params = "bad"
           -> {"InvalidParams"}
      [] q.method = "tools/call" /\ q.params = "unnamed" -> {"InvalidParams"}
      [] q.method = "mcp/call_tool" /\ q.params = "unnamed" -> {"InternalError"}
      [] q.method \in {"initialize", "tools/call", "mcp/call_tool"} /\ q.params = "good"
           -> Outcome
      [] q.method \in ToolListMethods
           -> {IF ToolsEnabled THEN "result" ELSE "MethodNotFound"}
      [] q.method = "mcp/list_resources" -> {"result"}
      [] OTHER -> {"MethodNotFound"}

AnswersAll(m) == FALSE
\* Only notifications/initialized is known to be a notification.
NoResponse(m) == m.kind = "initialized"

\* A message without id is decoded with id 0; a notification that is not
\* known is an unknown method.
IdOf(m) == IF m.kind = "request" THEN m.id ELSE 0

Responses(m) ==
    IF NoResponse(m) THEN {<<>>}
    ELSE {<<[kind |-> "response", id |-> IdOf(m), reply |-> r]>> :
             r \in IF m.kind = "request" THEN ReplyTo(m.ask) ELSE {"MethodNotFound"}}

-----------------------------------------------------------------------------
(* readLoop.                                                               *)

NeverStops == FALSE
MustStop == done \/ ctxDone

\* The select at the top.
Top ==
    /\ srv = "top"
    /\ IF MustStop
       THEN /\ srv' = "ended"
            /\ UNCHANGED toServer
       ELSE /\ srv' = "decode"
            /\ toServer' = IF broken THEN toServer ELSE AwaitData(toServer)
    /\ UNCHANGED <<work, broken, stopping, toClient>>

StartMessage(singles, isBatch) ==
    /\ srv' = "handle"
    /\ todo' = singles
    /\ out' = <<>>
    /\ batch' = isBatch
    /\ message' = singles
    /\ UNCHANGED broken

\* Decode returns a request or a batch, or an error that is answered at once.
Decode ==
    /\ srv = "decode" /\ ~broken
    /\ toServer.queue # <<>>
    /\ toServer' = Take(toServer, FALSE)
    /\ LET m == Head(toServer.queue) IN
       \/ m.kind = "batch" /\ StartMessage(m.requests, TRUE)
       \/ m \in Single /\ StartMessage(<<m>>, FALSE)
       \/ /\ m \in Undecodable
          /\ srv' = "writeError"
          /\ broken' = (m.kind = "syntax")
          /\ UNCHANGED work
    /\ UNCHANGED <<stopping, toClient>>

\* The decoder reports its error again, without reading.
DecodeBroken ==
    /\ srv = "decode" /\ broken
    /\ srv' = "writeError"
    /\ UNCHANGED <<work, broken, stopping, toServer, toClient>>

\* The client closed the pipe between two messages: readLoop ends.
DecodeEOF ==
    /\ srv = "decode" /\ ~broken
    /\ AtEOF(toServer)
    /\ srv' = "ended"
    /\ UNCHANGED <<work, broken, stopping, toServer, toClient>>

\* handleRequest on the next request of the message.  After the last one the
\* responses are written - always for a batch, if there is one for a single.
HandleRequest ==
    /\ srv = "handle"
    /\ \E r \in Responses(Head(todo)) : out' = out \o r
    /\ todo' = Tail(todo)
    /\ srv' = IF Tail(todo) # <<>> THEN "handle"
              ELSE IF batch \/ out' # <<>> THEN "write" ELSE "top"
    /\ message' = IF srv' = "top" THEN <<>> ELSE message
    /\ UNCHANGED <<batch, broken, stopping, toServer, toClient>>

Outgoing ==
    IF srv = "writeError" THEN ParseError
    ELSE IF batch THEN [kind |-> "batch", responses |-> out]
    ELSE Head(out)

RetryWrite == UNCHANGED <<srv, work>>
EndMessage ==
    /\ srv' = "top"
    /\ out' = <<>>
    /\ batch' = FALSE
    /\ message' = <<>>
    /\ UNCHANGED todo

AfterWriteError == EndMessage

\* writeResponse, which blocks while the pipe is full ...
Write ==
    /\ srv \in {"write", "writeError"}
    /\ Room(toClient, Cap)
    /\ toClient' = Put(toClient, Outgoing)
    /\ EndMessage
    /\ UNCHANGED <<broken, stopping, toServer>>

\* ... and whose error is logged.
WriteFails ==
    /\ srv \in {"write", "writeError"}
    /\ toClient.closed
    /\ AfterWriteError
    /\ UNCHANGED <<broken, stopping, toServer, toClient>>

-----------------------------------------------------------------------------
(* Stop closes done and waits for readLoop, whatever its context says.     *)

StopCalled ==
    /\ stopper = "idle"
    /\ stopper' = "waiting"
    /\ done' = TRUE
    /\ UNCHANGED <<srv, work, broken, ctxDone, toServer, toClient>>

StopReturns ==
    /\ stopper = "waiting"
    /\ srv = "ended"
    /\ stopper' = "returned"
    /\ UNCHANGED <<srv, work, broken, done, ctxDone, toServer, toClient>>

ContextEnds ==
    /\ ~ctxDone
    /\ ctxDone' = TRUE
    /\ UNCHANGED <<srv, work, broken, done, stopper, toServer, toClient>>

LoopNext ==
    \/ Top \/ Decode \/ DecodeBroken \/ DecodeEOF \/ HandleRequest \/ Write \/ WriteFails

ServerNext == LoopNext \/ StopCalled \/ StopReturns \/ ContextEnds

ServerFairness == WF_serverVars(LoopNext) /\ WF_serverVars(StopReturns)

-----------------------------------------------------------------------------
(* The server of any client: it sends what it likes, reads the responses,   *)
(* and may close both pipes.                                                *)

ClientSends(m) ==
    /\ Room(toServer, Cap)
    /\ toServer' = Put(toServer, m)
    /\ UNCHANGED <<srv, work, broken, stopping, toClient>>

ClientWaits ==
    /\ ~toClient.reading
    /\ toClient' = AwaitData(toClient)
    /\ UNCHANGED <<srv, work, broken, stopping, toServer>>

\* One Read may take several messages.  Then it goes on reading, or does something
\* else first.
ClientReads(n, goesOn) ==
    /\ n \in 1 .. Len(toClient.queue)
    /\ toClient' = TakeFirst(toClient, n, goesOn)
    /\ UNCHANGED <<srv, work, broken, stopping, toServer>>

ClientCloses ==
    /\ ~toServer.closed
    /\ toServer' = Shut(toServer)
    /\ toClient' = Shut(toClient)
    /\ UNCHANGED <<srv, work, broken, stopping>>

ClientStep ==
    \/ \E m \in Incoming : ClientSends(m)
    \/ ClientWaits
    \/ \E n \in 1 .. Len(toClient.queue), goesOn \in BOOLEAN : ClientReads(n, goesOn)
    \/ ClientCloses

OpenInit == ServerInit /\ toServer = EmptyPipe /\ toClient = EmptyPipe
OpenSpec == OpenInit /\ [][ServerNext \/ ClientStep]_serverVars
FairOpenSpec == OpenSpec /\ ServerFairness /\ WF_serverVars(ClientWaits \/ ClientReads(1, TRUE))

-----------------------------------------------------------------------------
(* Properties.                                                             *)

\* How many singles of the message have been handled, and which of them want a
\* response.
Handled == Len(message) - Len(todo)
Answerable == {n \in 1 .. Handled : message[n].kind # "initialized"}

Answers(r, m) ==
    IF m.kind = "request" THEN r.id = m.id /\ r.reply \in ReplyTo(m.ask)
    ELSE r.id = 0 /\ r.reply = "MethodNotFound"

\* The responses made belong, one by one and in order, to the singles handled
\* that want one.
InOrder ==
    \E from \in [1 .. Len(out) -> Answerable] :
        /\ \A i, j \in 1 .. Len(out) : i < j => from[i] < from[j]
        /\ \A n \in Answerable : \E i \in 1 .. Len(out) : from[i] = n
        /\ \A i \in 1 .. Len(out) : Answers(out[i], message[from[i]])

\* At any moment every request of the message is answered by a response of its
\* own, in order, or still to be handled; a message is written when it is all
\* handled, and nothing is left over when readLoop turns to the next (lines
\* 73-109, 231-242).
EachRequestAnswered ==
    /\ srv \in {"handle", "write"} =>
          /\ Len(todo) <= Len(message)
          /\ \A i \in 1 .. Len(todo) : todo[i] = message[Handled + i]
          /\ InOrder
    /\ srv = "write" => todo = <<>>
    /\ srv \in {"top", "decode"} => message = <<>> /\ out = <<>>

\* Stop returns once the client has closed its pipes, even if the decoder is
\* stuck (lines 63-67, 74-78).
StopReturnsAfterClose ==
    (stopper = "waiting" /\ toServer.closed) ~> stopper = "returned"

\* While the client reads, every message that it sends is read, whatever the ones
\* before it were - unless one of them was malformed, for a decoder that has met a
\* syntax error never reads again (lines 73-107).
KeepsReading ==
    [](~done /\ ~ctxDone /\ ~broken) => (toServer.queue # <<>> ~> toServer.queue = <<>>)
=============================================================================
