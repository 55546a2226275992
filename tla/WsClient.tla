------------------------------ MODULE WsClient ------------------------------
(***************************************************************************)
(* pkg/client/ws/ws.go: callers of the WebSocket client, its connection    *)
(* manager and its readLoops, against a server that answers each request   *)
(* of a connection in turn, as pkg/server/ws does.                         *)
(*                                                                         *)
(* errorChan and responseChan are unbuffered, so a send is a step of the   *)
(* readLoop together with whoever receives: the manager or any caller that *)
(* waits.  Responses are not matched with requests.  c.mu is held across   *)
(* the write to the connection; it is free between two steps except while  *)
(* the caller named by mu is blocked in its write.                         *)
(*                                                                         *)
(* A connection ends by an error of the network, by a normal closure of    *)
(* the server, or by Close of the client.  Its slot may be dialled again   *)
(* once it is closed and no readLoop uses it.  MaxId bounds the start of   *)
(* calls, Cap the messages in each direction of a connection.              *)
(***************************************************************************)
EXTENDS Naturals, Sequences, FiniteSets

CONSTANTS
    Callers,     \* goroutines that use the client
    Conns,       \* connections
    NoOne,       \* no caller, no connection, no message
    MaxId,       \* no call starts once this many ids were given out
    Cap,         \* messages a connection holds in each direction
    BatchSizes,  \* numbers of requests in a batch
    Served       \* methods the server knows

ASSUME WsClientAssumption ==
    /\ MaxId \in Nat /\ Cap \in Nat
    /\ Conns # {}
    /\ NoOne \notin Callers \cup Conns
    /\ BatchSizes \subseteq Nat \ {0}
    /\ Served \subseteq {"call", "tools/list", "mcp/list_tools"}

VARIABLES
    link,     \* each connection: "none", "open", "broken", "ended", "closed"
    unread,   \* requests the server has not read
    wire,     \* what the server sent and no readLoop has read
    conn,     \* c.conn
    fresh,    \* the connection connect() has dialled and not yet stored
    state,    \* c.state
    done,     \* c.done is closed
    mu,       \* the caller blocked in its write, or NoOne
    nextID,   \* c.nextID
    cached,   \* c.listToolsMethod
    manager,  \* progress of connectionManager
    reader,   \* progress of the readLoop started with each connection
    reads,    \* the connection that readLoop reads
    message,  \* the message it is handing over
    pc,       \* progress of each caller
    req,      \* its request
    rest,     \* methods ListTools tries after this one
    expired,  \* its context has ended
    stray     \* history: a context ended, an event was sent or two calls overlapped

wires == <<link, unread, wire>>
calls == <<pc, req, rest, expired, nextID, cached>>
loops == <<reader, reads, message>>
client == <<conn, fresh, state, done, manager>>
vars == <<link, unread, wire, conn, fresh, state, done, mu, nextID, cached, manager,
          reader, reads, message, pc, req, rest, expired, stray>>

Lists == {"tools/list", "mcp/list_tools"}
Request == [id : Nat, method : Lists \cup {"call"}]

\* ok: what the message carries decodes as a list of tools.
Message == [id : Nat, ok : BOOLEAN]

TypeOK ==
    /\ link \in [Conns -> {"none", "open", "broken", "ended", "closed"}]
    /\ unread \in [Conns -> Seq(Request)]
    /\ wire \in [Conns -> Seq(Message)]
    /\ conn \in Conns \cup {NoOne}
    /\ fresh \in Conns \cup {NoOne}
    /\ state \in {"disconnected", "connecting", "connected"}
    /\ done \in BOOLEAN
    /\ mu \in Callers \cup {NoOne}
    /\ nextID \in Nat
    /\ cached \in Lists \cup {NoOne}
    /\ manager \in {"select", "drop", "backoff", "dialing", "dialed", "ended"}
    /\ reader \in [Conns -> {"off", "top", "reading", "send", "fail"}]
    /\ reads \in [Conns -> Conns \cup {NoOne}]
    /\ message \in [Conns -> Message \cup {NoOne}]
    /\ pc \in [Callers -> {"idle", "ready", "writing", "waiting"}]
    /\ req \in [Callers -> Request \cup {NoOne}]
    /\ rest \in [Callers -> Seq(Lists)]
    /\ expired \in [Callers -> BOOLEAN]
    /\ stray \in BOOLEAN

\* NewWebSocketClient has connected and started the manager.
Init ==
    /\ conn = CHOOSE k \in Conns : TRUE
    /\ link = [k \in Conns |-> IF k = conn THEN "open" ELSE "none"]
    /\ unread = [k \in Conns |-> <<>>]
    /\ wire = [k \in Conns |-> <<>>]
    /\ fresh = NoOne
    /\ state = "connected"
    /\ done = FALSE
    /\ mu = NoOne
    /\ nextID = 0
    /\ cached = NoOne
    /\ manager = "select"
    /\ reader = [k \in Conns |-> IF k = conn THEN "top" ELSE "off"]
    /\ reads = [k \in Conns |-> NoOne]
    /\ message = [k \in Conns |-> NoOne]
    /\ pc = [c \in Callers |-> "idle"]
    /\ req = [c \in Callers |-> NoOne]
    /\ rest = [c \in Callers |-> <<>>]
    /\ expired = [c \in Callers |-> FALSE]
    /\ stray = FALSE

-----------------------------------------------------------------------------
(***************************************************************************)
(* Callers.                                                                *)
(***************************************************************************)

\* The caller takes the next n ids; req has the last of them.
Issue(c, method, others, n) ==
    /\ nextID' = nextID + n
    /\ pc' = [pc EXCEPT ![c] = "ready"]
    /\ req' = [req EXCEPT ![c] = [id |-> nextID + n, method |-> method]]
    /\ rest' = [rest EXCEPT ![c] = others]

Overlaps(c) == \E d \in Callers \ {c} : pc[d] # "idle"

\* Initialize, CallTool and ExecuteTool: one request.
Call(c) ==
    /\ pc[c] = "idle" /\ nextID < MaxId
    /\ Issue(c, "call", <<>>, 1)
    /\ stray' = (stray \/ Overlaps(c))
    /\ UNCHANGED <<wires, client, loops, mu, expired, cached>>

\* An id for each member of the batch, one message.
SendBatchRequest(c) ==
    /\ pc[c] = "idle" /\ nextID < MaxId
    /\ \E n \in BatchSizes : Issue(c, "call", <<>>, n)
    /\ stray' = (stray \/ Overlaps(c))
    /\ UNCHANGED <<wires, client, loops, mu, expired, cached>>

\* The method that worked the last time first, then both.
ListTools(c) ==
    /\ pc[c] = "idle" /\ nextID < MaxId
    /\ IF cached = NoOne
       THEN Issue(c, "tools/list", <<"mcp/list_tools">>, 1)
       ELSE Issue(c, cached, <<"tools/list", "mcp/list_tools">>, 1)
    /\ stray' = (stray \/ Overlaps(c))
    /\ UNCHANGED <<wires, client, loops, mu, expired, cached>>

\* The call returns to its user.
Returns(c) ==
    /\ pc' = [pc EXCEPT ![c] = "idle"]
    /\ req' = [req EXCEPT ![c] = NoOne]
    /\ rest' = [rest EXCEPT ![c] = <<>>]
    /\ expired' = [expired EXCEPT ![c] = FALSE]
    /\ UNCHANGED nextID

\* The request has failed: ListTools goes on to its next method, whatever the
\* failure was; every other call returns.
Fails(c) ==
    /\ IF rest[c] # <<>>
       THEN Issue(c, Head(rest[c]), Tail(rest[c]), 1) /\ UNCHANGED expired
       ELSE Returns(c)
    /\ UNCHANGED cached

Connected == conn # NoOne /\ state = "connected"

\* A write succeeds without effect on a connection that the other side has left.
Sent(c) ==
    /\ link[conn] \in {"open", "broken", "ended"}
    /\ unread' = IF link[conn] = "open"
                 THEN [unread EXCEPT ![conn] = Append(@, req[c])] ELSE unread
    /\ pc' = [pc EXCEPT ![c] = "waiting"]
    /\ UNCHANGED <<link, wire, client, loops, nextID, req, rest, expired, cached, stray>>

Full == link[conn] = "open" /\ Len(unread[conn]) >= Cap

Write(c) ==
    /\ pc[c] = "ready" /\ mu = NoOne /\ Connected /\ ~Full
    /\ Sent(c)
    /\ UNCHANGED mu

WriteBlocks(c) ==
    /\ pc[c] = "ready" /\ mu = NoOne /\ Connected /\ Full
    /\ mu' = c
    /\ pc' = [pc EXCEPT ![c] = "writing"]
    /\ UNCHANGED <<wires, client, loops, nextID, req, rest, expired, cached, stray>>

WriteResumes(c) ==
    /\ pc[c] = "writing" /\ ~Full
    /\ Sent(c)
    /\ mu' = NoOne

\* "not connected", or an error of the connection.
WriteFails(c) ==
    /\ \/ pc[c] = "ready" /\ mu = NoOne
       \/ pc[c] = "writing"
    /\ Connected => link[conn] # "open"
    /\ mu' = NoOne
    /\ Fails(c)
    /\ UNCHANGED <<wires, client, loops, stray>>

\* Mutant of Remember: every method is remembered as one that lists tools.
RememberAny(c) == cached' = req[c].method

\* ListTools remembers the method that worked.
Remember(c) == cached' = IF req[c].method = "call" THEN cached ELSE req[c].method

\* Mutant of Told: the return after the send is missing.
ToldAndGoesOn(k) ==
    /\ reader' = [reader EXCEPT ![k] = "top"]
    /\ reads' = [reads EXCEPT ![k] = NoOne]

\* The readLoop hands its error over and ends.
Told(k) ==
    /\ reader' = [reader EXCEPT ![k] = "off"]
    /\ reads' = [reads EXCEPT ![k] = NoOne]

\* Any caller that waits takes what a readLoop hands over.
ReceiveResponse(c) ==
    \E k \in Conns :
        /\ pc[c] = "waiting" /\ reader[k] = "send"
        /\ reader' = [reader EXCEPT ![k] = "top"]
        /\ message' = [message EXCEPT ![k] = NoOne]
        /\ IF req[c].method = "call" \/ message[k].ok
           THEN Returns(c) /\ Remember(c)
           ELSE Fails(c)
        /\ UNCHANGED <<wires, client, reads, mu, stray>>

ReceiveError(c) ==
    \E k \in Conns :
        /\ pc[c] = "waiting" /\ reader[k] = "fail"
        /\ Told(k)
        /\ Fails(c)
        /\ UNCHANGED <<wires, client, message, mu, stray>>

\* Mutant of GiveUp: the select does not look at the context.
NeverGivesUp(c) == FALSE /\ UNCHANGED vars

GiveUp(c) ==
    /\ pc[c] = "waiting" /\ expired[c]
    /\ stray' = TRUE
    /\ Fails(c)
    /\ UNCHANGED <<wires, client, loops, mu>>

ContextEnds(c) ==
    /\ pc[c] # "idle" /\ ~expired[c]
    /\ expired' = [expired EXCEPT ![c] = TRUE]
    /\ UNCHANGED <<wires, client, loops, mu, pc, req, rest, nextID, cached, stray>>

-----------------------------------------------------------------------------
(***************************************************************************)
(* readLoop.  It takes the connection from c.conn for every message.       *)
(***************************************************************************)
ReaderTop(k) ==
    /\ reader[k] = "top" /\ mu = NoOne
    /\ reads' = [reads EXCEPT ![k] = conn]
    /\ reader' = [reader EXCEPT ![k] = IF conn = NoOne THEN "off" ELSE "reading"]
    /\ UNCHANGED <<wires, client, calls, mu, message, stray>>

ReadMessage(k) ==
    /\ reader[k] = "reading" /\ wire[reads[k]] # <<>>
    /\ message' = [message EXCEPT ![k] = Head(wire[reads[k]])]
    /\ wire' = [wire EXCEPT ![reads[k]] = Tail(@)]
    /\ reader' = [reader EXCEPT ![k] = "send"]
    /\ UNCHANGED <<link, unread, client, calls, mu, reads, stray>>

\* The error goes to errorChan; what the connection still held is lost.
ReadFails(k) ==
    /\ reader[k] = "reading" /\ link[reads[k]] \in {"broken", "closed"}
    /\ reader' = [reader EXCEPT ![k] = "fail"]
    /\ UNCHANGED <<wires, client, calls, mu, reads, message, stray>>

\* A normal closure ends the goroutine and tells nobody.
ReadEnds(k) ==
    /\ reader[k] = "reading" /\ link[reads[k]] = "ended" /\ wire[reads[k]] = <<>>
    /\ reader' = [reader EXCEPT ![k] = "off"]
    /\ reads' = [reads EXCEPT ![k] = NoOne]
    /\ UNCHANGED <<wires, client, calls, mu, message, stray>>

-----------------------------------------------------------------------------
(***************************************************************************)
(* connectionManager and connect.                                          *)
(***************************************************************************)
ManagerTakesError(k) ==
    /\ manager = "select" /\ reader[k] = "fail"
    /\ Told(k)
    /\ manager' = IF state = "connected" THEN "drop" ELSE "select"
    /\ UNCHANGED <<wires, calls, mu, conn, fresh, state, done, message, stray>>

\* Nobody reads the state between the unlock and the store.
ManagerDrops ==
    /\ manager = "drop" /\ mu = NoOne
    /\ link' = [k \in Conns |-> IF k = conn THEN "closed" ELSE link[k]]
    /\ conn' = NoOne
    /\ state' = "disconnected"
    /\ manager' = "backoff"
    /\ UNCHANGED <<unread, wire, calls, loops, mu, fresh, done, stray>>

\* Mutant of BackoffEnds: a sleep in place of the select with c.done.
SleepsThrough ==
    /\ manager = "backoff"
    /\ state' = "connecting" /\ manager' = "dialing"
    /\ UNCHANGED <<wires, calls, loops, mu, conn, fresh, done, stray>>

\* connect() refuses to run beside another one.
BackoffEnds ==
    /\ manager = "backoff" /\ ~done
    /\ IF state = "disconnected"
       THEN state' = "connecting" /\ manager' = "dialing"
       ELSE manager' = "select" /\ UNCHANGED state
    /\ UNCHANGED <<wires, calls, loops, mu, conn, fresh, done, stray>>

Unused(k) ==
    /\ link[k] \in {"none", "closed"} /\ reader[k] = "off" /\ k # conn
    /\ \A j \in Conns : reads[j] # k

DialSucceeds ==
    /\ manager = "dialing"
    /\ \E k \in Conns :
        /\ Unused(k)
        /\ fresh' = k
        /\ link' = [link EXCEPT ![k] = "open"]
        /\ unread' = [unread EXCEPT ![k] = <<>>]
        /\ wire' = [wire EXCEPT ![k] = <<>>]
    /\ manager' = "dialed"
    /\ UNCHANGED <<calls, loops, mu, conn, state, done, stray>>

\* The manager goes back to waiting for an error.
DialFails ==
    /\ manager = "dialing"
    /\ state' = "disconnected"
    /\ manager' = "select"
    /\ UNCHANGED <<wires, calls, loops, mu, conn, fresh, done, stray>>

\* connect() stores the connection and the state and starts a readLoop.
ConnectStores ==
    /\ manager = "dialed" /\ mu = NoOne
    /\ conn' = fresh
    /\ fresh' = NoOne
    /\ state' = "connected"
    /\ reader' = [reader EXCEPT ![fresh] = "top"]
    /\ manager' = "select"
    /\ UNCHANGED <<wires, calls, reads, message, mu, done, stray>>

ManagerEnds ==
    /\ manager \in {"select", "backoff"} /\ done
    /\ manager' = "ended"
    /\ UNCHANGED <<wires, calls, loops, mu, conn, fresh, state, done, stray>>

Close ==
    /\ mu = NoOne
    /\ done' = TRUE
    /\ link' = [k \in Conns |-> IF k = conn THEN "closed" ELSE link[k]]
    /\ UNCHANGED <<unread, wire, calls, loops, mu, conn, fresh, state, manager, stray>>

-----------------------------------------------------------------------------
(***************************************************************************)
(* The server and the network.                                             *)
(***************************************************************************)

\* What the server answers to a request r: an error to a method it lacks.
Answers(r) ==
    {[id |-> r.id, ok |-> b] :
        b \in IF r.method = "call" THEN BOOLEAN ELSE {r.method \in Served}}

ServerAnswers(k) ==
    /\ link[k] = "open" /\ unread[k] # <<>> /\ Len(wire[k]) < Cap
    /\ \E m \in Answers(Head(unread[k])) : wire' = [wire EXCEPT ![k] = Append(@, m)]
    /\ unread' = [unread EXCEPT ![k] = Tail(@)]
    /\ UNCHANGED <<link, client, calls, loops, mu, stray>>

\* Publish of the server: an event has neither id nor result.
ServerPublishes(k) ==
    /\ link[k] = "open" /\ Len(wire[k]) < Cap
    /\ wire' = [wire EXCEPT ![k] = Append(@, [id |-> 0, ok |-> FALSE])]
    /\ stray' = TRUE
    /\ UNCHANGED <<link, unread, client, calls, loops, mu>>

ConnectionBreaks(k) ==
    /\ link[k] = "open"
    /\ link' = [link EXCEPT ![k] = "broken"]
    /\ UNCHANGED <<unread, wire, client, calls, loops, mu, stray>>

ServerCloses(k) ==
    /\ link[k] = "open"
    /\ link' = [link EXCEPT ![k] = "ended"]
    /\ UNCHANGED <<unread, wire, client, calls, loops, mu, stray>>

-----------------------------------------------------------------------------
CallerStep(c) ==
    \/ Call(c) \/ SendBatchRequest(c) \/ ListTools(c)
    \/ Write(c) \/ WriteBlocks(c) \/ WriteResumes(c) \/ WriteFails(c)
    \/ ReceiveResponse(c) \/ ReceiveError(c) \/ GiveUp(c) \/ ContextEnds(c)

ReaderStep(k) == ReaderTop(k) \/ ReadMessage(k) \/ ReadFails(k) \/ ReadEnds(k)

ManagerStep ==
    \/ \E k \in Conns : ManagerTakesError(k)
    \/ ManagerDrops \/ BackoffEnds \/ DialSucceeds \/ DialFails \/ ConnectStores
    \/ ManagerEnds

NetworkStep(k) ==
    ServerAnswers(k) \/ ServerPublishes(k) \/ ConnectionBreaks(k) \/ ServerCloses(k)

Next ==
    \/ \E c \in Callers : CallerStep(c)
    \/ \E k \in Conns : ReaderStep(k) \/ NetworkStep(k)
    \/ ManagerStep
    \/ Close

\* Goroutines that can run do run, also when they compete for c.mu or for a
\* channel; a timer fires and a dial ends, sometimes well.  Nobody has to call,
\* to close or to answer.
CallerRuns(c) ==
    \/ Write(c) \/ WriteBlocks(c) \/ WriteResumes(c) \/ WriteFails(c)
    \/ ReceiveResponse(c) \/ ReceiveError(c) \/ GiveUp(c)

Fairness ==
    /\ \A c \in Callers : SF_vars(CallerRuns(c))
    /\ \A k \in Conns : SF_vars(ReaderStep(k))
    /\ SF_vars(ManagerStep)
    /\ SF_vars(DialSucceeds)

Spec == Init /\ [][Next]_vars
FairSpec == Spec /\ Fairness

-----------------------------------------------------------------------------
(***************************************************************************)
(* Properties.                                                             *)
(***************************************************************************)

\* There is at most one readLoop, it reads the connection that writers use, and
\* the manager does not replace that connection under it (lines 70-151): a
\* gorilla connection allows one reader.
ReaderIsCurrent ==
    \A k \in Conns : reader[k] # "off" =>
        /\ conn = k /\ state = "connected"
        /\ manager \in {"select", "ended"}
        /\ reader[k] # "top" => reads[k] = conn

\* One call at a time, with a context that does not end, gets the response to
\* its own request, across every break and reconnection, as long as the server
\* sends no events (lines 131-151, 185-450: nothing compares ids).
SequentialCallsMatch ==
    [][\A c \in Callers, k \in Conns :
        /\ pc[c] = "waiting" /\ reader[k] = "send" /\ ~stray
        /\ reader'[k] = "top"
        => message[k].id = req[c].id]_vars

\* Close ends the connection manager wherever it is (lines 93-129, 153-168).
CloseEndsManager == done ~> manager = "ended"

\* A call whose context has ended returns, through all the methods ListTools
\* tries, unless some write never comes back (lines 170-179, 234-258).
ExpiredCallsReturn ==
    \A c \in Callers : expired[c] ~> (pc[c] = "idle" \/ mu # NoOne)

\* A client that lost its connection tries until it is connected or closed
\* (lines 115-121: "Increase backoff time for next attempt").
KeepsTrying == state = "disconnected" ~> (state = "connected" \/ done)

=============================================================================
