------------------------------- MODULE WsServer --------------------------------
(***************************************************************************)
(* pkg/server/ws/ws.go: connections that come, are served by a read pump   *)
(* and a ping goroutine each, and go; goroutines that publish events to    *)
(* all of them; and a Stop of the transport.                               *)
(*                                                                         *)
(* Of messages the model keeps what the pump does about them, of frames    *)
(* how many are in the send buffer, of time how many ping intervals have   *)
(* passed since the read deadline was last set.  ConnectionState is left   *)
(* out: no code acts on it.                                                *)
(***************************************************************************)
EXTENDS Integers, FiniteSets

CONSTANTS
    Conns,       \* connections
    Talkers,     \* those whose clients send requests, too
    Publishers,  \* goroutines that call Publish
    Pump,        \* the read pump, as a writer of its connection
    NoConn,      \* where a Range is between two connections
    Cap,         \* frames that fit in the send buffer of a connection
    PongWait     \* config.PongWait in ping intervals; by default 60s and 30s

ASSUME WsServerAssumption ==
    /\ Talkers \subseteq Conns
    /\ Pump \notin Publishers
    /\ NoConn \notin Conns
    /\ Cap \in Nat \ {0}
    /\ PongWait \in Nat \ {0, 1}

VARIABLES
    link,     \* the connection; "stuffed": a ping found its buffer full, writes fail
    alive,    \* its client reads and answers pings
    outbox,   \* frames in the send buffer
    silent,   \* ping intervals since SetReadDeadline
    pong,     \* a pong waits to be read
    pinger,   \* the ping goroutine sends
    busy,     \* history: since the last pong was read, an interval passed in which
              \* the pump did not read
    pump,     \* progress of handleWS
    clients,  \* keys of t.clients
    writing,  \* writers inside a write of a data frame ...
    clashed,  \* ... and those that met another one there
    pub,      \* progress of Publish
    at,       \* the connection its Range is at
    todo,     \* connections in the map when its Range began
    seen,     \* connections it has visited
    stop,     \* progress of Stop
    early,    \* connections in the map when its Range began
    dead      \* a Publish panicked: the process is gone

writers == <<writing, clashed>>
publishing == <<pub, at, todo, seen>>
stopping == <<stop, early>>
wire == <<link, alive, outbox, silent, pong, pinger, busy>>
vars == <<wire, pump, clients, writers, publishing, stopping, dead>>

Writers == Publishers \cup {Pump}

Replying == {"replyError", "replyResult"}
Serving == {"reading", "handling"} \cup Replying

TypeOK ==
    /\ link \in [Conns -> {"none", "open", "stuffed", "lost", "closed"}]
    /\ alive \in [Conns -> BOOLEAN]
    /\ outbox \in [Conns -> 0 .. Cap]
    /\ silent \in [Conns -> 0 .. PongWait]
    /\ pong \in [Conns -> BOOLEAN]
    /\ pinger \in [Conns -> BOOLEAN]
    /\ busy \in [Conns -> BOOLEAN]
    /\ pump \in [Conns -> {"off", "accepted", "upgraded", "leaving", "closing", "ended"}
                          \cup Serving]
    /\ clients \subseteq Conns
    /\ writing \in [Conns -> SUBSET Writers]
    /\ clashed \in [Conns -> SUBSET Writers]
    /\ pub \in [Publishers -> {"idle", "ranging", "writing", "close", "delete"}]
    /\ at \in [Publishers -> Conns \cup {NoConn}]
    /\ todo \in [Publishers -> SUBSET Conns]
    /\ seen \in [Publishers -> SUBSET Conns]
    /\ stop \in {"idle", "closing", "shutdown", "returned"}
    /\ early \subseteq Conns
    /\ dead \in BOOLEAN

Init ==
    /\ link = [c \in Conns |-> "none"]
    /\ alive = [c \in Conns |-> FALSE]
    /\ outbox = [c \in Conns |-> 0]
    /\ silent = [c \in Conns |-> 0]
    /\ pong = [c \in Conns |-> FALSE]
    /\ pinger = [c \in Conns |-> FALSE]
    /\ busy = [c \in Conns |-> FALSE]
    /\ pump = [c \in Conns |-> "off"]
    /\ clients = {}
    /\ writing = [c \in Conns |-> {}]
    /\ clashed = [c \in Conns |-> {}]
    /\ pub = [p \in Publishers |-> "idle"]
    /\ at = [p \in Publishers |-> NoConn]
    /\ todo = [p \in Publishers |-> {}]
    /\ seen = [p \in Publishers |-> {}]
    /\ stop = "idle"
    /\ early = {}
    /\ dead = FALSE

-----------------------------------------------------------------------------
(* gorilla's connection: a data frame is written in one piece, and nothing *)
(* keeps two writers from doing so at once.  They share a buffer and a     *)
(* flag; a writer that finds the flag not as it left it panics - the one   *)
(* that comes second, or the one that ends last - or nobody notices.       *)

StartWrite(c, w) ==
    /\ writing' = [writing EXCEPT ![c] = @ \cup {w}]
    /\ clashed' = [clashed EXCEPT ![c] = IF writing[c] = {} THEN @ ELSE writing[c] \cup {w}]

Clashes(c) == writing[c] # {}

\* Mutant of HasRoom: the buffer has no end.
AlwaysRoom(c) == TRUE

\* There is no deadline: a write into a full buffer waits.
HasRoom(c) == outbox[c] < Cap

WriteEnds(c, w, ok) ==
    /\ w \in writing[c]
    /\ ok <=> link[c] = "open"
    /\ ok => HasRoom(c)
    /\ outbox' = [outbox EXCEPT ![c] = IF ok THEN @ + 1 ELSE @]
    /\ writing' = [writing EXCEPT ![c] = @ \ {w}]
    /\ clashed' = [clashed EXCEPT ![c] = @ \ {w}]
    /\ UNCHANGED <<link, alive, silent, pong, pinger, busy>>

WritePanics(c, w) == w \in clashed[c] /\ writing[c] = {w}

-----------------------------------------------------------------------------
(* handleWS: the handshake.                                                *)

\* The connection goes up or down.  What else there is of it starts anew, or
\* matters no more: pings fail, nothing arrives.
Becomes(c, l) ==
    /\ link' = [link EXCEPT ![c] = l]
    /\ alive' = [alive EXCEPT ![c] = (l = "open")]
    /\ outbox' = [outbox EXCEPT ![c] = 0]
    /\ silent' = [silent EXCEPT ![c] = 0]
    /\ pong' = [pong EXCEPT ![c] = FALSE]
    /\ pinger' = [pinger EXCEPT ![c] = (l = "open")]
    /\ busy' = [busy EXCEPT ![c] = FALSE]

\* The listener is open until Shutdown.
Accept(c) ==
    /\ stop \in {"idle", "closing"}
    /\ pump[c] = "off"
    /\ pump' = [pump EXCEPT ![c] = "accepted"]
    /\ Becomes(c, "open")
    /\ UNCHANGED <<clients, writers, publishing, stopping, dead>>

\* Upgrade hijacks the connection, or it fails.
Upgrade(c) ==
    /\ pump[c] = "accepted"
    /\ \/ /\ link[c] = "open"
          /\ pump' = [pump EXCEPT ![c] = "upgraded"]
          /\ UNCHANGED wire
       \/ /\ pump' = [pump EXCEPT ![c] = "ended"]
          /\ Becomes(c, "closed")
    /\ UNCHANGED <<clients, writers, publishing, stopping, dead>>

\* The connection enters the map; deadline, pong handler and pings are set up.
Serve(c) ==
    /\ pump[c] = "upgraded"
    /\ pump' = [pump EXCEPT ![c] = "reading"]
    /\ clients' = clients \cup {c}
    /\ UNCHANGED <<wire, writers, publishing, stopping, dead>>

-----------------------------------------------------------------------------
(* handleWS: the loop.                                                     *)

\* Mutant of DeadlinePassed: SetReadDeadline is not called.
NoDeadline(c) == FALSE
DeadlinePassed(c) == silent[c] = PongWait
Readable(c) == link[c] \in {"open", "stuffed"} /\ ~DeadlinePassed(c)

\* Mutant of PongHandler: the deadline stays where it is.
PongForgotten(c) == silent[c]

\* The pong handler, which ReadMessage calls, moves the deadline.
PongHandler(c) == 0

ReadPong(c) ==
    /\ pump[c] = "reading" /\ Readable(c)
    /\ pong[c]
    /\ pong' = [pong EXCEPT ![c] = FALSE]
    /\ silent' = [silent EXCEPT ![c] = PongHandler(c)]
    /\ busy' = [busy EXCEPT ![c] = FALSE]
    /\ UNCHANGED <<link, alive, outbox, pinger, pump, clients, writers, publishing,
                   stopping, dead>>

\* The pump begins to write its response; a panic runs the deferred calls, and
\* net/http recovers it.
StartReply(c, kind) ==
    \/ /\ pump' = [pump EXCEPT ![c] = kind]
       /\ StartWrite(c, Pump)
    \/ /\ Clashes(c)
       /\ pump' = [pump EXCEPT ![c] = "leaving"]
       /\ UNCHANGED writers

\* A message that needs a tool is handled; one that is malformed, has bad
\* parameters or an unknown method is answered at once, and so is a list.
\* (A message that is not text is skipped, which changes nothing.)
ReadMessage(c) ==
    /\ pump[c] = "reading" /\ Readable(c)
    /\ c \in Talkers /\ alive[c]
    /\ \/ /\ pump' = [pump EXCEPT ![c] = "handling"]
          /\ UNCHANGED writers
       \/ \E kind \in Replying : StartReply(c, kind)
    /\ UNCHANGED <<wire, clients, publishing, stopping, dead>>

\* HandleToolCall returns a result, or an error or nil.
HandlerReturns(c) ==
    /\ pump[c] = "handling"
    /\ \E kind \in Replying : StartReply(c, kind)
    /\ UNCHANGED <<wire, clients, publishing, stopping, dead>>

\* A result that cannot be written ends the loop, an error response does not.
AfterReply(kind, ok) == IF kind = "replyResult" /\ ~ok THEN "leaving" ELSE "reading"

ReplyWritten(c) ==
    /\ pump[c] \in Replying
    /\ \E ok \in BOOLEAN :
          /\ WriteEnds(c, Pump, ok)
          /\ \/ pump' = [pump EXCEPT ![c] = AfterReply(@, ok)]
             \/ WritePanics(c, Pump) /\ pump' = [pump EXCEPT ![c] = "leaving"]
    /\ UNCHANGED <<clients, publishing, stopping, dead>>

\* The connection is gone, or no pong was read for PongWait.
ReadFails(c) ==
    /\ pump[c] = "reading" /\ ~Readable(c)
    /\ pump' = [pump EXCEPT ![c] = "leaving"]
    /\ UNCHANGED <<wire, clients, writers, publishing, stopping, dead>>

\* The deferred calls: ticker.Stop, Delete ...
Unregister(c) ==
    /\ pump[c] = "leaving"
    /\ pump' = [pump EXCEPT ![c] = "closing"]
    /\ clients' = clients \ {c}
    /\ UNCHANGED <<wire, writers, publishing, stopping, dead>>

\* Mutant of CloseConn: the deferred Close is missing.
ConnLeftOpen(c) ==
    /\ pump[c] = "closing"
    /\ pump' = [pump EXCEPT ![c] = "ended"]
    /\ UNCHANGED <<wire, clients, writers, publishing, stopping, dead>>

\* ... and Close.
CloseConn(c) ==
    /\ pump[c] = "closing"
    /\ pump' = [pump EXCEPT ![c] = "ended"]
    /\ Becomes(c, "closed")
    /\ UNCHANGED <<clients, writers, publishing, stopping, dead>>

PumpStep(c) ==
    \/ Upgrade(c) \/ Serve(c)
    \/ HandlerReturns(c) \/ ReplyWritten(c)
    \/ ReadPong(c) \/ ReadFails(c)
    \/ Unregister(c) \/ CloseConn(c)

-----------------------------------------------------------------------------
(* The ping goroutine, time and the client.                                *)

\* WriteControl waits until WriteTimeout for a data write to end, or for room;
\* only in the latter case do later writes fail.
PingFails(c) == link[c] # "open" \/ ~HasRoom(c)

\* An interval passes: the ticker fires, and the read deadline comes closer.
\* A client that is alive keeps up: it has read what was sent to it, and the
\* pump, if it reads, has read its pong.
Tick(c) ==
    /\ pump[c] \in Serving /\ link[c] \in {"open", "stuffed"}
    /\ alive[c] => outbox[c] = 0
    /\ pump[c] = "reading" => ~pong[c] /\ ~DeadlinePassed(c)
    /\ silent' = [silent EXCEPT ![c] = IF @ = PongWait THEN @ ELSE @ + 1]
    /\ busy' = [busy EXCEPT ![c] = @ \/ pump[c] # "reading"]
    /\ IF pinger[c] /\ PingFails(c)
       THEN /\ pinger' = [pinger EXCEPT ![c] = FALSE]
            /\ link' = [link EXCEPT ![c] = IF Clashes(c) THEN @ ELSE "stuffed"]
            /\ UNCHANGED pong
       ELSE /\ pong' = [pong EXCEPT ![c] = @ \/ (pinger[c] /\ alive[c])]
            /\ UNCHANGED <<pinger, link>>
    /\ UNCHANGED <<alive, outbox, pump, clients, writers, publishing, stopping, dead>>

ClientReads(c) ==
    /\ alive[c] /\ outbox[c] > 0
    /\ outbox' = [outbox EXCEPT ![c] = @ - 1]
    /\ UNCHANGED <<link, alive, silent, pong, pinger, busy, pump, clients, writers,
                   publishing, stopping, dead>>

\* The client stops reading, or its host is gone.
ClientVanishes(c) ==
    /\ alive[c] /\ pump[c] \in Serving
    /\ alive' = [alive EXCEPT ![c] = FALSE]
    /\ UNCHANGED <<link, outbox, silent, pong, pinger, busy, pump, clients, writers,
                   publishing, stopping, dead>>

\* The client closes the connection, or it breaks; what the pump has not read by
\* then is gone with it.
ConnLost(c) ==
    /\ link[c] \in {"open", "stuffed"}
    /\ Becomes(c, "lost")
    /\ UNCHANGED <<pump, clients, writers, publishing, stopping, dead>>

-----------------------------------------------------------------------------
(* Publish.  A Range visits each key at most once, and each one that stays *)
(* in the map from its beginning to its end; others it may visit.          *)

PublishStarts(p) ==
    /\ pub[p] = "idle"
    /\ pub' = [pub EXCEPT ![p] = "ranging"]
    /\ todo' = [todo EXCEPT ![p] = clients]
    /\ UNCHANGED <<wire, pump, clients, writers, at, seen, stopping, dead>>

PublishVisits(p, c) ==
    /\ pub[p] = "ranging"
    /\ c \in clients \ seen[p]
    /\ pub' = [pub EXCEPT ![p] = "writing"]
    /\ at' = [at EXCEPT ![p] = c]
    /\ seen' = [seen EXCEPT ![p] = @ \cup {c}]
    /\ \/ StartWrite(c, p) /\ UNCHANGED dead
       \/ Clashes(c) /\ dead' = TRUE /\ UNCHANGED writers
    /\ UNCHANGED <<wire, pump, clients, todo, stopping>>

PublishWritten(p) ==
    /\ pub[p] = "writing"
    /\ \E ok \in BOOLEAN :
          /\ WriteEnds(at[p], p, ok)
          /\ pub' = [pub EXCEPT ![p] = IF ok THEN "ranging" ELSE "close"]
          /\ at' = [at EXCEPT ![p] = IF ok THEN NoConn ELSE @]
    /\ dead' \in {FALSE, WritePanics(at[p], p)}
    /\ UNCHANGED <<pump, clients, todo, seen, stopping>>

\* Mutant of PublishCloses: the connection is only deleted.
PublishKeepsOpen(p) ==
    /\ pub[p] = "close"
    /\ pub' = [pub EXCEPT ![p] = "delete"]
    /\ UNCHANGED <<wire, pump, clients, writers, at, todo, seen, stopping, dead>>

\* A connection that an event cannot be written to is closed and deleted.
PublishCloses(p) ==
    /\ pub[p] = "close"
    /\ pub' = [pub EXCEPT ![p] = "delete"]
    /\ Becomes(at[p], "closed")
    /\ UNCHANGED <<pump, clients, writers, at, todo, seen, stopping, dead>>

PublishDeletes(p) ==
    /\ pub[p] = "delete"
    /\ pub' = [pub EXCEPT ![p] = "ranging"]
    /\ at' = [at EXCEPT ![p] = NoConn]
    /\ clients' = clients \ {at[p]}
    /\ UNCHANGED <<wire, pump, writers, todo, seen, stopping, dead>>

PublishEnds(p) ==
    /\ pub[p] = "ranging"
    /\ todo[p] \cap clients \subseteq seen[p]
    /\ pub' = [pub EXCEPT ![p] = "idle"]
    /\ todo' = [todo EXCEPT ![p] = {}]
    /\ seen' = [seen EXCEPT ![p] = {}]
    /\ UNCHANGED <<wire, pump, clients, writers, at, stopping, dead>>

PublishGoesOn(p) ==
    \/ \E c \in Conns : PublishVisits(p, c)
    \/ PublishWritten(p) \/ PublishCloses(p) \/ PublishDeletes(p) \/ PublishEnds(p)

-----------------------------------------------------------------------------
(* Stop.                                                                   *)

StopCalled ==
    /\ stop = "idle"
    /\ stop' = "closing"
    /\ early' = clients
    /\ UNCHANGED <<wire, pump, clients, writers, publishing, dead>>

StopCloses(c) ==
    /\ stop = "closing"
    /\ c \in clients /\ link[c] # "closed"
    /\ Becomes(c, "closed")
    /\ UNCHANGED <<pump, clients, writers, publishing, stopping, dead>>

\* Mutant of RangeOver: Shutdown runs beside the Range.
NoRange == TRUE

\* Its Range has visited what is still in the map of what was there.
RangeOver == \A c \in early \cap clients : link[c] = "closed"

\* Shutdown closes the listener ...
Shutdown ==
    /\ stop = "closing"
    /\ RangeOver
    /\ stop' = "shutdown"
    /\ UNCHANGED <<wire, pump, clients, writers, publishing, early, dead>>

\* ... and waits for handshakes, not for connections that are hijacked.
StopReturns ==
    /\ stop = "shutdown"
    /\ \A c \in Conns : pump[c] # "accepted"
    /\ stop' = "returned"
    /\ UNCHANGED <<wire, pump, clients, writers, publishing, early, dead>>

StopGoesOn == (\E c \in Conns : StopCloses(c)) \/ Shutdown \/ StopReturns

-----------------------------------------------------------------------------
ConnStep(c) ==
    \/ PumpStep(c) \/ Accept(c) \/ ReadMessage(c)
    \/ Tick(c) \/ ClientReads(c) \/ ClientVanishes(c) \/ ConnLost(c)

Next ==
    /\ ~dead
    /\ \/ \E c \in Conns : ConnStep(c)
       \/ \E p \in Publishers : PublishStarts(p) \/ PublishGoesOn(p)
       \/ StopCalled \/ StopGoesOn

Spec == Init /\ [][Next]_vars

\* Goroutines run, tool calls end (BaseServer's CallReturns), time passes.  The
\* writers of a connection wait in a channel, which serves them in turn: hence SF.
Fairness ==
    /\ \A c \in Conns : /\ SF_vars(~dead /\ PumpStep(c))
                        /\ WF_vars(~dead /\ Tick(c))
                        /\ WF_vars(~dead /\ ClientReads(c))
    /\ \A p \in Publishers : SF_vars(~dead /\ PublishGoesOn(p))
    /\ WF_vars(~dead /\ StopGoesOn)

FairSpec == Spec /\ Fairness

-----------------------------------------------------------------------------
(* Properties.                                                             *)

\* A connection that the pump serves is in the map, where events and Stop find
\* it, or it is closed: nobody drops the entry of a connection that stays open
\* (lines 156-165, 187-196, 219-220).
ServedIsRegistered ==
    \A c \in Conns : pump[c] \in Serving /\ c \notin clients => link[c] = "closed"

\* When Stop returns, every connection that was in the map when it was called
\* is closed, or a deferred call is about to close it (lines 154-167, 214-220).
StopClosesRegistered ==
    stop \in {"shutdown", "returned"} =>
        \A c \in early : link[c] = "closed" \/ pump[c] = "closing"

\* The read deadline ends a connection that works only if its pump was busy, its
\* client silent or its pings over since the last pong (lines 225-242).
LiveConnectionsStay ==
    \A c \in Conns :
        pump[c] = "reading" /\ link[c] = "open" /\ DeadlinePassed(c)
          => busy[c] \/ ~alive[c] \/ ~pinger[c]

\* A response that nothing reads has no deadline: the pump waits in its write.
Stuck(c) ==
    /\ pump[c] \in Replying /\ link[c] = "open"
    /\ ~alive[c] /\ outbox[c] = Cap

\* A client that is gone leaves the map, with or without a word, unless the pump
\* is stuck in a response to it (lines 225-252).
GoneClientsLeave ==
    \A c \in Conns :
        (c \in clients /\ ~alive[c]) ~> (c \notin clients \/ Stuck(c) \/ dead)

\* Publish ends although clients vanish in the middle of a write: the read
\* deadline closes their connections, again unless the pump is stuck
\* (lines 170-199 with 225-252).
PublishEndsAnyway ==
    \A p \in Publishers :
        pub[p] # "idle" ~> (pub[p] = "idle" \/ dead \/ \E c \in Conns : Stuck(c))
=============================================================================
