---------------------------- MODULE StdioSystem -----------------------------
(***************************************************************************)
(* A StdioClient and a StdioServer joined by two pipes: what an            *)
(* application sees that starts a server of this SDK as a subprocess, or   *)
(* in the same process over io.Pipe as the tests do (Cap = 0).             *)
(***************************************************************************)
EXTENDS Integers, FiniteSets, Pipe

CONSTANTS
    Callers, Loops, MaxId, Cap, Questions, InitQuestion, ListNew, ListOld, Unknown,
    Notices, NoOne, ToolsEnabled

ASSUME StdioSystemAssumption ==
    /\ MaxId \in Nat
    /\ Cap \in Nat
    /\ IsFiniteSet(Loops)
    /\ NoOne \notin Callers \cup Loops
    /\ NoOne \notin {ListNew, ListOld}
    /\ Notices \cap {"request", "initialize", "listCached", "listRetry", "listNew", "listOld",
                   "batch", "initialized", "syntax", "types"} = {}
    /\ ToolsEnabled \in BOOLEAN

VARIABLES
    nextID, pending, chan, mu, pc, job, ask, myId, myLoop, expired, got,
    negotiated, cached, loop, line, loopCtxDone, buffer, begun, spoiled, sent,
    panicked,                                                    \* the client
    srv, todo, out, batch, broken, done, ctxDone, stopper, message, \* the server
    toServer, toClient,                                          \* the pipes
    welcomed   \* history: the server has accepted an initialize request

clientOnly == <<nextID, pending, chan, mu, pc, job, ask, myId, myLoop, expired, got,
                negotiated, cached, loop, line, loopCtxDone, buffer, begun, spoiled, sent,
                panicked>>
serverOnly == <<srv, todo, out, batch, broken, done, ctxDone, stopper, message>>
sysVars == <<clientOnly, serverOnly, toServer, toClient, welcomed>>

Asks == Questions \cup {InitQuestion, ListNew, ListOld, Unknown}

S == INSTANCE StdioServer WITH ReqIds <- 2 .. MaxId, Batches <- {}, Questions <- Asks
C == INSTANCE StdioClient WITH Replies <- S!Replies, Lines <- {"other"}

Init == C!Init /\ S!ServerInit /\ welcomed = FALSE

ClientStep == C!Next /\ UNCHANGED <<serverOnly, welcomed>>

Accepts == srv = "handle" /\ Head(todo).kind = "request"
           /\ Head(todo).ask = InitQuestion /\ out' # out
           /\ out'[Len(out')].reply = "result"

ServerStep ==
    /\ S!ServerNext
    /\ welcomed' = (welcomed \/ Accepts)
    /\ UNCHANGED clientOnly

\* The process of a server whose readLoop has ended exits: its pipes close.
ServerExits ==
    /\ srv = "ended" /\ ~toServer.closed
    /\ toServer' = Shut(toServer)
    /\ toClient' = Shut(toClient)
    /\ UNCHANGED <<clientOnly, serverOnly, welcomed>>

Next == ClientStep \/ ServerStep \/ ServerExits

Spec == Init /\ [][Next]_sysVars

\* Nobody stops the server, and the contexts of the read loops live on; the
\* contexts of calls may end.
Calm == ~done /\ ~ctxDone /\ \A l \in Loops : ~loopCtxDone[l]

\* The fairness of each side in such times.
CalmSpec == Init /\ [][Next /\ Calm']_sysVars /\ C!Fairness /\ S!ServerFairness

-----------------------------------------------------------------------------
\* A call gets an answer that this server gives to the call's own request,
\* however calls overlap, time out and leave late responses behind
\* (client stdio.go:362-416 with 99-189, server stdio.go:69-251).
AnswersMyQuestion ==
    \A c \in Callers : got[c] # NoOne =>
        /\ got[c].id = myId[c]
        /\ got[c].reply \in S!ReplyTo(ask[c])

\* The server is told that the client is initialized only after it has
\* accepted an initialize request (client stdio.go:204-235).
InitializedAfterWelcome ==
    (\/ \E c \in Callers : job[c] = "initialized"
     \/ \E i \in DOMAIN toServer.queue : toServer.queue[i].kind = "initialized")
      => welcomed

At(queue, kind, id) == {i \in DOMAIN queue : queue[i].kind = kind /\ queue[i].id = id}

\* Where a request, or its response, is between the write of the caller and its
\* select.
Places(id) ==
    ({"toServer"} \X At(toServer.queue, "request", id))
    \cup ({"todo"} \X At(todo, "request", id))
    \cup ({"out"} \X At(out, "response", id))
    \cup ({"toClient"} \X At(toClient.queue, "response", id))
    \cup ({"buffer"} \X UNION {{l} \X At(buffer[l], "response", id) : l \in {k \in Loops : loop[k] # "ended"}})
    \cup ({"readLoop"} \X {l \in Loops : loop[l] \in {"lookup", "deliver"} /\ line[l].id = id})
    \cup ({"channel"} \X {c \in Callers : myId[c] = id /\ chan[id] = "full"})

\* Initialize was called once at most, and the readLoop that it started goes on.
Sole == \A l, k \in Loops : loop[l] # "off" /\ loop[k] # "off" => l = k
Steady ==
    /\ Sole
    /\ \A l \in Loops : loop[l] # "ended"

\* No request is handled or answered twice, however many loops read.  None that a
\* caller still waits for is lost while the server has not exited and one loop
\* reads: a second one may tear its line, and one that ends takes with it what its
\* buffer holds (client stdio.go:99-189 and 362-416, server stdio.go:69-251).
ExactlyOnce ==
    /\ \A id \in C!Ids : Cardinality(Places(id)) <= 1
    /\ \A c \in Callers :
          pc[c] = "waiting" /\ ~toServer.closed /\ Steady => Cardinality(Places(myId[c])) = 1

\* A caller holds c.mu in a write that waits for the server to read, the
\* server waits in a write for readLoop to read, readLoop waits for c.mu.
Gridlock ==
    /\ \E c \in Callers : pc[c] = "writing"
    /\ ~Room(toServer, Cap) /\ ~toServer.closed
    /\ srv \in {"write", "writeError"}
    /\ ~Room(toClient, Cap) /\ ~toClient.closed
    /\ \E l \in Loops : loop[l] \in {"lookup", "delete"}
    /\ \A l \in Loops : loop[l] \in {"off", "ended", "lookup", "delete"}

\* Refuted: "Thread-safe implementation" - goroutines of one client and one
\* server never block each other for good.
NoGridlock == ~Gridlock

\* Over pipes with room for every message, each request of a client that has
\* a readLoop, those of ListTools included, comes to an end although nothing
\* makes its context end.
CallsEnd ==
    []Sole =>
        \A c \in Callers :
            (pc[c] = "write" /\ \E l \in Loops : loop[l] # "off")
              ~> (pc[c] \in {"idle", "next", "save"} \/ panicked)
-----------------------------------------------------------------------------
(* What the callers see of all this.                                       *)

\* A call is over for its caller once it has left its select.
Stage(c) ==
    CASE myId[c] = 0 -> "idle"
      [] myId[c] # 0 /\ pc[c] \in {"write", "writing"} -> "made"
      [] myId[c] # 0 /\ pc[c] = "waiting" -> "sent"
      [] OTHER -> "over"

RequestOf(c) ==
    IF myId[c] = 0 THEN NoOne ELSE [kind |-> "request", id |-> myId[c], ask |-> ask[c]]

\* A response between handleRequest and the select of its caller.
UnderWay(m) ==
    \/ \E i \in DOMAIN out : out[i] = m
    \/ \E i \in DOMAIN toClient.queue : toClient.queue[i] = m
    \/ \E l \in Loops : loop[l] # "ended" /\ \E i \in DOMAIN buffer[l] : buffer[l][i] = m
    \/ \E l \in Loops : loop[l] \in {"lookup", "deliver"} /\ line[l] = m
    \/ chan[m.id] = "full" /\ sent[m.id] = m

Answers ==
    {m \in S!Response :
        \E c \in Callers : pc[c] = "waiting" /\ myId[c] = m.id /\ UnderWay(m)}

R == INSTANCE RequestReply WITH
        ReplyTo <- S!ReplyTo,
        last <- nextID,
        stage <- [c \in Callers |-> Stage(c)],
        request <- [c \in Callers |-> RequestOf(c)],
        reply <- got,
        asked <- todo \o toServer.queue,
        answers <- Answers,
        up <- ~toServer.closed,
        steady <- Steady

\* The two sides together do what RequestReply promises: what was sent is carried
\* out once and in order, its answer reaches nobody but the call that asked, and
\* late answers disturb nobody.  An answer is lost only if its call gives up, or
\* once a second readLoop was started or one has ended (client stdio.go:99-416,
\* server stdio.go:69-251).
ImplementsRequestReply == R!Spec
=============================================================================
