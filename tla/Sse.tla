---------------------------------- MODULE Sse -----------------------------------
(***************************************************************************)
(* pkg/client/sse/sse.go and pkg/server/sse/sse.go.  A call is an HTTP     *)
(* request of its own; the client holds its mutex for the whole round      *)
(* trip, and a context that ends closes the connection.  The server's      *)
(* handler runs in the context of its request.  Beside the calls, one      *)
(* goroutine subscribes to the server's events and one takes them.         *)
(*                                                                         *)
(* HTTP ties a response to its request, so the IDs in the messages, which  *)
(* sendRequest does not look at, and what a call returns are left out.     *)
(***************************************************************************)
EXTENDS Integers

CONSTANTS
    Callers,     \* goroutines that use the client
    None,
    MaxCalls     \* bound of the number of calls

ASSUME SseAssumption == MaxCalls \in Nat /\ None \notin Callers

Calls == 1..MaxCalls

VARIABLES
    calls,       \* number of calls so far
    call,        \* the call of each caller, 0 if there is none
    expired,     \* callers whose context has ended
    holder,      \* who holds c.mu
    kind,        \* "tool", or "quick": any request that runs no handler
    phase,       \* of each call: none, queued, sent, calling, answered, over
    cut,         \* connections that are closed, by either end
    sub,         \* the subscription: off, reading or sending to c.eventSub
    stream,      \* the server has an event stream open
    loop,        \* the goroutine that takes events runs
    ctxDone,     \* c.ctx is cancelled
    close,       \* Close: no, cancelled, closed
    stop,        \* Stop: no, called, returned
    dead         \* the client's process has panicked

vars == <<calls, call, expired, holder, kind, phase, cut, sub, stream, loop, ctxDone,
          close, stop, dead>>

events == <<sub, stream, loop, ctxDone, close>>

TypeOK ==
    /\ calls \in 0..MaxCalls
    /\ call \in [Callers -> 0..calls]
    /\ expired \subseteq Callers
    /\ holder \in Callers \cup {None}
    /\ kind \in [Calls -> {"tool", "quick"}]
    /\ phase \in [Calls -> {"none", "queued", "sent", "calling", "answered", "over"}]
    /\ cut \subseteq Calls
    /\ sub \in {"off", "reading", "sending"}
    /\ stream \in BOOLEAN /\ loop \in BOOLEAN /\ ctxDone \in BOOLEAN /\ dead \in BOOLEAN
    /\ close \in {"no", "cancelled", "closed"}
    /\ stop \in {"no", "called", "returned"}

Init ==
    /\ calls = 0
    /\ call = [c \in Callers |-> 0]
    /\ expired = {}
    /\ holder = None
    /\ kind = [i \in Calls |-> "quick"]
    /\ phase = [i \in Calls |-> "none"]
    /\ cut = {}
    /\ sub = "off" /\ stream = FALSE /\ loop = TRUE /\ ctxDone = FALSE
    /\ close = "no" /\ stop = "no" /\ dead = FALSE

-----------------------------------------------------------------------------
(* Calls of the client: sendRequest, SendBatchRequest, SendNotification.   *)

Call(c, k) ==
    /\ call[c] = 0 /\ calls < MaxCalls
    /\ calls' = calls + 1
    /\ call' = [call EXCEPT ![c] = calls + 1]
    /\ kind' = [kind EXCEPT ![calls + 1] = k]
    /\ phase' = [phase EXCEPT ![calls + 1] = "queued"]
    /\ expired' = expired \ {c}
    /\ UNCHANGED <<holder, cut, events, stop, dead>>

ContextEnds(c) ==
    /\ call[c] # 0 /\ c \notin expired
    /\ expired' = expired \cup {c}
    /\ UNCHANGED <<calls, call, holder, kind, phase, cut, events, stop, dead>>

\* Mutant of Acquire: the mutex guards only the choice of an ID.
AcquireBriefly(c) == holder = None /\ UNCHANGED holder

\* c.mu.Lock, to be unlocked when the call returns.
Acquire(c) == holder = None /\ holder' = c

\* http.Client.Do: with a context that lives and a server that listens the
\* request goes out.
Send(c) ==
    /\ call[c] # 0 /\ phase[call[c]] = "queued"
    /\ c \notin expired /\ stop = "no"
    /\ Acquire(c)
    /\ phase' = [phase EXCEPT ![call[c]] = "sent"]
    /\ UNCHANGED <<calls, call, expired, kind, cut, events, stop, dead>>

\* The call of c returns.
Ends(c) ==
    /\ call' = [call EXCEPT ![c] = 0]
    /\ expired' = expired \ {c}
    /\ UNCHANGED <<calls, kind, events, stop, dead>>

SendFails(c) ==
    /\ call[c] # 0 /\ phase[call[c]] = "queued"
    /\ c \in expired \/ stop # "no"
    /\ holder = None
    /\ phase' = [phase EXCEPT ![call[c]] = "over"]
    /\ Ends(c)
    /\ UNCHANGED <<holder, cut>>

Receive(c) ==
    /\ call[c] # 0 /\ phase[call[c]] = "answered" /\ call[c] \notin cut
    /\ phase' = [phase EXCEPT ![call[c]] = "over"]
    /\ holder' = None
    /\ Ends(c)
    /\ UNCHANGED cut

\* The connection breaks, or the server closes it: Do or Decode fails.
ConnectionLost(c) ==
    /\ call[c] # 0 /\ call[c] \in cut
    /\ holder' = None
    /\ Ends(c)
    /\ UNCHANGED <<phase, cut>>

\* Mutant of Abort: the request does not get the caller's context.
NeverAborts(c) == FALSE /\ UNCHANGED vars

\* The context ends during the round trip: the connection is closed, and what the
\* server makes of the request is its own affair.
Abort(c) ==
    /\ call[c] # 0 /\ c \in expired
    /\ phase[call[c]] \in {"sent", "calling", "answered"}
    /\ cut' = cut \cup {call[c]}
    /\ holder' = None
    /\ Ends(c)
    /\ UNCHANGED phase

-----------------------------------------------------------------------------
(* The server: net/http and handleRPC.                                     *)

\* Also a request whose connection has been closed meanwhile.
Accept(i) ==
    /\ phase[i] = "sent"
    /\ phase' = [phase EXCEPT ![i] = IF kind[i] = "tool" THEN "calling" ELSE "answered"]
    /\ UNCHANGED <<calls, call, expired, holder, kind, cut, events, stop, dead>>

\* A request on a closed connection is not read, and Shutdown closes a connection
\* that has sent nothing yet.
Drop(i) ==
    /\ phase[i] = "sent"
    /\ i \in cut \/ stop = "called"
    /\ phase' = [phase EXCEPT ![i] = "over"]
    /\ cut' = cut \cup {i}
    /\ UNCHANGED <<calls, call, expired, holder, kind, events, stop, dead>>

\* HandleToolCall returns: a result, an error or the server's own timeout.
HandlerReturns(i) ==
    /\ phase[i] = "calling"
    /\ phase' = [phase EXCEPT ![i] = "answered"]
    /\ UNCHANGED <<calls, call, expired, holder, kind, cut, events, stop, dead>>

\* HandleToolCall returns because r.Context() has ended with the connection.
ContextCancelled(i) ==
    /\ phase[i] = "calling" /\ i \in cut
    /\ phase' = [phase EXCEPT ![i] = "over"]
    /\ UNCHANGED <<calls, call, expired, holder, kind, cut, events, stop, dead>>

ConnectionBreaks(i) ==
    /\ phase[i] \in {"sent", "calling", "answered"} /\ i \notin cut
    /\ cut' = cut \cup {i}
    /\ UNCHANGED <<calls, call, expired, holder, kind, phase, events, stop, dead>>

\* Stop is called, and the listener is closed at once.
StopCalled ==
    /\ stop = "no"
    /\ stop' = "called"
    /\ UNCHANGED <<calls, call, expired, holder, kind, phase, cut, events, dead>>

\* Shutdown returns when no request, and no event stream, is being served.
StopReturns ==
    /\ stop = "called" /\ ~stream
    /\ \A i \in Calls : phase[i] \notin {"sent", "calling"}
    /\ stop' = "returned"
    /\ UNCHANGED <<calls, call, expired, holder, kind, phase, cut, events, dead>>

-----------------------------------------------------------------------------
(* Events.                                                                 *)

Others == <<calls, call, expired, holder, kind, phase, stop>>

\* The subscription connects, or connects again.  That it asks for the stream "",
\* which a server may refuse, is one of the runs in which this never happens.
Subscribe ==
    /\ sub = "off" /\ ~stream /\ ~ctxDone /\ stop = "no"
    /\ sub' = "reading" /\ stream' = TRUE
    /\ UNCHANGED <<Others, cut, loop, ctxDone, close, dead>>

\* Publish: an event reaches the client.
EventArrives ==
    /\ sub = "reading" /\ stream
    /\ sub' = "sending"
    /\ UNCHANGED <<Others, cut, stream, loop, ctxDone, close, dead>>

EventTaken ==
    /\ sub = "sending" /\ loop /\ close # "closed"
    /\ sub' = "reading"
    /\ UNCHANGED <<Others, cut, stream, loop, ctxDone, close, dead>>

\* The subscription's send meets the channel that Close has closed.
SendPanics ==
    /\ sub = "sending" /\ close = "closed"
    /\ dead' = TRUE
    /\ cut' = Calls
    /\ UNCHANGED <<Others, events>>

\* The stream's connection is closed, and the server's handler returns.
StreamEnds ==
    /\ stream /\ (ctxDone \/ dead)
    /\ stream' = FALSE
    /\ UNCHANGED <<Others, cut, sub, loop, ctxDone, close, dead>>

StreamBreaks ==
    /\ stream
    /\ stream' = FALSE
    /\ UNCHANGED <<Others, cut, sub, loop, ctxDone, close, dead>>

SubscriptionEnds ==
    /\ sub = "reading" /\ (ctxDone \/ ~stream)
    /\ sub' = "off"
    /\ UNCHANGED <<Others, cut, stream, loop, ctxDone, close, dead>>

LoopEnds ==
    /\ loop /\ ctxDone
    /\ loop' = FALSE
    /\ UNCHANGED <<Others, cut, sub, stream, ctxDone, close, dead>>

\* Mutant of Cancel: Close only closes the channel.
CancelForgotten == UNCHANGED ctxDone

Cancel == ctxDone' = TRUE

CloseCancels ==
    /\ close = "no"
    /\ Cancel
    /\ close' = "cancelled"
    /\ UNCHANGED <<Others, cut, sub, stream, loop, dead>>

\* Close is called once: a second call panics on the closed channel.
CloseReturns ==
    /\ close = "cancelled"
    /\ close' = "closed"
    /\ UNCHANGED <<Others, cut, sub, stream, loop, ctxDone, dead>>

-----------------------------------------------------------------------------
ClientCalls ==
    \E c \in Callers :
        \/ \E k \in {"tool", "quick"} : Call(c, k)
        \/ ContextEnds(c)
        \/ Send(c)
        \/ SendFails(c)
        \/ Receive(c)
        \/ ConnectionLost(c)
        \/ Abort(c)

ClientEvents ==
    \/ EventTaken
    \/ SendPanics
    \/ SubscriptionEnds
    \/ LoopEnds
    \/ CloseCancels
    \/ CloseReturns
    \/ Subscribe
    \/ EventArrives

ServerStep ==
    \/ \E i \in Calls :
          \/ Accept(i)
          \/ Drop(i)
          \/ HandlerReturns(i)
          \/ ContextCancelled(i)
          \/ ConnectionBreaks(i)
    \/ StopCalled
    \/ StopReturns
    \/ StreamEnds
    \/ StreamBreaks

Next ==
    \/ ~dead /\ ClientCalls
    \/ ~dead /\ ClientEvents
    \/ ServerStep

Spec == Init /\ [][Next]_vars

\* Every goroutine of the client and the server's own code run, the mutex is fair,
\* and callers set deadlines.  Tool handlers, the network, Close and Stop owe nothing.
Fairness ==
    /\ \A c \in Callers :
          /\ WF_vars(~dead /\ ContextEnds(c))
          /\ SF_vars(~dead /\ (Send(c) \/ SendFails(c)))
          /\ WF_vars(~dead /\ (Receive(c) \/ ConnectionLost(c) \/ Abort(c)))
    /\ \A i \in Calls : WF_vars(Accept(i) \/ Drop(i)) /\ WF_vars(ContextCancelled(i))
    /\ WF_vars(~dead /\ (EventTaken \/ SendPanics \/ SubscriptionEnds))
    /\ WF_vars(~dead /\ LoopEnds) /\ WF_vars(~dead /\ CloseReturns)
    /\ WF_vars(StreamEnds) /\ WF_vars(StopReturns)

FairSpec == Spec /\ Fairness

-----------------------------------------------------------------------------
(* Properties.                                                             *)

\* Two tool calls of one client run in the server at once only if the client has
\* given up one of them (lines 106-107 and 126 of the client).
OverlapNeedsTimeout ==
    \A i, j \in Calls :
        i # j /\ phase[i] = "calling" /\ phase[j] = "calling" => i \in cut \/ j \in cut

\* The state is well formed, and the mutex keeps the client's tool calls apart.
ExchangesSound == TypeOK /\ OverlapNeedsTimeout

\* Every call with a deadline returns, although it has to wait, without regard to
\* its own context, for calls that hold the mutex across their round trips, and
\* although tool handlers may hang (lines 106-128 of the client).
CallsReturn == \A c \in Callers : call[c] # 0 ~> call[c] = 0 \/ dead

\* Stop, which gives Shutdown no deadline, returns once the client has been closed:
\* deadlines end its calls, the closed connections end their handlers, and Close
\* ends the event stream (lines 110-114 and 199 of the server, 313-317 of the client).
StopReturnsOnceClosed == stop = "called" /\ close = "closed" ~> stop = "returned"
=============================================================================
