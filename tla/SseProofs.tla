------------------------------- MODULE SseProofs -------------------------------
(***************************************************************************)
(* The SSE client and its server for any number of callers and calls: the  *)
(* mutex that a call holds across its round trip keeps the client's tool   *)
(* calls apart in the server, except those that were given up.             *)
(***************************************************************************)
EXTENDS Sse, TLAPS

\* Two callers have different calls, and a call to come has left no trace.
CallsApart ==
    /\ \A c, d \in Callers : call[c] # 0 /\ call[c] = call[d] => c = d
    /\ \A i \in Calls : i > calls => phase[i] = "none" /\ i \notin cut

\* Whoever has sent its request holds the mutex until it returns; a connection
\* that is closed was used.
SenderHolds ==
    \A c \in Callers : call[c] # 0 =>
        IF phase[call[c]] = "queued" THEN call[c] \notin cut ELSE holder = c

\* A request under way on an open connection is the holder's.
UnderWayIsHolders ==
    \A i \in Calls : phase[i] \in {"sent", "calling", "answered"} /\ i \notin cut =>
        /\ holder \in Callers
        /\ call[holder] = i

\* A client that has died has no open connection.
DeadIsCut == dead => cut = Calls

IInv == /\ TypeOK /\ DeadIsCut
        /\ ~dead => CallsApart /\ SenderHolds /\ UnderWayIsHolders

-----------------------------------------------------------------------------
LEMMA InitInv == Init => IInv
  <1> SUFFICES ASSUME Init PROVE IInv
    OBVIOUS
  <1> USE DEF Init
  <1>1. TypeOK
    <2>1. 0 \in 0 .. MaxCalls /\ 0 \in 0 .. 0
      BY SseAssumption
    <2> QED
      BY <2>1 DEF TypeOK
  <1>2. CallsApart /\ SenderHolds
    BY DEF CallsApart, SenderHolds
  <1>3. UnderWayIsHolders /\ DeadIsCut
    BY DEF UnderWayIsHolders, DeadIsCut
  <1> QED
    BY <1>1, <1>2, <1>3 DEF IInv

\* Every variable keeps its type.
LEMMA TypeStep == TypeOK /\ [Next]_vars => TypeOK'
  <1> SUFFICES ASSUME TypeOK, [Next]_vars PROVE TypeOK'
    OBVIOUS
  <1> USE SseAssumption DEF TypeOK, Calls, events, Others
  <1>1. ASSUME NEW c \in Callers, NEW k \in {"tool", "quick"}, Call(c, k) PROVE TypeOK'
    <2>1. calls + 1 \in 1 .. MaxCalls /\ calls' = calls + 1
      BY <1>1 DEF Call
    <2>2. call' \in [Callers -> 0 .. calls']
      BY <1>1, <2>1 DEF Call
    <2>3. kind' \in [1 .. MaxCalls -> {"tool", "quick"}]
          /\ phase' \in [1 .. MaxCalls ->
                          {"none", "queued", "sent", "calling", "answered", "over"}]
      BY <1>1, <2>1 DEF Call
    <2> QED
      BY <1>1, <2>1, <2>2, <2>3 DEF Call
  <1>2. ASSUME NEW c \in Callers,
               ContextEnds(c) \/ Send(c) \/ SendFails(c) \/ Receive(c)
                 \/ ConnectionLost(c) \/ Abort(c)
        PROVE  TypeOK'
    <2>1. call[c] \in 0 .. calls /\ 0 \in 0 .. calls
          /\ (call[c] # 0 => call[c] \in 1 .. MaxCalls)
      OBVIOUS
    <2>2. CASE ContextEnds(c)
      BY <2>2 DEF ContextEnds
    <2>4. CASE Send(c)
      BY <2>1, <2>4 DEF Send, Acquire
    <2>3. CASE SendFails(c) \/ Receive(c) \/ ConnectionLost(c) \/ Abort(c)
      <3>1. call' \in [Callers -> 0 .. calls'] /\ expired' \subseteq Callers
            /\ UNCHANGED <<calls, kind, events, stop, dead>>
            /\ holder' \in Callers \cup {None}
        BY <2>1, <2>3 DEF SendFails, Receive, ConnectionLost, Abort, Ends
      <3>2. cut' \subseteq 1 .. MaxCalls
        BY <2>1, <2>3 DEF SendFails, Receive, ConnectionLost, Abort
      <3>3. phase' \in [1 .. MaxCalls ->
                       {"none", "queued", "sent", "calling", "answered", "over"}]
        BY <2>1, <2>3 DEF SendFails, Receive, ConnectionLost, Abort
      <3> QED
        BY <3>1, <3>2, <3>3
    <2> QED
      BY <1>2, <2>2, <2>3, <2>4
  <1>3. ASSUME NEW i \in Calls,
               Accept(i) \/ Drop(i) \/ HandlerReturns(i) \/ ContextCancelled(i)
                 \/ ConnectionBreaks(i)
        PROVE  TypeOK'
    <2>1. /\ UNCHANGED <<calls, call, expired, holder, kind, events, stop, dead>>
          /\ cut' \subseteq 1 .. MaxCalls
      BY <1>3 DEF Accept, Drop, HandlerReturns, ContextCancelled, ConnectionBreaks
    <2>2. phase' \in [1 .. MaxCalls ->
                     {"none", "queued", "sent", "calling", "answered", "over"}]
      <3>1. PICK q \in {"sent", "calling", "answered", "over"} :
               phase' = [phase EXCEPT ![i] = q] \/ phase' = phase
        BY <1>3 DEF Accept, Drop, HandlerReturns, ContextCancelled, ConnectionBreaks
      <3> QED
        BY <3>1
    <2> QED
      BY <2>1, <2>2
  <1>4. CASE ClientEvents
    <2>1. UNCHANGED Others /\ cut' \in {cut, 1 .. MaxCalls}
      BY <1>4 DEF ClientEvents, EventTaken, SendPanics, SubscriptionEnds, LoopEnds,
         CloseCancels, CloseReturns, Subscribe, EventArrives
    <2>2. /\ sub' \in {"off", "reading", "sending"}
          /\ stream' \in BOOLEAN /\ loop' \in BOOLEAN /\ ctxDone' \in BOOLEAN
          /\ dead' \in BOOLEAN /\ close' \in {"no", "cancelled", "closed"}
      BY <1>4 DEF ClientEvents, EventTaken, SendPanics, SubscriptionEnds, LoopEnds,
         CloseCancels, Cancel, CloseReturns, Subscribe, EventArrives
    <2> QED
      BY <2>1, <2>2
  <1>5. CASE StopCalled \/ StopReturns \/ StreamEnds \/ StreamBreaks
    BY <1>5 DEF StopCalled, StopReturns, StreamEnds, StreamBreaks
  <1>6. CASE UNCHANGED vars
    BY <1>6 DEF vars
  <1> QED
    BY <1>1, <1>2, <1>3, <1>4, <1>5, <1>6 DEF Next, ClientCalls, ServerStep

-----------------------------------------------------------------------------
(* The mutex.                                                              *)

Mutex == CallsApart /\ SenderHolds /\ UnderWayIsHolders

\* What a step of a caller does to the mutex.
LEMMA CallerKeepsMutex ==
  ASSUME TypeOK, Mutex, NEW c \in Callers,
         \/ \E k \in {"tool", "quick"} : Call(c, k)
         \/ ContextEnds(c) \/ Send(c) \/ SendFails(c) \/ Receive(c)
         \/ ConnectionLost(c) \/ Abort(c)
  PROVE  Mutex'
  <1> DEFINE n == call[c]
  <1> USE SseAssumption DEF TypeOK, Mutex, Calls
  <1>0. n \in 0 .. calls /\ (n # 0 => n \in Calls /\ ~ n > calls)
    OBVIOUS
  <1>1. ASSUME NEW k \in {"tool", "quick"}, Call(c, k) PROVE Mutex'
    <2>1. /\ n = 0 /\ calls < MaxCalls /\ calls' = calls + 1
          /\ call' = [call EXCEPT ![c] = calls + 1]
          /\ phase' = [phase EXCEPT ![calls + 1] = "queued"]
          /\ UNCHANGED <<holder, cut>>
      BY <1>1 DEF Call
    <2>2. calls + 1 \in Calls /\ calls + 1 \notin cut /\ phase[calls + 1] = "none"
      BY <2>1 DEF CallsApart
    <2>3. CallsApart'
      BY <2>1, <2>2 DEF CallsApart
    <2>4. SenderHolds'
      BY <2>1, <2>2 DEF SenderHolds
    <2>5. UnderWayIsHolders'
      BY <2>1, <2>2 DEF UnderWayIsHolders
    <2> QED
      BY <2>3, <2>4, <2>5
  <1>2. CASE ContextEnds(c)
    BY <1>2 DEF ContextEnds, CallsApart, SenderHolds, UnderWayIsHolders
  <1>3. CASE Send(c)
    <2>1. /\ n # 0 /\ phase[n] = "queued" /\ holder = None /\ holder' = c
          /\ phase' = [phase EXCEPT ![n] = "sent"]
          /\ UNCHANGED <<calls, call, cut>>
      BY <1>3 DEF Send, Acquire
    <2>2. CallsApart'
      BY <1>0, <2>1 DEF CallsApart
    <2>3. SenderHolds'
      BY <1>0, <2>1 DEF SenderHolds, CallsApart
    <2>4. UnderWayIsHolders'
      BY <1>0, <2>1 DEF UnderWayIsHolders
    <2> QED
      BY <2>2, <2>3, <2>4
  <1>4. CASE SendFails(c)
    <2>1. /\ n # 0 /\ phase[n] = "queued" /\ holder = None
          /\ phase' = [phase EXCEPT ![n] = "over"]
          /\ call' = [call EXCEPT ![c] = 0]
          /\ UNCHANGED <<calls, holder, cut>>
      BY <1>4 DEF SendFails, Ends
    <2>2. CallsApart'
      BY <1>0, <2>1 DEF CallsApart
    <2>3. SenderHolds'
      BY <1>0, <2>1 DEF SenderHolds, CallsApart
    <2>4. UnderWayIsHolders'
      BY <1>0, <2>1 DEF UnderWayIsHolders
    <2> QED
      BY <2>2, <2>3, <2>4
  <1>5. CASE Receive(c) \/ ConnectionLost(c) \/ Abort(c)
    <2>1. /\ n # 0 /\ holder' = None
          /\ call' = [call EXCEPT ![c] = 0]
          /\ UNCHANGED calls
          /\ \/ /\ phase[n] = "answered"
                /\ phase' = [phase EXCEPT ![n] = "over"] /\ UNCHANGED cut
             \/ /\ n \in cut /\ UNCHANGED <<phase, cut>>
             \/ /\ phase[n] \in {"sent", "calling", "answered"}
                /\ cut' = cut \cup {n} /\ UNCHANGED phase
      BY <1>5 DEF Receive, ConnectionLost, Abort, Ends
    <2>2. phase[n] # "queued" /\ holder = c
      BY <2>1 DEF SenderHolds
    <2>3. CallsApart'
      BY <1>0, <2>1 DEF CallsApart
    <2>4. SenderHolds'
      BY <1>0, <2>1, <2>2 DEF SenderHolds, CallsApart
    <2>5. UnderWayIsHolders'
      BY <1>0, <2>1, <2>2 DEF UnderWayIsHolders
    <2> QED
      BY <2>3, <2>4, <2>5
  <1> QED
    BY <1>1, <1>2, <1>3, <1>4, <1>5

\* The server and the network move requests that were sent, and close connections.
LEMMA ServerKeepsMutex ==
  ASSUME TypeOK, Mutex, NEW i \in Calls,
         Accept(i) \/ Drop(i) \/ HandlerReturns(i) \/ ContextCancelled(i)
           \/ ConnectionBreaks(i)
  PROVE  Mutex'
  <1> USE DEF TypeOK, Mutex
  <1>1. /\ phase[i] \in {"sent", "calling", "answered"}
        /\ UNCHANGED <<calls, call, holder>>
        /\ cut' \in {cut, cut \cup {i}}
        /\ \E q \in {"sent", "calling", "answered", "over"} :
              phase' = [phase EXCEPT ![i] = q]
    BY DEF Accept, Drop, HandlerReturns, ContextCancelled, ConnectionBreaks
  <1>2. ~ i > calls
    BY <1>1 DEF CallsApart
  <1>3. CallsApart'
    BY <1>1, <1>2 DEF CallsApart
  <1>4. SenderHolds'
    BY <1>1 DEF SenderHolds
  <1>5. UnderWayIsHolders'
    BY <1>1 DEF UnderWayIsHolders
  <1> QED
    BY <1>3, <1>4, <1>5

LEMMA IInvStep == IInv /\ [Next]_vars => IInv'
  <1> SUFFICES ASSUME IInv, [Next]_vars PROVE DeadIsCut' /\ (~dead' => Mutex')
    BY TypeStep DEF IInv, Mutex
  <1>0. TypeOK /\ DeadIsCut /\ (~dead => Mutex)
    BY DEF IInv, Mutex
  <1>1. CASE ~dead /\ ClientCalls
    <2>1. ~dead'
      BY <1>1 DEF ClientCalls, Call, ContextEnds, Send, SendFails, Receive,
         ConnectionLost, Abort, Ends
    <2> QED
      BY <1>0, <1>1, <2>1, CallerKeepsMutex DEF ClientCalls, DeadIsCut
  <1>2. ASSUME NEW i \in Calls,
               Accept(i) \/ Drop(i) \/ HandlerReturns(i) \/ ContextCancelled(i)
                 \/ ConnectionBreaks(i)
        PROVE  DeadIsCut' /\ (~dead' => Mutex')
    <2>1. dead' = dead /\ cut' \in {cut, cut \cup {i}}
      BY <1>2 DEF Accept, Drop, HandlerReturns, ContextCancelled, ConnectionBreaks
    <2> QED
      BY <1>0, <1>2, <2>1, ServerKeepsMutex DEF DeadIsCut
  <1>3. CASE UNCHANGED <<calls, call, holder, phase, cut, dead>>
    <2>1. Mutex => Mutex'
      BY <1>3 DEF Mutex, CallsApart, SenderHolds, UnderWayIsHolders
    <2> QED
      BY <1>0, <1>3, <2>1 DEF DeadIsCut
  <1>4. CASE SendPanics
    BY <1>4 DEF SendPanics, DeadIsCut
  <1>5. CASE ClientEvents
    BY <1>3, <1>4, <1>5 DEF ClientEvents, EventTaken, SubscriptionEnds, LoopEnds,
       CloseCancels, CloseReturns, Subscribe, EventArrives, Others
  <1>6. CASE StopCalled \/ StopReturns \/ StreamEnds \/ StreamBreaks
    BY <1>3, <1>6 DEF StopCalled, StopReturns, StreamEnds, StreamBreaks, Others
  <1>7. CASE UNCHANGED vars
    BY <1>3, <1>7 DEF vars
  <1> QED
    BY <1>1, <1>2, <1>5, <1>6, <1>7 DEF Next, ServerStep

-----------------------------------------------------------------------------
\* The state is well formed, and two tool calls of one client run in the server at
\* once only if the client has given up one of them, for any number of callers and
\* calls (client sse.go:106-107 and 126).
THEOREM ExchangesAreSound == Spec => []ExchangesSound
  <1>1. IInv => OverlapNeedsTimeout
    <2> SUFFICES ASSUME IInv, NEW i \in Calls, NEW j \in Calls, i # j,
                        phase[i] = "calling", phase[j] = "calling"
                 PROVE  i \in cut \/ j \in cut
      BY DEF OverlapNeedsTimeout
    <2>1. CASE dead
      BY <2>1 DEF IInv, DeadIsCut
    <2>2. CASE ~dead
      BY <2>2 DEF IInv, UnderWayIsHolders
    <2> QED
      BY <2>1, <2>2
  <1>2. IInv => ExchangesSound
    BY <1>1 DEF IInv, ExchangesSound
  <1> QED
    BY <1>2, InitInv, IInvStep, PTL DEF Spec
=============================================================================
