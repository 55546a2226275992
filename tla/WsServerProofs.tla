---------------------------- MODULE WsServerProofs -----------------------------
(***************************************************************************)
(* The WebSocket server for any number of connections and publishers: what *)
(* it serves is registered, Stop closes what was registered, and the read  *)
(* deadline spares connections whose pongs are read.                       *)
(***************************************************************************)
EXTENDS WsServer, TLAPS

\* Progress of a pump whose connection has been in the map.
Known == Serving \cup {"leaving", "closing", "ended"}

\* A connection in the map, or at which a Range may be, has a pump that has
\* reached its loop: Accept does not touch it.
MapKnown ==
    /\ \A c \in clients \cup early : pump[c] \in Known
    /\ \A p \in Publishers :
          /\ pub[p] \in {"writing", "close", "delete"} => at[p] \in Conns
          /\ at[p] \in Conns => pump[at[p]] \in Known

\* Publish closes a connection before it deletes it.
DeletesClosed ==
    \A p \in Publishers : pub[p] = "delete" => link[at[p]] = "closed"

\* A connection that Stop's Range must visit is in the map, closed, or about to
\* be closed.
EarlyAccounted ==
    \A c \in early : c \in clients \/ link[c] = "closed" \/ pump[c] = "closing"

\* On an open connection with pings and a client that answers, less than two
\* intervals have passed, and of one the pong is there.
PongInTime ==
    \A c \in Conns : link[c] = "open" =>
        \/ busy[c] \/ ~alive[c] \/ ~pinger[c]
        \/ silent[c] = 0
        \/ silent[c] = 1 /\ pong[c]

\* Before Stop is called its Range has no connections.
EarlyLater == stop = "idle" => early = {}

IInv == /\ TypeOK /\ MapKnown /\ DeletesClosed /\ EarlyAccounted /\ EarlyLater
        /\ ServedIsRegistered /\ StopClosesRegistered /\ PongInTime

-----------------------------------------------------------------------------
LEMMA InitInv == Init => IInv
  <1> SUFFICES ASSUME Init PROVE IInv
    OBVIOUS
  <1> USE DEF Init
  <1>1. TypeOK
    <2>1. 0 \in 0 .. Cap /\ 0 \in 0 .. PongWait
      BY WsServerAssumption
    <2> QED
      BY <2>1 DEF TypeOK
  <1>2. MapKnown /\ DeletesClosed /\ EarlyAccounted /\ EarlyLater
    BY WsServerAssumption DEF MapKnown, DeletesClosed, EarlyAccounted, EarlyLater
  <1>3. ServedIsRegistered /\ StopClosesRegistered /\ PongInTime
    BY DEF ServedIsRegistered, StopClosesRegistered, PongInTime, Serving, Replying
  <1> QED
    BY <1>1, <1>2, <1>3 DEF IInv

PumpTypes == {"off", "accepted", "upgraded", "leaving", "closing", "ended"} \cup Serving

\* What the beginning of a response does to the variables it changes.
LEMMA ReplyType ==
  ASSUME TypeOK, NEW c \in Conns, NEW kind \in Replying, StartReply(c, kind)
  PROVE  /\ pump' \in [Conns -> PumpTypes]
         /\ writing' \in [Conns -> SUBSET Writers]
         /\ clashed' \in [Conns -> SUBSET Writers]
  <1>1. pump' \in [Conns -> PumpTypes]
    BY DEF StartReply, TypeOK, PumpTypes, Serving
  <1>2. /\ writing' \in [Conns -> SUBSET Writers]
        /\ clashed' \in [Conns -> SUBSET Writers]
    <2>1. writing[c] \in SUBSET Writers /\ writing[c] \cup {Pump} \in SUBSET Writers
      BY DEF TypeOK, Writers
    <2> QED
      BY <2>1 DEF StartReply, StartWrite, TypeOK, writers
  <1> QED
    BY <1>1, <1>2

\* ... and the end of a write by a pump or a Publish.
LEMMA WriteType ==
  ASSUME TypeOK, NEW c \in Conns, NEW w, NEW ok \in BOOLEAN, WriteEnds(c, w, ok)
  PROVE  /\ outbox' \in [Conns -> 0 .. Cap]
         /\ writing' \in [Conns -> SUBSET Writers]
         /\ clashed' \in [Conns -> SUBSET Writers]
  BY WsServerAssumption DEF WriteEnds, HasRoom, TypeOK

WireOK ==
    /\ link \in [Conns -> {"none", "open", "stuffed", "lost", "closed"}]
    /\ alive \in [Conns -> BOOLEAN]
    /\ outbox \in [Conns -> 0 .. Cap]
    /\ silent \in [Conns -> 0 .. PongWait]
    /\ pong \in [Conns -> BOOLEAN]
    /\ pinger \in [Conns -> BOOLEAN]
    /\ busy \in [Conns -> BOOLEAN]

\* ... and a connection that goes up or down.
LEMMA BecomesType ==
  ASSUME TypeOK, NEW c, NEW l \in {"open", "lost", "closed"}, Becomes(c, l)
  PROVE  WireOK'
  <1>1. 0 \in 0 .. Cap /\ 0 \in 0 .. PongWait /\ (l = "open") \in BOOLEAN
    BY WsServerAssumption
  <1> QED
    BY <1>1 DEF Becomes, TypeOK, WireOK

\* Every variable keeps its type.
LEMMA TypeStep == TypeOK /\ MapKnown /\ [Next]_vars => TypeOK'
  <1> SUFFICES ASSUME TypeOK, MapKnown, [Next]_vars PROVE TypeOK'
    OBVIOUS
  <1> USE WsServerAssumption DEF TypeOK
  <1> USE DEF wire, writers, publishing, stopping, PumpTypes
  <1>1. ASSUME NEW c \in Conns, PumpStep(c) PROVE TypeOK'
    <2>1. CASE Upgrade(c)
      <3>1. WireOK'
        BY <2>1, BecomesType DEF Upgrade, WireOK
      <3> QED
        BY <2>1, <3>1 DEF Upgrade, WireOK
    <2>2. CASE Serve(c)
      BY <2>2 DEF Serve, Serving
    <2>3. CASE HandlerReturns(c)
      <3>1. PICK kind \in Replying : StartReply(c, kind)
        BY <2>3 DEF HandlerReturns
      <3> QED
        BY <2>3, <3>1, ReplyType DEF HandlerReturns
    <2>4. CASE ReplyWritten(c)
      <3>1. PICK ok \in BOOLEAN : WriteEnds(c, Pump, ok)
        BY <2>4 DEF ReplyWritten
      <3>2. pump' \in [Conns -> PumpTypes]
        BY <2>4 DEF ReplyWritten, AfterReply, Serving
      <3>3. UNCHANGED <<link, alive, silent, pong, pinger, busy>>
        BY <3>1 DEF WriteEnds
      <3>4. UNCHANGED <<clients, publishing, stopping, dead>>
        BY <2>4 DEF ReplyWritten
      <3>6. /\ outbox' \in [Conns -> 0 .. Cap]
            /\ writing' \in [Conns -> SUBSET Writers]
            /\ clashed' \in [Conns -> SUBSET Writers]
        BY <3>1, WriteType
      <3> QED
        BY <3>2, <3>3, <3>4, <3>6
    <2>5. CASE ReadPong(c)
      BY <2>5 DEF ReadPong, PongHandler
    <2>6. CASE ReadFails(c)
      BY <2>6 DEF ReadFails
    <2>7. CASE Unregister(c)
      BY <2>7 DEF Unregister
    <2>8. CASE CloseConn(c)
      BY <2>8, BecomesType DEF CloseConn, WireOK
    <2> QED
      BY <1>1, <2>1, <2>2, <2>3, <2>4, <2>5, <2>6, <2>7, <2>8 DEF PumpStep
  <1>2. ASSUME NEW c \in Conns, ConnStep(c) PROVE TypeOK'
    <2>1. CASE Accept(c)
      BY <2>1, BecomesType DEF Accept, WireOK
    <2>2. CASE ReadMessage(c)
      <3>1. CASE \E kind \in Replying : StartReply(c, kind)
        BY <2>2, <3>1, ReplyType DEF ReadMessage
      <3> QED
        BY <2>2, <3>1 DEF ReadMessage, Serving
    <2>3. CASE Tick(c)
      <3>1. silent' \in [Conns -> 0 .. PongWait]
        BY <2>3 DEF Tick
      <3>3. busy' \in [Conns -> BOOLEAN]
        BY <2>3 DEF Tick
      <3>4. pong' \in [Conns -> BOOLEAN] /\ pinger' \in [Conns -> BOOLEAN]
        <4>1. CASE pinger[c] /\ PingFails(c)
          BY <2>3, <4>1 DEF Tick
        <4>2. CASE ~(pinger[c] /\ PingFails(c))
          BY <2>3, <4>2 DEF Tick
        <4> QED
          BY <4>1, <4>2
      <3>2. link' \in [Conns -> {"none", "open", "stuffed", "lost", "closed"}]
        BY <2>3 DEF Tick
      <3> QED
        BY <2>3, <3>1, <3>2, <3>3, <3>4 DEF Tick
    <2>4. CASE ClientReads(c)
      BY <2>4 DEF ClientReads
    <2>5. CASE ClientVanishes(c)
      BY <2>5 DEF ClientVanishes
    <2>6. CASE ConnLost(c)
      BY <2>6, BecomesType DEF ConnLost, WireOK
    <2> QED
      BY <1>1, <1>2, <2>1, <2>2, <2>3, <2>4, <2>5, <2>6 DEF ConnStep
  <1>3. ASSUME NEW p \in Publishers, PublishStarts(p) \/ PublishGoesOn(p) PROVE TypeOK'
    <2>1. CASE PublishStarts(p)
      BY <2>1 DEF PublishStarts
    <2>2. ASSUME NEW c \in Conns, PublishVisits(p, c) PROVE TypeOK'
      <3>1. /\ writing' \in [Conns -> SUBSET Writers]
            /\ clashed' \in [Conns -> SUBSET Writers]
        <4>1. p \in Writers
          BY DEF Writers
        <4>2. writing[c] \subseteq Writers /\ clashed[c] \subseteq Writers
          OBVIOUS
        <4>3. \/ writing' = writing
              \/ writing' = [writing EXCEPT ![c] = @ \cup {p}]
          BY <2>2 DEF PublishVisits, StartWrite
        <4>4. writing' \in [Conns -> SUBSET Writers]
          BY <4>1, <4>2, <4>3
        <4>5. clashed' \in [Conns -> SUBSET Writers]
          BY <2>2, <4>1, <4>2 DEF PublishVisits, StartWrite
        <4> QED
          BY <4>4, <4>5
      <3>2. dead' \in BOOLEAN
        BY <2>2 DEF PublishVisits
      <3> QED
        BY <2>2, <3>1, <3>2 DEF PublishVisits
    <2>3. CASE PublishWritten(p)
      <3>1. at[p] \in Conns
        BY <2>3 DEF PublishWritten, MapKnown
      <3>2. PICK ok \in BOOLEAN : WriteEnds(at[p], p, ok)
        BY <2>3 DEF PublishWritten
      <3>3. /\ pub' \in [Publishers -> {"idle", "ranging", "writing", "close", "delete"}]
            /\ at' \in [Publishers -> Conns \cup {NoConn}]
        BY <2>3 DEF PublishWritten
      <3>4. dead' \in BOOLEAN
        BY <2>3 DEF PublishWritten, WritePanics
      <3>5. UNCHANGED <<link, alive, silent, pong, pinger, busy>>
        BY <3>2 DEF WriteEnds
      <3>7. UNCHANGED <<pump, clients, todo, seen, stopping>>
        BY <2>3 DEF PublishWritten
      <3>6. /\ outbox' \in [Conns -> 0 .. Cap]
            /\ writing' \in [Conns -> SUBSET Writers]
            /\ clashed' \in [Conns -> SUBSET Writers]
        BY <3>1, <3>2, WriteType
      <3> QED
        BY <3>3, <3>4, <3>5, <3>6, <3>7
    <2>4. CASE PublishCloses(p)
      BY <2>4, BecomesType DEF PublishCloses, WireOK
    <2>5. CASE PublishDeletes(p)
      BY <2>5 DEF PublishDeletes
    <2>6. CASE PublishEnds(p)
      BY <2>6 DEF PublishEnds
    <2> QED
      BY <1>3, <2>1, <2>2, <2>3, <2>4, <2>5, <2>6 DEF PublishGoesOn
  <1>4. CASE StopCalled \/ StopGoesOn
    <2>1. ASSUME NEW c \in Conns, StopCloses(c) PROVE TypeOK'
      BY <2>1, BecomesType DEF StopCloses, WireOK
    <2> QED
      BY <1>4, <2>1 DEF StopCalled, StopGoesOn, Shutdown, StopReturns
  <1>5. CASE UNCHANGED vars
    BY <1>5 DEF vars
  <1> QED
    BY <1>1, <1>2, <1>3, <1>4, <1>5 DEF Next

\* The rest of the invariant, action by action.
Rest == MapKnown /\ DeletesClosed /\ EarlyAccounted /\ EarlyLater
        /\ ServedIsRegistered /\ StopClosesRegistered /\ PongInTime

LEMMA PumpRest ==
  ASSUME IInv, NEW c \in Conns, PumpStep(c)
  PROVE  Rest'
  <1> USE DEF IInv, TypeOK, Rest, MapKnown, Known, Serving, Replying, DeletesClosed,
              EarlyAccounted, EarlyLater, ServedIsRegistered, StopClosesRegistered,
              PongInTime, wire, writers, publishing, stopping
  <1>1. CASE Upgrade(c)
    <2>0. /\ pump'[c] \in {"upgraded", "ended"}
          /\ \A d \in Conns \ {c} : pump'[d] = pump[d] /\ link'[d] = link[d]
          /\ link'[c] \in {"open", "closed"}
          /\ UNCHANGED <<clients, publishing, stopping>>
      BY <1>1 DEF Upgrade, Becomes
    <2>1. MapKnown' /\ DeletesClosed' /\ EarlyLater'
      BY <1>1, <2>0 DEF Upgrade
    <2>2. EarlyAccounted' /\ StopClosesRegistered'
      BY <1>1 DEF Upgrade, Becomes
    <2>3. ServedIsRegistered'
      BY <1>1 DEF Upgrade, Becomes
    <2>4. PongInTime'
      BY <1>1 DEF Upgrade, Becomes
    <2> QED
      BY <2>1, <2>2, <2>3, <2>4
  <1>2. CASE Serve(c)
    BY <1>2 DEF Serve
  <1>3. CASE HandlerReturns(c)
    <2>1. MapKnown' /\ DeletesClosed' /\ EarlyLater'
      BY <1>3 DEF HandlerReturns, StartReply, StartWrite
    <2>2. EarlyAccounted' /\ StopClosesRegistered'
      BY <1>3 DEF HandlerReturns, StartReply, StartWrite
    <2>3. ServedIsRegistered'
      BY <1>3 DEF HandlerReturns, StartReply, StartWrite
    <2>4. PongInTime'
      BY <1>3 DEF HandlerReturns, StartReply, StartWrite
    <2> QED
      BY <2>1, <2>2, <2>3, <2>4
  <1>4. CASE ReplyWritten(c)
    BY <1>4 DEF ReplyWritten, WriteEnds, AfterReply
  <1>5. CASE ReadPong(c)
    BY <1>5 DEF ReadPong, PongHandler
  <1>6. CASE ReadFails(c)
    BY <1>6 DEF ReadFails
  <1>7. CASE Unregister(c)
    BY <1>7 DEF Unregister
  <1>8. CASE CloseConn(c)
    BY <1>8 DEF CloseConn, Becomes
  <1> QED
    BY <1>1, <1>2, <1>3, <1>4, <1>5, <1>6, <1>7, <1>8 DEF PumpStep

LEMMA ConnRest ==
  ASSUME IInv, NEW c \in Conns, ConnStep(c)
  PROVE  Rest'
  <1> USE WsServerAssumption
      DEF IInv, TypeOK, Rest, MapKnown, Known, Serving, Replying, DeletesClosed,
              EarlyAccounted, EarlyLater, ServedIsRegistered, StopClosesRegistered,
              PongInTime, wire, writers, publishing, stopping
  <1>1. CASE Accept(c)
    <2>1. MapKnown' /\ DeletesClosed' /\ EarlyLater'
      BY <1>1 DEF Accept, Becomes
    <2>2. EarlyAccounted' /\ StopClosesRegistered'
      BY <1>1 DEF Accept, Becomes
    <2>3. ServedIsRegistered'
      BY <1>1 DEF Accept, Becomes
    <2>4. PongInTime'
      BY <1>1 DEF Accept, Becomes
    <2> QED
      BY <2>1, <2>2, <2>3, <2>4
  <1>2. CASE ReadMessage(c)
    BY <1>2 DEF ReadMessage, StartReply, StartWrite
  <1>3. CASE Tick(c)
    BY <1>3 DEF Tick, PingFails, HasRoom
  <1>4. CASE ClientReads(c)
    BY <1>4 DEF ClientReads
  <1>5. CASE ClientVanishes(c)
    BY <1>5 DEF ClientVanishes
  <1>6. CASE ConnLost(c)
    BY <1>6 DEF ConnLost, Becomes
  <1> QED
    BY PumpRest, <1>1, <1>2, <1>3, <1>4, <1>5, <1>6 DEF ConnStep

LEMMA PublishRest ==
  ASSUME IInv, NEW p \in Publishers, PublishStarts(p) \/ PublishGoesOn(p)
  PROVE  Rest'
  <1> USE WsServerAssumption
      DEF IInv, TypeOK, Rest, MapKnown, Known, Serving, Replying, DeletesClosed,
              EarlyAccounted, EarlyLater, ServedIsRegistered, StopClosesRegistered,
              PongInTime, wire, writers, publishing, stopping
  <1>1. CASE PublishStarts(p)
    BY <1>1 DEF PublishStarts
  <1>2. ASSUME NEW c \in Conns, PublishVisits(p, c) PROVE Rest'
    BY <1>2 DEF PublishVisits
  <1>3. CASE PublishWritten(p)
    BY <1>3 DEF PublishWritten, WriteEnds
  <1>4. CASE PublishCloses(p)
    BY <1>4 DEF PublishCloses, Becomes
  <1>5. CASE PublishDeletes(p)
    BY <1>5 DEF PublishDeletes
  <1>6. CASE PublishEnds(p)
    BY <1>6 DEF PublishEnds
  <1> QED
    BY <1>1, <1>2, <1>3, <1>4, <1>5, <1>6 DEF PublishGoesOn

LEMMA StopRest ==
  ASSUME IInv, StopCalled \/ StopGoesOn
  PROVE  Rest'
  <1> USE DEF IInv, TypeOK, Rest, MapKnown, Known, Serving, Replying, DeletesClosed,
              EarlyAccounted, EarlyLater, ServedIsRegistered, StopClosesRegistered,
              PongInTime, wire, writers, publishing, stopping
  <1>1. CASE StopCalled
    BY <1>1 DEF StopCalled
  <1>2. ASSUME NEW c \in Conns, StopCloses(c) PROVE Rest'
    BY <1>2 DEF StopCloses, Becomes
  <1>3. CASE Shutdown
    BY <1>3 DEF Shutdown, RangeOver
  <1>4. CASE StopReturns
    BY <1>4 DEF StopReturns
  <1> QED
    BY <1>1, <1>2, <1>3, <1>4 DEF StopGoesOn

LEMMA InvStep == IInv /\ [Next]_vars => IInv'
  <1> SUFFICES ASSUME IInv, [Next]_vars PROVE IInv'
    OBVIOUS
  <1>1. TypeOK'
    BY TypeStep DEF IInv
  <1>2. CASE UNCHANGED vars
    BY <1>2 DEF vars, wire, writers, publishing, stopping, IInv, Rest, TypeOK, MapKnown,
                DeletesClosed, EarlyAccounted, EarlyLater, ServedIsRegistered,
                StopClosesRegistered, PongInTime
  <1>3. CASE Next
    <2>1. Rest'
      BY <1>3, ConnRest, PublishRest, StopRest DEF Next
    <2> QED
      BY <1>1, <2>1 DEF IInv, Rest
  <1> QED
    BY <1>2, <1>3

LEMMA Invariance == Spec => []IInv
  BY InitInv, InvStep, PTL DEF Spec

\* Every variable of the WebSocket server keeps its type (ws.go, Transport and
\* handleWS).
THEOREM WsServerTypeCorrect == Spec => []TypeOK
  BY Invariance, PTL DEF IInv

\* A connection that is served is in the map or closed, whatever Publish, Stop
\* and the pumps do to the map (lines 156-165, 187-196, 219-220).
THEOREM ServedAreRegistered == Spec => []ServedIsRegistered
  BY Invariance, PTL DEF IInv

\* Stop returns with every connection closed, or about to be, that was in the
\* map when it was called (lines 154-167).
THEOREM StopClosesThem == Spec => []StopClosesRegistered
  BY Invariance, PTL DEF IInv

\* The read deadline passes only on a connection whose pump was busy, whose
\* client was silent or whose pings were over (lines 225-242).
THEOREM LiveOnesStay == Spec => []LiveConnectionsStay
  <1>1. IInv => LiveConnectionsStay
    BY WsServerAssumption
       DEF IInv, PongInTime, LiveConnectionsStay, DeadlinePassed, TypeOK
  <1> QED
    BY <1>1, Invariance, PTL
=============================================================================
