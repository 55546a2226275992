------------------------- MODULE StdioClientProofs --------------------------
(***************************************************************************)
(* Theorems about StdioClient, for any numbers of callers and read loops,  *)
(* any capacity of the pipes and any server.                               *)
(***************************************************************************)
EXTENDS StdioClient, FiniteSetTheorems, TLAPS

-----------------------------------------------------------------------------
(* Pipes.                                                                  *)

LEMMA PutType ==
    ASSUME NEW Msg, NEW p \in Pipes(Msg), NEW m \in Msg
    PROVE  Put(p, m) \in Pipes(Msg)
  BY DEF Put, Pipes

LEMMA TakeType ==
    ASSUME NEW Msg, NEW p \in Pipes(Msg), p.queue # <<>>, NEW others \in BOOLEAN
    PROVE  Take(p, others) \in Pipes(Msg) /\ Head(p.queue) \in Msg
  BY DEF Take, Pipes

LEMMA AwaitType ==
    ASSUME NEW Msg, NEW p \in Pipes(Msg)
    PROVE  AwaitData(p) \in Pipes(Msg) /\ Shut(p) \in Pipes(Msg)
  BY DEF AwaitData, Shut, Pipes

LEMMA TakeFirstType ==
    ASSUME NEW Msg, NEW p \in Pipes(Msg), NEW n \in 0 .. Len(p.queue), NEW others \in BOOLEAN
    PROVE  /\ TakeFirst(p, n, others) \in Pipes(Msg)
           /\ Len(TakeFirst(p, n, others).queue) = Len(p.queue) - n
           /\ \A i \in 1 .. Len(p.queue) - n : TakeFirst(p, n, others).queue[i] = p.queue[i + n]
<1> DEFINE q == p.queue
           rest == SubSeq(q, n + 1, Len(q))
<1>1. q \in Seq(Msg) /\ p.closed \in BOOLEAN
  BY DEF Pipes
<1>2. /\ rest \in Seq(Msg)
      /\ Len(rest) = Len(q) - n
      /\ \A i \in 1 .. Len(q) - n : rest[i] = q[i + n]
  BY <1>1
<1>3. TakeFirst(p, n, others) = [queue |-> rest, reading |-> others, closed |-> p.closed]
  BY DEF TakeFirst
<1> HIDE DEF rest, q
<1>4. TakeFirst(p, n, others) \in Pipes(Msg) /\ TakeFirst(p, n, others).queue = rest
  BY <1>1, <1>2, <1>3 DEF Pipes
<1> QED BY <1>2, <1>4 DEF q

-----------------------------------------------------------------------------
(* A caller has a request id exactly while it makes a request.             *)

CallInv ==
    \A c \in Callers :
        /\ pc[c] \in {"idle", "next", "save"} => myId[c] = 0
        /\ pc[c] = "next" => job[c] \in Listings
        /\ pc[c] \in {"waiting", "cleanup"} => myId[c] # 0
        /\ pc[c] \in {"write", "writing"} => (IsRequest(c) <=> myId[c] # 0)
        /\ pc[c] # "cleanup" => got[c] = NoOne

\* An id in flight was given out, and its channel is open.
IdInv ==
    \A c \in Callers : InFlight(c) =>
        /\ myId[c] <= nextID
        /\ chan[myId[c]] \in {"open", "full"}

\* A channel holds only a response with its own id.
SentInv == \A id \in Ids : chan[id] = "full" => sent[id].id = id

TypeInv == TypeOK /\ CallInv

LEMMA InitTyped == Init => TypeInv
<1> SUFFICES ASSUME Init PROVE TypeInv
  OBVIOUS
<1> USE StdioClientAssumption
<1>1. EmptyPipe \in Pipes(FromClient) /\ EmptyPipe \in Pipes(FromServer)
  BY DEF EmptyPipe, Pipes
<1>2. CallInv
  BY DEF Init, CallInv
<1>3. /\ nextID \in Nat \ {0} /\ pending \in SUBSET Ids /\ mu \in Callers \cup {NoOne}
  BY DEF Init
<1>8. negotiated \in BOOLEAN /\ panicked \in BOOLEAN
  BY Zenon DEF Init
<1>9. cached \in Asks \cup {NoOne}
  BY DEF Init
<1>7. /\ chan \in [Ids -> {"none", "open", "full", "closed"}]
      /\ sent \in [Ids -> Response \cup {NoOne}]
  BY DEF Init
<1>4. /\ pc \in [Callers -> {"idle", "next", "write", "writing", "waiting", "cleanup", "save"}]
      /\ job \in [Callers -> Jobs]
      /\ ask \in [Callers -> Asks]
      /\ myId \in [Callers -> Ids \cup {0}]
      /\ myLoop \in [Callers -> Loops \cup {NoOne}]
      /\ expired \in [Callers -> BOOLEAN]
      /\ got \in [Callers -> Response \cup {NoOne}]
  BY DEF Init, Jobs, Requests, Asks
<1>5. /\ loop \in [Loops -> {"off", "top", "scan", "handler", "lookup", "deliver", "delete",
                            "ended"}]
      /\ line \in [Loops -> Response \cup {NoOne}]
      /\ loopCtxDone \in [Loops -> BOOLEAN]
  BY DEF Init
<1>10. /\ buffer \in [Loops -> Seq(FromServer)]
       /\ begun \in Loops \cup {NoOne}
       /\ spoiled \in [Loops -> BOOLEAN]
  BY DEF Init
<1>6. toServer \in Pipes(FromClient) /\ toClient \in Pipes(FromServer)
  BY <1>1 DEF Init
<1> QED BY <1>2, <1>3, <1>4, <1>5, <1>6, <1>7, <1>8, <1>9, <1>10 DEF TypeInv, TypeOK

LEMMA OutgoingType ==
    ASSUME TypeInv, NEW c \in Callers, pc[c] = "writing"
    PROVE  Outgoing(c) \in FromClient
<1>1. CASE IsRequest(c)
  BY <1>1 DEF TypeInv, TypeOK, CallInv, Outgoing, IsRequest, FromClient, Request
<1>2. CASE ~IsRequest(c)
  BY <1>2 DEF TypeInv, TypeOK, Outgoing, IsRequest, FromClient, Notification, Jobs
<1> QED BY <1>1, <1>2

LEMMA HeadIsResponse ==
    ASSUME NEW m \in FromServer, HasID(m)
    PROVE  m \in Response
  BY DEF FromServer, Other, Response, HasID

LEMMA RegisterType ==
    ASSUME TypeInv, NEW c \in Callers, NEW q \in Asks, Register(c, q)
    PROVE  /\ nextID' \in Nat \ {0}
           /\ pending' \in SUBSET Ids
           /\ chan' \in [Ids -> {"none", "open", "full", "closed"}]
           /\ sent' \in [Ids -> Response \cup {NoOne}]
           /\ pc' \in [Callers -> {"idle", "next", "write", "writing", "waiting", "cleanup",
                                   "save"}]
           /\ ask' \in [Callers -> Asks]
           /\ myId' \in [Callers -> Ids \cup {0}]
  BY StdioClientAssumption DEF TypeInv, TypeOK, Register, AtomicAdd, Ids

LEMMA ForgetType ==
    ASSUME TypeOK, NEW c \in Callers, ForgetCall(c)
    PROVE  /\ job' \in [Callers -> Jobs]
           /\ ask' \in [Callers -> Asks]
           /\ myLoop' \in [Callers -> Loops \cup {NoOne}]
           /\ expired' \in [Callers -> BOOLEAN]
<1>1. ask' \in [Callers -> Asks]
  BY DEF TypeOK, ForgetCall, Asks
<1>2. job' \in [Callers -> Jobs]
  BY DEF TypeOK, ForgetCall, Jobs, Requests
<1>3. /\ myLoop' \in [Callers -> Loops \cup {NoOne}]
      /\ expired' \in [Callers -> BOOLEAN]
  BY DEF TypeOK, ForgetCall
<1> QED BY <1>1, <1>2, <1>3

\* Whatever a racing read of c.listToolsMethod returns, it is a request.
LEMMA AskedType ==
    ASSUME TypeOK, NEW c \in Callers
    PROVE  Asked(c) \subseteq Asks
<1>1. Sees(c) \subseteq Asks \cup {NoOne}
  BY DEF Sees, Saving, Clearing, TypeOK
<1>2. {ListNew, ListOld, Unknown} \subseteq Asks
  BY DEF Asks
<1> QED BY <1>1, <1>2 DEF Asked

LEMMA WholeLinesType ==
    ASSUME TypeOK, NEW l \in Loops, NEW n \in 0 .. Len(toClient.queue)
    PROVE  /\ WholeLines(l, n) \in Seq(FromServer)
           /\ Len(WholeLines(l, n)) = n
           /\ \A i \in 1 .. n : WholeLines(l, n)[i] =
                 IF i = 1 /\ Garbled(l) THEN Garbage ELSE toClient.queue[i]
<1>1. toClient.queue \in Seq(FromServer)
  BY DEF TypeOK, Pipes
<1>2. Garbage \in FromServer
  BY DEF Garbage, FromServer, Other
<1>3. \A i \in 1 .. n : (IF i = 1 /\ Garbled(l) THEN Garbage ELSE toClient.queue[i]) \in FromServer
  BY <1>1, <1>2
<1> QED BY <1>1, <1>3 DEF WholeLines

\* One step per action of the client, then those of the server.
LEMMA StepTyped ==
    ASSUME TypeInv, [Next \/ ServerStep]_vars
    PROVE  TypeInv'
<1> USE StdioClientAssumption DEF table, callers, scanners, loops, pipes, TypeInv
<1>1. ASSUME NEW c \in Callers, NEW q \in Questions, SendRequest(c, q) PROVE TypeInv'
  <2>1. TypeOK'
    BY <1>1, RegisterType DEF SendRequest, TypeOK, Jobs, Requests, Asks
  <2>2. CallInv'
    BY <1>1 DEF SendRequest, Register, AtomicAdd, TypeOK, CallInv, IsRequest, Requests
  <2> QED BY <2>1, <2>2
<1>2. ASSUME NEW c \in Callers, NEW n \in Notices, SendNotification(c, n) PROVE TypeInv'
  <2>1. TypeOK'
    BY <1>2 DEF SendNotification, TypeOK, Jobs
  <2>2. CallInv'
    BY <1>2 DEF SendNotification, TypeOK, CallInv, IsRequest, Requests, Listings
  <2> QED BY <2>1, <2>2
<1>3. ASSUME NEW c \in Callers, NEW l \in Loops, Initialize(c, l) PROVE TypeInv'
  <2>1. TypeOK'
    BY <1>3, RegisterType DEF Initialize, TypeOK, Jobs, Requests, Asks
  <2>2. CallInv'
    BY <1>3 DEF Initialize, Register, AtomicAdd, TypeOK, CallInv, IsRequest, Requests
  <2> QED BY <2>1, <2>2
<1>4. ASSUME NEW c \in Callers, NEW l \in Loops, InitializeUnset(c, l) PROVE TypeInv'
  BY <1>4 DEF InitializeUnset, TypeOK, CallInv, IsRequest
<1>5. ASSUME NEW c \in Callers, LockForWrite(c) PROVE TypeInv'
  BY <1>5 DEF LockForWrite, TypeOK, CallInv, IsRequest
<1>6. ASSUME NEW c \in Callers, Write(c) PROVE TypeInv'
  <2>1. toServer' \in Pipes(FromClient)
    BY <1>6, OutgoingType, PutType DEF Write, TypeOK
  <2>2. TypeOK'
    <3>1. CASE IsRequest(c)
      <4>1. /\ pc' = [pc EXCEPT ![c] = "waiting"] /\ mu' = NoOne
            /\ UNCHANGED <<table, job, ask, myId, myLoop, expired, got, negotiated, cached, loops,
                           panicked, toClient>>
        BY <1>6, <3>1 DEF Write
      <4> QED BY <2>1, <4>1 DEF TypeOK
    <3>2. CASE ~IsRequest(c)
      <4>1. /\ pc' = [pc EXCEPT ![c] = "idle"] /\ mu' = NoOne /\ ForgetCall(c)
            /\ UNCHANGED <<table, myId, got, negotiated, cached, loops, panicked, toClient>>
        BY <1>6, <3>2 DEF Write
      <4>2. /\ job' \in [Callers -> Jobs]
            /\ ask' \in [Callers -> Asks]
            /\ myLoop' \in [Callers -> Loops \cup {NoOne}]
            /\ expired' \in [Callers -> BOOLEAN]
        BY <4>1, ForgetType
      <4> QED BY <2>1, <4>1, <4>2 DEF TypeOK
    <3> QED BY <3>1, <3>2
  <2>3. CallInv'
    BY <1>6 DEF Write, ForgetCall, TypeOK, CallInv, IsRequest
  <2> QED BY <2>2, <2>3
<1>7. ASSUME NEW c \in Callers, WriteFails(c) PROVE TypeInv'
  <2>1. TypeOK'
    <3>1. CASE IsRequest(c)
      <4>1. /\ pc' = [pc EXCEPT ![c] = "cleanup"] /\ mu' = NoOne
            /\ UNCHANGED <<table, job, ask, myId, myLoop, expired, got, negotiated, cached, loops,
                           panicked, pipes>>
        BY <1>7, <3>1 DEF WriteFails
      <4> QED BY <4>1 DEF TypeOK
    <3>2. CASE ~IsRequest(c)
      <4>1. /\ pc' = [pc EXCEPT ![c] = "idle"] /\ mu' = NoOne /\ ForgetCall(c)
            /\ UNCHANGED <<table, myId, got, negotiated, cached, loops, panicked, pipes>>
        BY <1>7, <3>2 DEF WriteFails
      <4>2. /\ job' \in [Callers -> Jobs]
            /\ ask' \in [Callers -> Asks]
            /\ myLoop' \in [Callers -> Loops \cup {NoOne}]
            /\ expired' \in [Callers -> BOOLEAN]
        BY <4>1, ForgetType
      <4> QED BY <4>1, <4>2 DEF TypeOK
    <3> QED BY <3>1, <3>2
  <2>2. CallInv'
    BY <1>7 DEF WriteFails, ForgetCall, TypeOK, CallInv, IsRequest
  <2> QED BY <2>1, <2>2
<1>8. ASSUME NEW c \in Callers, ReceiveResponse(c) PROVE TypeInv'
  <2>1. OwnRequest(c) \in Ids
    BY <1>8 DEF ReceiveResponse, OwnRequest, TypeOK, CallInv
  <2>2. TypeOK'
    BY <1>8, <2>1 DEF ReceiveResponse, TypeOK
  <2>3. CallInv'
    BY <1>8 DEF ReceiveResponse, TypeOK, CallInv, IsRequest
  <2> QED BY <2>2, <2>3
<1>9. ASSUME NEW c \in Callers, GiveUp(c) PROVE TypeInv'
  BY <1>9 DEF GiveUp, TypeOK, CallInv, IsRequest
<1>10. ASSUME NEW c \in Callers, Cleanup(c) PROVE TypeInv'
  <2>1. /\ pending' \in SUBSET Ids
        /\ chan' \in [Ids -> {"none", "open", "full", "closed"}]
        /\ sent' \in [Ids -> Response \cup {NoOne}]
        /\ myId' \in [Callers -> Ids \cup {0}]
        /\ got' \in [Callers -> Response \cup {NoOne}]
    BY <1>10 DEF Cleanup, RemoveEntry, TypeOK
  <2>2. PICK where \in {"idle", "next", "write", "save"} :
            /\ pc' = [pc EXCEPT ![c] = where]
            /\ where = "next" => FallsBack(c) /\ job' = [job EXCEPT ![c] = Fallback[job[c]]]
            /\ where = "write" => job' = [job EXCEPT ![c] = "initialized"]
    BY <1>10 DEF Cleanup, GoesOn
  <2>3. FallsBack(c) => Fallback[job[c]] \in Listings
    BY DEF FallsBack, Fallback, Listings
  <2>4. /\ job' \in [Callers -> Jobs]
        /\ ask' \in [Callers -> Asks]
        /\ myLoop' \in [Callers -> Loops \cup {NoOne}]
        /\ expired' \in [Callers -> BOOLEAN]
    <3>1. CASE ForgetCall(c)
      BY <3>1, ForgetType
    <3>2. CASE GoesOn(c, "write", "initialized")
      BY <3>2 DEF GoesOn, TypeOK, Jobs
    <3>3. CASE GoesOn(c, "save", job[c])
      BY <3>3 DEF GoesOn, TypeOK
    <3>4. CASE FallsBack(c) /\ GoesOn(c, "next", Fallback[job[c]])
      <4>1. Fallback[job[c]] \in Jobs
        BY <2>3, <3>4 DEF Jobs, Requests
      <4> QED BY <3>4, <4>1 DEF GoesOn, TypeOK
    <3> QED BY <1>10, <3>1, <3>2, <3>3, <3>4 DEF Cleanup
  <2>5. negotiated' \in BOOLEAN
    BY <1>10 DEF Cleanup, TypeOK
  <2>6. TypeOK'
    BY <1>10, <2>1, <2>2, <2>4, <2>5 DEF Cleanup, TypeOK
  <2>7. CallInv'
    BY <1>10, <2>2, <2>3 DEF Cleanup, GoesOn, ForgetCall, TypeOK, CallInv, IsRequest, Requests, Listings
  <2> QED BY <2>6, <2>7
<1>11. ASSUME NEW c \in Callers, ContextEnds(c) PROVE TypeInv'
  BY <1>11 DEF ContextEnds, TypeOK, CallInv, IsRequest
<1>12. ASSUME NEW l \in Loops, LoopContextEnds(l) PROVE TypeInv'
  BY <1>12 DEF LoopContextEnds, TypeOK, CallInv, IsRequest
<1>13. ASSUME NEW l \in Loops, LoopTop(l) PROVE TypeInv'
  <2>1. toClient' \in Pipes(FromServer)
    BY <1>13, AwaitType DEF LoopTop, TypeOK
  <2>2. PICK next \in {"ended", "scan"} : loop' = [loop EXCEPT ![l] = next]
    BY <1>13 DEF LoopTop
  <2>3. UNCHANGED <<table, mu, callers, line, loopCtxDone, scanners, panicked, toServer>>
    BY <1>13 DEF LoopTop
  <2> QED BY <2>1, <2>2, <2>3 DEF TypeOK, CallInv, IsRequest
<1>14. ASSUME NEW l \in Loops, Scan(l) \/ Skim(l) PROVE TypeInv'
  <2>1. /\ NextLine(l)
        /\ buffer' \in [Loops -> Seq(FromServer)] /\ Head(buffer[l]) \in FromServer
    <3>1. NextLine(l)
      BY <1>14 DEF Scan, Skim
    <3> QED BY <3>1 DEF NextLine, TypeOK
  <2>2. line' \in [Loops -> Response \cup {NoOne}]
    <3>1. CASE Scan(l)
      <4>1. Head(buffer[l]) \in Response
        BY <2>1, <3>1, HeadIsResponse DEF Scan
      <4> QED BY <3>1, <4>1 DEF Scan, TypeOK
    <3>2. CASE Skim(l)
      BY <3>2 DEF Skim, TypeOK
    <3> QED BY <1>14, <3>1, <3>2
  <2>3. loop' \in [Loops -> {"off", "top", "scan", "handler", "lookup", "deliver", "delete",
                             "ended"}]
    <3>1. PICK next \in {"lookup", "handler", "top"} : loop' = [loop EXCEPT ![l] = next]
      BY <1>14 DEF Scan, Skim
    <3> QED BY <3>1 DEF TypeOK
  <2> QED BY <2>1, <2>2, <2>3 DEF NextLine, TypeOK, CallInv, IsRequest
<1>31. ASSUME NEW l \in Loops, Fill(l) PROVE TypeInv'
  <2>1. PICK n \in 0 .. Len(toClient.queue), tears \in BOOLEAN :
            /\ buffer' = [buffer EXCEPT ![l] = WholeLines(l, n)]
            /\ toClient' = TakeFirst(toClient, n, n = 0 \/ OthersBlocked(l))
            /\ begun' = IF tears THEN l ELSE NoOne
            /\ spoiled' = [Spoils(l) EXCEPT ![l] = n = 0 /\ Garbled(l)]
    BY <1>31 DEF Fill
  <2>2. buffer' \in [Loops -> Seq(FromServer)]
    BY <2>1, WholeLinesType DEF TypeOK
  <2>3. toClient' \in Pipes(FromServer)
    <3>1. (n = 0 \/ OthersBlocked(l)) \in BOOLEAN
      BY DEF OthersBlocked
    <3> QED BY <2>1, <3>1, TakeFirstType DEF TypeOK
  <2>4. begun' \in Loops \cup {NoOne}
    BY <2>1
  <2>5. spoiled' \in [Loops -> BOOLEAN]
    BY <2>1 DEF Spoils, Garbled, TypeOK
  <2>6. UNCHANGED <<table, mu, callers, loop, line, loopCtxDone, panicked, toServer>>
    BY <1>31 DEF Fill
  <2> QED BY <2>2, <2>3, <2>4, <2>5, <2>6 DEF TypeOK, CallInv, IsRequest
<1>32. ASSUME NEW c \in Callers, MarshalFails(c) PROVE TypeInv'
  BY <1>32 DEF MarshalFails, TypeOK, CallInv, IsRequest, Requests
<1>24. ASSUME NEW l \in Loops, HandlerReturns(l) PROVE TypeInv'
  BY <1>24 DEF HandlerReturns, ContinueOnError, TypeOK, CallInv, IsRequest
<1>25. ASSUME NEW l \in Loops, ScanTooLong(l) PROVE TypeInv'
  <2>1. toClient' \in Pipes(FromServer)
    <3>1. PICK rest \in {"overlong", "other"} :
            toClient' = [queue |-> <<[kind |-> rest]>> \o Tail(toClient.queue),
                         reading |-> OthersBlocked(l), closed |-> toClient.closed]
      BY <1>25 DEF ScanTooLong
    <3>2. [kind |-> rest] \in FromServer
      BY DEF FromServer, Other
    <3>3. <<[kind |-> rest]>> \o Tail(toClient.queue) \in Seq(FromServer)
      BY <1>25, <3>2 DEF ScanTooLong, TypeOK, Pipes
    <3>4. OthersBlocked(l) \in BOOLEAN
      BY DEF OthersBlocked
    <3> QED BY <3>1, <3>3, <3>4 DEF TypeOK, Pipes
  <2>2. begun' \in Loops \cup {NoOne} /\ spoiled' \in [Loops -> BOOLEAN]
    BY <1>25 DEF ScanTooLong, Spoils, TypeOK
  <2>3. /\ loop' = [loop EXCEPT ![l] = "ended"]
        /\ UNCHANGED <<table, mu, callers, line, loopCtxDone, buffer, panicked, toServer>>
    BY <1>25 DEF ScanTooLong
  <2> QED BY <2>1, <2>2, <2>3 DEF TypeOK, CallInv, IsRequest
<1>26. ASSUME NEW c \in Callers, ListTools(c) PROVE TypeInv'
  <2>1. PICK as \in {"listNew", "listCached"} : job' = [job EXCEPT ![c] = as]
    BY <1>26 DEF ListTools
  <2> QED
    BY <1>26, <2>1 DEF ListTools, TypeOK, CallInv, IsRequest, Jobs, Requests, Listings
<1>27. ASSUME NEW c \in Callers, ListAsks(c) PROVE TypeInv'
  <2>1. PICK q \in Asks : Register(c, q)
    BY <1>27, AskedType DEF ListAsks
  <2>2. TypeOK'
    BY <1>27, <2>1, RegisterType DEF ListAsks, TypeOK
  <2>3. CallInv'
    BY <1>27, <2>1 DEF ListAsks, Register, AtomicAdd, TypeOK, CallInv, IsRequest, Requests
  <2> QED BY <2>2, <2>3
<1>28. ASSUME NEW c \in Callers, ListCrashes(c) PROVE TypeInv'
  BY <1>28 DEF ListCrashes, TypeOK, CallInv, IsRequest
<1>29. ASSUME NEW c \in Callers, ListSaves(c) PROVE TypeInv'
  <2>1. TypeOK'
    BY <1>29, ForgetType DEF ListSaves, TypeOK
  <2>2. CallInv'
    BY <1>29 DEF ListSaves, ForgetCall, TypeOK, CallInv, IsRequest
  <2> QED BY <2>1, <2>2
<1>30. ASSUME ServerWaits PROVE TypeInv'
  <2>1. toServer' \in Pipes(FromClient)
    BY <1>30, AwaitType DEF ServerWaits, TypeOK
  <2> QED BY <1>30, <2>1 DEF ServerWaits, TypeOK, CallInv, IsRequest
<1>15. ASSUME NEW l \in Loops, ScanEOF(l) PROVE TypeInv'
  BY <1>15 DEF ScanEOF, TypeOK, CallInv, IsRequest
<1>16. ASSUME NEW l \in Loops, Lookup(l) PROVE TypeInv'
  <2>1. PICK next \in {"deliver", "top"} : loop' = [loop EXCEPT ![l] = next]
    BY <1>16 DEF Lookup, ContinueOnUnknown
  <2>2. line' = line \/ line' = [line EXCEPT ![l] = NoOne]
    BY <1>16 DEF Lookup
  <2>3. UNCHANGED <<table, mu, callers, loopCtxDone, scanners, panicked, pipes>>
    BY <1>16 DEF Lookup
  <2> QED BY <2>1, <2>2, <2>3 DEF TypeOK, CallInv, IsRequest
<1>17. ASSUME NEW l \in Loops, Deliver(l) PROVE TypeInv'
  BY <1>17 DEF Deliver, TypeOK, CallInv, IsRequest
<1>18. ASSUME NEW l \in Loops, DeliverTimeout(l) \/ DeliverPanics(l) PROVE TypeInv'
  <2>1. CASE DeliverTimeout(l)
    BY <2>1 DEF DeliverTimeout, TypeOK, CallInv, IsRequest
  <2>2. CASE DeliverPanics(l)
    BY <2>2 DEF DeliverPanics, TypeOK, CallInv, IsRequest
  <2> QED BY <1>18, <2>1, <2>2
<1>19. ASSUME NEW l \in Loops, Delete(l) PROVE TypeInv'
  BY <1>19 DEF Delete, DropEntry, TypeOK, CallInv, IsRequest
<1>20. ASSUME NEW goesOn \in BOOLEAN, ServerReads(goesOn) PROVE TypeInv'
  <2>1. toServer' \in Pipes(FromClient)
    BY <1>20, TakeType DEF ServerReads, TypeOK
  <2> QED BY <1>20, <2>1 DEF ServerReads, TypeOK, CallInv, IsRequest
<1>21. ASSUME NEW m \in FromServer, ServerSends(m) PROVE TypeInv'
  <2>1. toClient' \in Pipes(FromServer)
    BY <1>21, PutType DEF ServerSends, TypeOK
  <2> QED BY <1>21, <2>1 DEF ServerSends, TypeOK, CallInv, IsRequest
<1>22. ASSUME ServerExits PROVE TypeInv'
  <2>1. toServer' \in Pipes(FromClient) /\ toClient' \in Pipes(FromServer)
    BY <1>22, AwaitType DEF ServerExits, TypeOK
  <2> QED BY <1>22, <2>1 DEF ServerExits, TypeOK, CallInv, IsRequest
<1>23. CASE UNCHANGED vars
  BY <1>23 DEF vars, TypeOK, CallInv, IsRequest
<1> QED
  BY <1>1, <1>2, <1>3, <1>4, <1>5, <1>6, <1>7, <1>8, <1>9, <1>10, <1>11, <1>12, <1>13,
     <1>14, <1>15, <1>16, <1>17, <1>18, <1>19, <1>20, <1>21, <1>22, <1>23, <1>24, <1>25,
     <1>26, <1>27, <1>28, <1>29, <1>30, <1>31, <1>32
     DEF Next, CallerStep, LoopStep, ServerStep

\* Every variable of the client keeps its type, whatever the server does
\* (client stdio.go).
THEOREM ClientTypeCorrect == OpenSpec => []TypeOK
<1>1. TypeInv /\ [Next \/ ServerStep]_vars => TypeInv'
  BY StepTyped
<1> QED BY InitTyped, <1>1, PTL DEF OpenSpec, TypeInv

-----------------------------------------------------------------------------
(****************************************************************************)
(* Requests and responses.  A fresh id differs from every id in flight      *)
(* because those were given out (IdInv); a response that a caller takes has *)
(* its caller's id because a channel holds only its own (SentInv).          *)
(****************************************************************************)
TableInv == IdInv /\ IdsDistinct /\ PendingOpen /\ SentInv /\ OwnResponse

LEMMA InitTable == Init => TableInv
  BY DEF Init, TableInv, IdInv, IdsDistinct, PendingOpen, SentInv, OwnResponse, InFlight

LEMMA TableFrame ==
    ASSUME TypeInv, TableInv, UNCHANGED <<nextID, pending, chan, sent, myId, got>>
    PROVE  TableInv'
<1>1. IdInv' /\ IdsDistinct'
  BY DEF TableInv, IdInv, IdsDistinct, InFlight
<1>2. PendingOpen' /\ SentInv' /\ OwnResponse'
  BY DEF TableInv, PendingOpen, SentInv, OwnResponse
<1> QED BY <1>1, <1>2 DEF TableInv

LEMMA RegisterTable ==
    ASSUME TypeInv, TableInv, NEW c \in Callers, NEW q \in Asks,
           pc[c] \in {"idle", "next"}, Register(c, q), got' = got
    PROVE  TableInv'
<1> USE DEF TypeInv, TypeOK, TableInv, Register, AtomicAdd
<1>1. /\ nextID + 1 \in Ids /\ nextID' = nextID + 1
      /\ myId[c] = 0 /\ got[c] = NoOne
      /\ \A d \in Callers : myId[d] # nextID + 1
  <2>1. nextID + 1 \in Ids /\ nextID' = nextID + 1
    BY StdioClientAssumption DEF Ids
  <2>2. myId[c] = 0 /\ got[c] = NoOne
    BY DEF CallInv
  <2>3. \A d \in Callers : myId[d] = 0 \/ myId[d] <= nextID
    BY DEF IdInv, InFlight
  <2>4. \A d \in Callers : myId[d] # nextID + 1
    BY <2>3
  <2> QED BY <2>1, <2>2, <2>4
<1>2. IdInv'
  BY <1>1 DEF IdInv, InFlight, Ids
<1>3. IdsDistinct'
  BY <1>1 DEF IdsDistinct, InFlight
<1>4. PendingOpen'
  <2> SUFFICES ASSUME NEW id \in pending'
               PROVE  /\ chan'[id] \in {"open", "full"}
                      /\ \E d \in Callers : myId'[d] = id
    BY DEF PendingOpen
  <2>1. CASE id = nextID + 1
    BY <1>1, <2>1
  <2>2. CASE id # nextID + 1
    <3>1. id \in pending
      BY <2>2
    <3>2. PICK d \in Callers : myId[d] = id
      BY <3>1 DEF PendingOpen
    <3>3. d # c
      BY <1>1, <3>1, <3>2 DEF Ids
    <3> QED BY <2>2, <3>1, <3>2, <3>3 DEF PendingOpen
  <2> QED BY <2>1, <2>2
<1>5. SentInv'
  BY <1>1 DEF SentInv
<1>6. OwnResponse'
  BY <1>1 DEF OwnResponse
<1> QED BY <1>2, <1>3, <1>4, <1>5, <1>6

LEMMA ReceiveTable ==
    ASSUME TypeInv, TableInv, NEW c \in Callers, ReceiveResponse(c)
    PROVE  TableInv'
<1> USE DEF TypeInv, TypeOK, TableInv, ReceiveResponse, OwnRequest
<1>1. myId[c] \in Ids /\ myId' = myId /\ nextID' = nextID /\ pending' = pending
  BY DEF CallInv
<1>2. IdInv' /\ IdsDistinct'
  BY <1>1 DEF IdInv, IdsDistinct, InFlight
<1>3. PendingOpen'
  BY <1>1 DEF PendingOpen
<1>4. SentInv'
  BY <1>1 DEF SentInv
<1>5. OwnResponse'
  BY <1>1 DEF OwnResponse, SentInv
<1> QED BY <1>2, <1>3, <1>4, <1>5

LEMMA CleanupTable ==
    ASSUME TypeInv, TableInv, NEW c \in Callers, Cleanup(c)
    PROVE  TableInv'
<1> USE DEF TypeInv, TypeOK, TableInv, Cleanup, RemoveEntry
<1>1. myId[c] \in Ids /\ nextID' = nextID
  BY DEF CallInv
<1>2. \A d \in Callers \ {c} : myId'[d] = myId[d] /\ myId[d] # myId[c]
  <2>1. InFlight(c)
    BY <1>1 DEF InFlight, Ids
  <2>2. \A d \in Callers \ {c} : myId[d] # myId[c]
    BY <2>1 DEF IdsDistinct
  <2>3. \A d \in Callers \ {c} : myId'[d] = myId[d]
    OBVIOUS
  <2> QED BY <2>2, <2>3
<1>3. IdInv'
  BY <1>1, <1>2 DEF IdInv, InFlight
<1>4. IdsDistinct'
  BY <1>1, <1>2 DEF IdsDistinct, InFlight
<1>5. PendingOpen'
  BY <1>1, <1>2 DEF PendingOpen
<1>6. SentInv'
  BY <1>1 DEF SentInv
<1>7. OwnResponse'
  BY <1>1, <1>2 DEF OwnResponse
<1> QED BY <1>3, <1>4, <1>5, <1>6, <1>7

LEMMA DeliverTable ==
    ASSUME TypeInv, TableInv, NEW l \in Loops, Deliver(l)
    PROVE  TableInv'
<1> USE DEF TypeInv, TypeOK, TableInv, Deliver, callers
<1>1. IdInv' /\ IdsDistinct' /\ OwnResponse'
  BY DEF IdInv, IdsDistinct, OwnResponse, InFlight
<1>2. PendingOpen'
  BY DEF PendingOpen
<1>3. SentInv'
  BY DEF SentInv
<1> QED BY <1>1, <1>2, <1>3

LEMMA DeleteTable ==
    ASSUME TypeInv, TableInv, NEW l \in Loops, Delete(l)
    PROVE  TableInv'
  BY DEF TypeInv, TypeOK, TableInv, Delete, DropEntry, callers, IdInv, IdsDistinct, PendingOpen,
     SentInv, OwnResponse, InFlight

LEMMA StepTable ==
    ASSUME TypeInv, TableInv, [Next \/ ServerStep]_vars
    PROVE  TableInv'
<1> USE DEF table, callers, loops, pipes
<1>1. ASSUME NEW c \in Callers, CallerStep(c) PROVE TableInv'
  <2>1. ASSUME NEW q \in Questions, SendRequest(c, q) PROVE TableInv'
    BY <2>1, RegisterTable DEF SendRequest, Asks
  <2>2. ASSUME NEW l \in Loops, Initialize(c, l) PROVE TableInv'
    BY <2>2, RegisterTable DEF Initialize, Asks
  <2>3. ASSUME \/ \E n \in Notices : SendNotification(c, n)
               \/ \E l \in Loops : InitializeUnset(c, l)
               \/ MarshalFails(c) \/ LockForWrite(c) \/ Write(c) \/ WriteFails(c) \/ GiveUp(c)
               \/ ListTools(c) \/ ListCrashes(c) \/ ListSaves(c) \/ ContextEnds(c)
        PROVE TableInv'
    BY <2>3, TableFrame DEF SendNotification, InitializeUnset, MarshalFails, LockForWrite, Write,
       WriteFails, GiveUp, ListTools, ListCrashes, ListSaves, ContextEnds
  <2>4. ASSUME ListAsks(c) PROVE TableInv'
    BY <2>4, RegisterTable, AskedType DEF ListAsks, TypeInv
  <2> QED BY <1>1, <2>1, <2>2, <2>3, <2>4, ReceiveTable, CleanupTable DEF CallerStep
<1>2. ASSUME NEW l \in Loops, LoopStep(l) PROVE TableInv'
  <2>1. ASSUME \/ LoopContextEnds(l) \/ LoopTop(l) \/ Fill(l) \/ Scan(l) \/ Skim(l)
               \/ HandlerReturns(l) \/ ScanTooLong(l) \/ ScanEOF(l)
               \/ Lookup(l) \/ DeliverTimeout(l) \/ DeliverPanics(l)
        PROVE TableInv'
    BY <2>1, TableFrame DEF LoopContextEnds, LoopTop, Fill, Scan, Skim, NextLine,
       HandlerReturns, ScanTooLong, ScanEOF, Lookup,
       DeliverTimeout, DeliverPanics
  <2> QED BY <1>2, <2>1, DeliverTable, DeleteTable DEF LoopStep
<1>3. ASSUME ServerStep PROVE TableInv'
  BY <1>3, TableFrame DEF ServerStep, ServerWaits, ServerReads, ServerSends, ServerExits
<1>4. CASE UNCHANGED vars
  BY <1>4, TableFrame DEF vars
<1> QED BY <1>1, <1>2, <1>3, <1>4 DEF Next

\* The inductive invariant of the request table.
THEOREM TableInvariant == OpenSpec => [](TypeInv /\ TableInv)
<1>1. Init => TypeInv /\ TableInv
  BY InitTyped, InitTable
<1>2. TypeInv /\ TableInv /\ [Next \/ ServerStep]_vars => (TypeInv /\ TableInv)'
  BY StepTyped, StepTable
<1> QED BY <1>1, <1>2, PTL DEF OpenSpec

\* The map holds only ids of calls in flight, and their channels are open
\* (client stdio.go:366-377, 159-186), for any number of read loops.
THEOREM MapIsSound == OpenSpec => []PendingOpen
<1>1. TypeInv /\ TableInv => PendingOpen
  BY DEF TableInv
<1> QED BY <1>1, TableInvariant, PTL

\* No two calls in flight have the same id (client stdio.go:363).
THEOREM IdsAreDistinct == OpenSpec => []IdsDistinct
<1>1. TypeInv /\ TableInv => IdsDistinct
  BY DEF TableInv
<1> QED BY <1>1, TableInvariant, PTL

\* A call receives only the response to its own request, whatever the server
\* sends and however many read loops share the pipe (client stdio.go:99-189,
\* 362-416).
THEOREM ResponsesAreOwn == OpenSpec => []OwnResponse
<1>1. TypeInv /\ TableInv => OwnResponse
  BY DEF TableInv
<1> QED BY <1>1, TableInvariant, PTL

-----------------------------------------------------------------------------
(****************************************************************************)
(* One read loop.  A channel in the map is full only until the loop that    *)
(* filled it deletes the entry; so a single loop never looks up a full one. *)
(****************************************************************************)
Alone == \A l, m \in Loops : loop[l] # "off" /\ loop[m] # "off" => l = m

HeldIds == \A l \in Loops : loop[l] \in {"deliver", "delete"} => line[l].id \in Ids
HasRoom == \A l \in Loops : loop[l] = "deliver" => chan[line[l].id] # "full"
FullIsDeleted ==
    \A id \in pending : chan[id] = "full" =>
        \E l \in Loops : loop[l] = "delete" /\ line[l].id = id

RoomInv == HeldIds /\ (Alone => HasRoom /\ FullIsDeleted)

LEMMA InitRoom == Init => RoomInv
  BY DEF Init, RoomInv, HeldIds, HasRoom, FullIsDeleted

LEMMA RoomFrame ==
    ASSUME TypeInv, RoomInv, UNCHANGED <<loop, line>>,
           \A id \in pending' : chan'[id] = "full" => id \in pending /\ chan[id] = "full",
           \A id \in Ids : chan'[id] = "full" => chan[id] = "full"
    PROVE  RoomInv'
  BY DEF RoomInv, HeldIds, HasRoom, FullIsDeleted, Alone

LEMMA CallerRoom ==
    ASSUME TypeInv, RoomInv, NEW c \in Callers, CallerStep(c)
    PROVE  RoomInv'
<1> USE DEF TypeInv, TypeOK
<1>1. ASSUME NEW q \in Asks, Register(c, q)
      PROVE  /\ \A id \in pending' : chan'[id] = "full" => id \in pending /\ chan[id] = "full"
             /\ \A id \in Ids : chan'[id] = "full" => chan[id] = "full"
  <2>1. nextID + 1 \in Ids
    BY <1>1, StdioClientAssumption DEF Register, Ids
  <2> QED BY <1>1, <2>1 DEF Register
<1>2. ASSUME NEW q \in Questions, SendRequest(c, q) PROVE RoomInv'
  BY <1>1, <1>2, RoomFrame DEF SendRequest, loops, Asks
<1>3. ASSUME NEW l \in Loops, Initialize(c, l) PROVE RoomInv'
  <2>1. Register(c, InitQuestion) /\ loop[l] = "off" /\ loop' = [loop EXCEPT ![l] = "top"] /\ line' = line
    BY <1>3 DEF Initialize
  <2>2. /\ \A id \in pending' : chan'[id] = "full" => id \in pending /\ chan[id] = "full"
        /\ \A id \in Ids : chan'[id] = "full" => chan[id] = "full"
    BY <1>1, <2>1 DEF Asks
  <2> QED BY <2>1, <2>2 DEF RoomInv, HeldIds, HasRoom, FullIsDeleted, Alone
<1>4. ASSUME NEW l \in Loops, InitializeUnset(c, l) PROVE RoomInv'
  BY <1>4 DEF InitializeUnset, RoomInv, HeldIds, HasRoom, FullIsDeleted, Alone, table
<1>5. CASE ReceiveResponse(c)
  <2>1. chan' = [chan EXCEPT ![myId[c]] = "open"] /\ UNCHANGED <<pending, loop, line>>
    BY <1>5 DEF ReceiveResponse, OwnRequest, loops
  <2> QED BY <2>1, RoomFrame
<1>6. CASE Cleanup(c)
  <2>1. /\ chan' = [chan EXCEPT ![myId[c]] = "closed"]
        /\ pending' = pending \ {myId[c]} /\ UNCHANGED <<loop, line>>
    BY <1>6 DEF Cleanup, RemoveEntry, loops
  <2> QED BY <2>1, RoomFrame
<1>7. ASSUME \/ \E n \in Notices : SendNotification(c, n)
             \/ MarshalFails(c) \/ LockForWrite(c) \/ Write(c) \/ WriteFails(c) \/ GiveUp(c)
             \/ ListTools(c) \/ ListCrashes(c) \/ ListSaves(c) \/ ContextEnds(c)
      PROVE  RoomInv'
  <2>1. UNCHANGED <<pending, chan, loop, line>>
    BY <1>7 DEF SendNotification, MarshalFails, LockForWrite, Write, WriteFails, GiveUp, ListTools,
       ListCrashes, ListSaves, ContextEnds, table, loops
  <2> QED BY <2>1, RoomFrame
<1>8. CASE ListAsks(c)
  BY <1>1, <1>8, AskedType, RoomFrame DEF ListAsks, loops
<1> QED BY <1>2, <1>3, <1>4, <1>5, <1>6, <1>7, <1>8 DEF CallerStep

LEMMA LoopRoom ==
    ASSUME TypeInv, RoomInv, NEW l \in Loops, LoopStep(l)
    PROVE  RoomInv'
<1>12. /\ DOMAIN loop = Loops /\ DOMAIN line = Loops
       /\ DOMAIN chan = Ids /\ pending \subseteq Ids
  BY DEF TypeInv, TypeOK
<1> USE <1>12 DEF table, RoomInv, HeldIds, HasRoom, FullIsDeleted, Alone
<1>1. CASE LoopContextEnds(l)
  BY <1>1 DEF LoopContextEnds
<1>2. CASE LoopTop(l)
  BY <1>2 DEF LoopTop
<1>9. CASE ScanTooLong(l) \/ ScanEOF(l)
  BY <1>9 DEF ScanTooLong, ScanEOF, Blocked
<1>13. CASE HandlerReturns(l)
  BY <1>13 DEF HandlerReturns, ContinueOnError
<1>11. CASE Fill(l)
  BY <1>11 DEF Fill
<1>3. CASE Scan(l)
  BY <1>3 DEF Scan, NextLine
<1>10. CASE Skim(l)
  BY <1>10 DEF Skim, NextLine
<1>4. CASE Lookup(l)
  BY <1>4 DEF Lookup, ContinueOnUnknown
<1>5. CASE Deliver(l)
  BY <1>5 DEF Deliver
<1>6. CASE DeliverTimeout(l)
  BY <1>6 DEF DeliverTimeout
<1>7. CASE DeliverPanics(l)
  BY <1>7 DEF DeliverPanics, loops
<1>8. CASE Delete(l)
  BY <1>8 DEF Delete, DropEntry
<1> QED
  BY <1>1, <1>2, <1>3, <1>4, <1>5, <1>6, <1>7, <1>8, <1>9, <1>10, <1>11, <1>13 DEF LoopStep

LEMMA StepRoom == TypeInv /\ RoomInv /\ [Next \/ ServerStep]_vars => RoomInv'
<1> SUFFICES ASSUME TypeInv, RoomInv, [Next \/ ServerStep]_vars PROVE RoomInv'
  OBVIOUS
<1>1. ASSUME ServerStep \/ UNCHANGED vars PROVE RoomInv'
  <2>1. UNCHANGED <<pending, chan, loop, line>>
    BY <1>1 DEF ServerStep, ServerWaits, ServerReads, ServerSends, ServerExits, vars, table,
       loops
  <2> QED BY <2>1, RoomFrame
<1> QED BY <1>1, CallerRoom, LoopRoom DEF Next

\* A single readLoop always finds room in the channel it sends to: no response
\* is dropped after 100 ms (client stdio.go:175-187).
THEOREM RoomForResponses == OpenSpec => []OneReaderNeverBlocks
<1>1. TypeInv /\ RoomInv => OneReaderNeverBlocks
  <2> SUFFICES ASSUME TypeInv, RoomInv, Cardinality({l \in Loops : loop[l] # "off"}) = 1
               PROVE  HasRoom
    BY DEF OneReaderNeverBlocks, HasRoom
  <2> DEFINE Active == {l \in Loops : loop[l] # "off"}
  <2>1. Alone
    <3>1. IsFiniteSet(Active)
      BY StdioClientAssumption, FS_Subset
    <3>2. PICK x : Active = {x}
      BY <3>1, FS_Singleton
    <3> QED BY <3>2 DEF Alone
  <2> QED BY <2>1 DEF RoomInv
<1>2. Init => TypeInv /\ RoomInv
  BY InitTyped, InitRoom
<1>3. TypeInv /\ RoomInv /\ [Next \/ ServerStep]_vars => (TypeInv /\ RoomInv)'
  BY StepTyped, StepRoom
<1> QED BY <1>1, <1>2, <1>3, PTL DEF OpenSpec

-----------------------------------------------------------------------------
(****************************************************************************)
(* What readers lose.  A response that is looked up finds its call, for the *)
(* entry of a call that waits leaves the map only after a response to it    *)
(* has been put into its channel; so a response gets lost before the lookup *)
(* or not at all.                                                           *)
(****************************************************************************)
Unsettled(c) == pc[c] \in {"write", "writing", "waiting"} /\ InFlight(c)

LookedUp ==
    \A l \in Loops : loop[l] \in {"deliver", "delete"} =>
        line[l].id \in Ids /\ line[l].id <= nextID
EntryStays ==
    \A c \in Callers : Unsettled(c) /\ chan[myId[c]] = "open" => myId[c] \in pending
DeletedIsFull ==
    \A c \in Callers, l \in Loops :
        Unsettled(c) /\ loop[l] = "delete" /\ line[l].id = myId[c] => chan[myId[c]] = "full"

KeptInv == LookedUp /\ EntryStays /\ DeletedIsFull

LEMMA InitKept == Init => KeptInv
  BY DEF Init, KeptInv, LookedUp, EntryStays, DeletedIsFull, Unsettled, InFlight

LEMMA KeptFrame ==
    ASSUME TypeInv, KeptInv, UNCHANGED <<nextID, pending, chan>>,
           \A l \in Loops : loop'[l] \in {"deliver", "delete"} =>
               loop'[l] = loop[l] /\ line'[l] = line[l],
           \A c \in Callers : Unsettled(c)' => Unsettled(c) /\ myId'[c] = myId[c]
    PROVE  KeptInv'
<1>1. LookedUp'
  BY DEF KeptInv, LookedUp
<1>2. EntryStays'
  BY DEF KeptInv, EntryStays
<1>3. DeletedIsFull'
  BY DEF KeptInv, DeletedIsFull
<1> QED BY <1>1, <1>2, <1>3 DEF KeptInv

LEMMA KeptRegister ==
    ASSUME TypeInv, TableInv, KeptInv, NEW c \in Callers, NEW q \in Asks, Register(c, q),
           \A l \in Loops : loop'[l] \in {"deliver", "delete"} =>
               loop'[l] = loop[l] /\ line'[l] = line[l]
    PROVE  KeptInv'
<1>1. /\ nextID + 1 \in Ids /\ nextID' = nextID + 1 /\ nextID \in Nat
      /\ pending' = pending \cup {nextID + 1}
      /\ chan' = [chan EXCEPT ![nextID + 1] = "open"] /\ DOMAIN chan = Ids
      /\ myId' = [myId EXCEPT ![c] = nextID + 1] /\ DOMAIN myId = Callers
      /\ pc' = [pc EXCEPT ![c] = "write"] /\ DOMAIN pc = Callers
      /\ \A d \in Callers : myId[d] \in Ids \cup {0}
  BY StdioClientAssumption DEF Register, AtomicAdd, TypeInv, TypeOK, Ids
<1>2. LookedUp'
  BY <1>1 DEF KeptInv, LookedUp, Ids
<1>3. \A d \in Callers \ {c} :
         /\ Unsettled(d)' = Unsettled(d) /\ myId'[d] = myId[d]
         /\ InFlight(d) => myId[d] # nextID + 1 /\ chan'[myId[d]] = chan[myId[d]]
  BY <1>1 DEF Unsettled, InFlight, TableInv, IdInv, Ids
<1>4. EntryStays'
  BY <1>1, <1>3 DEF KeptInv, EntryStays, Unsettled
<1>5. DeletedIsFull'
  BY <1>1, <1>3 DEF KeptInv, LookedUp, DeletedIsFull, Unsettled, Ids
<1> QED BY <1>2, <1>4, <1>5 DEF KeptInv

\* The response is taken, or the call is over: its channel is another matter.
LEMMA KeptSettles ==
    ASSUME TypeInv, TableInv, KeptInv, NEW c \in Callers, myId[c] \in Ids,
           UNCHANGED <<nextID, loop, line>>,
           \A id \in Ids \ {myId[c]} : chan'[id] = chan[id] /\ (id \in pending => id \in pending'),
           ~Unsettled(c)',
           \A d \in Callers \ {c} : Unsettled(d)' = Unsettled(d) /\ myId'[d] = myId[d]
    PROVE  KeptInv'
<1>1. \A d \in Callers \ {c} : Unsettled(d) => myId[d] \in Ids \ {myId[c]}
  BY DEF Unsettled, InFlight, TableInv, IdsDistinct, TypeInv, TypeOK, Ids
<1>2. LookedUp'
  BY DEF KeptInv, LookedUp
<1>3. EntryStays'
  BY <1>1 DEF KeptInv, EntryStays
<1>4. DeletedIsFull'
  BY <1>1 DEF KeptInv, DeletedIsFull
<1> QED BY <1>2, <1>3, <1>4 DEF KeptInv

LEMMA CallerKept ==
    ASSUME TypeInv, TableInv, KeptInv, NEW c \in Callers, CallerStep(c)
    PROVE  KeptInv'
<1> USE DEF table, loops
<1>1. DOMAIN pc = Callers /\ DOMAIN myId = Callers /\ DOMAIN loop = Loops /\ DOMAIN chan = Ids
  BY DEF TypeInv, TypeOK
<1>2. ASSUME NEW q \in Questions, SendRequest(c, q) PROVE KeptInv'
  BY <1>2, KeptRegister DEF SendRequest, Asks
<1>3. ASSUME NEW l \in Loops, Initialize(c, l) PROVE KeptInv'
  BY <1>1, <1>3, KeptRegister DEF Initialize, Asks
<1>4. CASE ListAsks(c)
  BY <1>4, AskedType, KeptRegister DEF ListAsks, TypeInv
<1>5. CASE ReceiveResponse(c)
  <2>1. myId[c] \in Ids
    BY <1>5 DEF ReceiveResponse, TypeInv, TypeOK, CallInv
  <2> QED BY <1>1, <1>5, <2>1, KeptSettles DEF ReceiveResponse, OwnRequest, Unsettled, InFlight
<1>6. CASE Cleanup(c)
  <2>1. myId[c] \in Ids
    BY <1>6 DEF Cleanup, TypeInv, TypeOK, CallInv
  <2>2. PICK where : pc' = [pc EXCEPT ![c] = where]
    BY <1>6 DEF Cleanup, GoesOn
  <2> QED
    BY <1>1, <1>6, <2>1, <2>2, KeptSettles DEF Cleanup, RemoveEntry, Unsettled, InFlight
<1>7. ASSUME NEW l \in Loops, InitializeUnset(c, l) PROVE KeptInv'
  BY <1>1, <1>7, KeptFrame DEF InitializeUnset, callers, Unsettled, InFlight
<1>8. ASSUME \/ \E n \in Notices : SendNotification(c, n)
             \/ MarshalFails(c) \/ LockForWrite(c) \/ Write(c) \/ WriteFails(c) \/ GiveUp(c)
             \/ ListTools(c) \/ ListCrashes(c) \/ ListSaves(c) \/ ContextEnds(c)
      PROVE  KeptInv'
  <2>1. UNCHANGED <<nextID, pending, chan, myId, loop, line>>
    BY <1>8 DEF SendNotification, MarshalFails, LockForWrite, Write, WriteFails, GiveUp,
       ListTools, ListCrashes, ListSaves, ContextEnds, callers
  <2>2. \A d \in Callers : Unsettled(d)' => Unsettled(d)
    <3>1. \A d \in Callers \ {c} : pc'[d] = pc[d]
      BY <1>1, <1>8 DEF SendNotification, MarshalFails, LockForWrite, Write, WriteFails, GiveUp,
         ListTools, ListCrashes, ListSaves, ContextEnds, callers
    <3>2. myId[c] # 0 /\ pc'[c] \in {"write", "writing", "waiting"}
            => pc[c] \in {"write", "writing", "waiting"}
      BY <1>1, <1>8 DEF SendNotification, MarshalFails, LockForWrite, Write, WriteFails, GiveUp,
         ListTools, ListCrashes, ListSaves, ContextEnds, callers, TypeInv, CallInv
    <3> QED BY <2>1, <3>1, <3>2 DEF Unsettled, InFlight
  <2> QED BY <2>1, <2>2, KeptFrame
<1> QED BY <1>2, <1>3, <1>4, <1>5, <1>6, <1>7, <1>8 DEF CallerStep

LEMMA LoopKept ==
    ASSUME TypeInv, TableInv, KeptInv, NEW l \in Loops, LoopStep(l)
    PROVE  KeptInv'
<1> USE DEF table
<1>1. /\ DOMAIN loop = Loops /\ DOMAIN line = Loops /\ DOMAIN chan = Ids
      /\ \A c \in Callers : myId[c] \in Ids \cup {0}
  BY DEF TypeInv, TypeOK
<1>2. UNCHANGED <<nextID, myId, pc>> /\ \A c \in Callers : Unsettled(c)' = Unsettled(c)
  BY DEF LoopStep, LoopContextEnds, LoopTop, Fill, Scan, Skim, NextLine, HandlerReturns,
     ScanTooLong, ScanEOF, Lookup, Deliver, DeliverTimeout, DeliverPanics, Delete, callers,
     Unsettled, InFlight
<1>3. ASSUME \/ LoopContextEnds(l) \/ LoopTop(l) \/ Fill(l) \/ Scan(l) \/ Skim(l)
             \/ HandlerReturns(l) \/ ScanTooLong(l) \/ ScanEOF(l) \/ DeliverPanics(l)
      PROVE  KeptInv'
  <2>1. UNCHANGED <<pending, chan>>
    BY <1>3 DEF LoopContextEnds, LoopTop, Fill, Scan, Skim, NextLine, HandlerReturns,
       ScanTooLong, ScanEOF, DeliverPanics
  <2>2. \A k \in Loops : loop'[k] \in {"deliver", "delete"} =>
            loop'[k] = loop[k] /\ line'[k] = line[k]
    BY <1>1, <1>3 DEF LoopContextEnds, LoopTop, Fill, Scan, Skim, NextLine, HandlerReturns,
       ContinueOnError, ScanTooLong, ScanEOF, DeliverPanics, loops
  <2> QED BY <1>2, <2>1, <2>2, KeptFrame
<1>4. CASE Lookup(l)
  <2>1. LookedUp'
    <3>1. line[l].id \in pending => line[l].id \in Ids /\ line[l].id <= nextID
      <4>1. pending \subseteq Ids /\ \A id \in Ids : id # 0
        BY DEF Ids, TypeInv, TypeOK
      <4> QED BY <4>1 DEF TableInv, PendingOpen, IdInv, InFlight
    <3>2. /\ loop'[l] = "deliver" => line[l].id \in pending /\ line' = line
          /\ loop'[l] # "delete"
          /\ \A k \in Loops \ {l} : loop'[k] = loop[k] /\ line'[k] = line[k]
      BY <1>1, <1>4 DEF Lookup, ContinueOnUnknown
    <3> QED BY <1>2, <3>1, <3>2 DEF KeptInv, LookedUp
  <2>2. EntryStays' /\ DeletedIsFull'
    BY <1>1, <1>2, <1>4 DEF Lookup, ContinueOnUnknown, KeptInv, EntryStays, DeletedIsFull
  <2> QED BY <2>1, <2>2 DEF KeptInv
<1>5. CASE Deliver(l)
  BY <1>1, <1>2, <1>5 DEF Deliver, KeptInv, LookedUp, EntryStays, DeletedIsFull
<1>6. CASE DeliverTimeout(l)
  BY <1>1, <1>2, <1>6 DEF DeliverTimeout, KeptInv, LookedUp, EntryStays, DeletedIsFull
<1>7. CASE Delete(l)
  BY <1>1, <1>2, <1>7 DEF Delete, DropEntry, KeptInv, LookedUp, EntryStays, DeletedIsFull
<1> QED BY <1>3, <1>4, <1>5, <1>6, <1>7 DEF LoopStep

LEMMA StepKept ==
    TypeInv /\ TableInv /\ KeptInv /\ [Next \/ ServerStep]_vars => KeptInv'
<1> SUFFICES ASSUME TypeInv, TableInv, KeptInv, [Next \/ ServerStep]_vars PROVE KeptInv'
  OBVIOUS
<1>1. ASSUME ServerStep \/ UNCHANGED vars PROVE KeptInv'
  <2>1. UNCHANGED <<nextID, pending, chan, pc, myId, loop, line>>
    BY <1>1 DEF ServerStep, ServerWaits, ServerReads, ServerSends, ServerExits, vars, table,
       callers, loops
  <2> QED BY <2>1, KeptFrame DEF Unsettled, InFlight
<1> QED BY <1>1, CallerKept, LoopKept DEF Next

-----------------------------------------------------------------------------
(* One response, and a step of a reader or of anybody else.                *)

IsResponse(m, id) == m.kind = "response" /\ m.id = id
InPipe(id) == \E i \in DOMAIN toClient.queue : IsResponse(toClient.queue[i], id)
Buffered(l, id) == \E i \in DOMAIN buffer[l] : IsResponse(buffer[l][i], id)
InHand(l, id) == loop[l] \in {"lookup", "deliver"} /\ line[l].id = id
Somewhere(id) ==
    \/ InPipe(id)
    \/ \E l \in Loops : loop[l] # "ended" /\ Buffered(l, id)
    \/ \E l \in Loops : InHand(l, id)
    \/ chan[id] = "full"

LEMMA WhereItIs ==
    ASSUME NEW id
    PROVE  /\ UnderWay(id) <=> Somewhere(id)
           /\ UnderWay(id)' <=> Somewhere(id)'
  BY DEF UnderWay, Somewhere, InPipe, Buffered, InHand, IsResponse

LEMMA WhatDooms ==
    ASSUME NEW id, NEW l \in Loops,
           \/ loopCtxDone[l] /\ Buffered(l, id)
           \/ /\ toClient.queue # <<>> /\ IsResponse(Head(toClient.queue), id)
              /\ Blocked(l) /\ Garbled(l)
    PROVE  Doomed(id)
  BY DEF Doomed, Buffered, IsResponse

\* Whoever leaves the readers alone, and adds to the pipe at its end.
LEMMA NotLostByOthers ==
    ASSUME TypeInv, NEW id \in Ids, Somewhere(id),
           UNCHANGED <<line, buffer>>, chan'[id] = chan[id],
           \A l \in Loops : loop'[l] = loop[l] \/ (loop[l] = "off" /\ loop'[l] = "top"),
           \A i \in DOMAIN toClient.queue :
               i \in DOMAIN toClient'.queue /\ toClient'.queue[i] = toClient.queue[i]
    PROVE  Somewhere(id)'
<1>1. InPipe(id) => InPipe(id)'
  BY DEF InPipe
<1>2. ASSUME NEW l \in Loops
      PROVE  /\ Buffered(l, id)' <=> Buffered(l, id)
             /\ loop[l] # "ended" => loop'[l] # "ended"
             /\ InHand(l, id) => InHand(l, id)'
  BY DEF Buffered, InHand
<1> QED BY <1>1, <1>2 DEF Somewhere

LEMMA NotLostByCallers ==
    ASSUME TypeInv, TableInv, NEW c \in Callers, pc[c] = "waiting", pc'[c] = "waiting",
           NEW id \in Ids, id = myId[c], Somewhere(id), NEW d \in Callers, CallerStep(d)
    PROVE  myId'[c] = id /\ Somewhere(id)'
<1> USE DEF table, loops, scanners, pipes
<1>1. /\ DOMAIN pc = Callers /\ DOMAIN myId = Callers /\ DOMAIN loop = Loops
      /\ DOMAIN chan = Ids /\ nextID \in Nat
      /\ id <= nextID
      /\ d # c => myId[d] # id
  <2>1. DOMAIN pc = Callers /\ DOMAIN myId = Callers /\ DOMAIN loop = Loops
        /\ DOMAIN chan = Ids /\ nextID \in Nat
    BY DEF TypeInv, TypeOK
  <2>2. InFlight(c)
    BY DEF InFlight, Ids
  <2> QED BY <2>1, <2>2 DEF TableInv, IdInv, IdsDistinct
<1>2. /\ UNCHANGED <<line, buffer, toClient>>
      /\ \A l \in Loops : loop'[l] = loop[l] \/ (loop[l] = "off" /\ loop'[l] = "top")
  BY <1>1 DEF CallerStep, SendRequest, SendNotification, Initialize, InitializeUnset,
     MarshalFails, LockForWrite, Write, WriteFails, ReceiveResponse, GiveUp, Cleanup,
     ListTools, ListAsks, ListCrashes, ListSaves, ContextEnds
<1>3. ASSUME NEW q, Register(d, q) PROVE chan'[id] = chan[id] /\ myId'[c] = id
  <2>1. /\ nextID + 1 # id
        /\ chan' = [chan EXCEPT ![nextID + 1] = "open"]
        /\ myId' = [myId EXCEPT ![d] = nextID + 1]
        /\ pc' = [pc EXCEPT ![d] = "write"]
    BY <1>1, <1>3 DEF Register, Ids
  <2>2. d # c
    BY <1>1, <2>1
  <2> QED BY <1>1, <2>1, <2>2
<1>4. CASE ReceiveResponse(d)
  <2>1. d # c
    BY <1>1, <1>4 DEF ReceiveResponse
  <2> QED BY <1>1, <1>2, <1>4, <2>1, NotLostByOthers DEF ReceiveResponse, OwnRequest
<1>5. CASE Cleanup(d)
  <2>1. d # c
    BY <1>5 DEF Cleanup
  <2>2. chan'[id] = chan[id] /\ myId'[c] = id
    BY <1>1, <1>5, <2>1 DEF Cleanup, RemoveEntry
  <2> QED BY <1>2, <2>2, NotLostByOthers
<1>6. CASE (\E q \in Questions : SendRequest(d, q)) \/ (\E l \in Loops : Initialize(d, l)) \/ ListAsks(d)
  <2>1. \E q : Register(d, q)
    BY <1>6 DEF SendRequest, Initialize, ListAsks
  <2> QED BY <1>2, <1>3, <2>1, NotLostByOthers
<1>7. ASSUME \/ \E n \in Notices : SendNotification(d, n)
             \/ \E l \in Loops : InitializeUnset(d, l)
             \/ MarshalFails(d) \/ LockForWrite(d) \/ Write(d) \/ WriteFails(d) \/ GiveUp(d)
             \/ ListTools(d) \/ ListCrashes(d) \/ ListSaves(d) \/ ContextEnds(d)
      PROVE  myId'[c] = id /\ Somewhere(id)'
  <2>1. UNCHANGED <<chan, myId>>
    BY <1>7 DEF SendNotification, InitializeUnset, MarshalFails, LockForWrite, Write,
       WriteFails, GiveUp, ListTools, ListCrashes, ListSaves, ContextEnds, callers
  <2> QED BY <1>2, <2>1, NotLostByOthers
<1> QED BY <1>4, <1>5, <1>6, <1>7 DEF CallerStep

\* A reader that takes lines from the pipe loses none that it does not garble.
LEMMA NotLostByFill ==
    ASSUME TypeInv, NEW id \in Ids, Somewhere(id), ~Doomed(id), NEW l \in Loops, Fill(l)
    PROVE  Somewhere(id)'
<1>1. PICK n \in 0 .. Len(toClient.queue) :
         /\ buffer' = [buffer EXCEPT ![l] = WholeLines(l, n)]
         /\ toClient'.queue = SubSeq(toClient.queue, n + 1, Len(toClient.queue))
  <2>1. PICK n \in 0 .. Len(toClient.queue) :
           /\ buffer' = [buffer EXCEPT ![l] = WholeLines(l, n)]
           /\ toClient' = TakeFirst(toClient, n, n = 0 \/ OthersBlocked(l))
    BY Zenon DEF Fill
  <2> QED BY <2>1 DEF TakeFirst
<1>2. /\ Blocked(l) /\ UNCHANGED <<loop, line, chan>>
  BY DEF Fill, table
<1>3. /\ toClient.queue \in Seq(FromServer)
      /\ DOMAIN buffer = Loops
  BY DEF TypeInv, TypeOK, Pipes
<1>4. CASE InPipe(id)
  <2>1. PICK i \in DOMAIN toClient.queue : IsResponse(toClient.queue[i], id)
    BY <1>4 DEF InPipe
  <2>2. i \in 1 .. Len(toClient.queue) /\ Len(toClient.queue) \in Nat
    BY <1>3, <2>1
  <2>3. CASE i <= n
    <3>1. ~(i = 1 /\ Garbled(l))
      <4> SUFFICES ASSUME i = 1, Garbled(l) PROVE FALSE
        OBVIOUS
      <4>1. toClient.queue # <<>> /\ Head(toClient.queue) = toClient.queue[1]
        BY <1>3, <2>2
      <4> QED BY <1>2, <2>1, <4>1, WhatDooms
    <3>2. i \in DOMAIN WholeLines(l, n) /\ WholeLines(l, n)[i] = toClient.queue[i]
      BY <2>2, <2>3, <3>1 DEF WholeLines
    <3>3. buffer'[l] = WholeLines(l, n) /\ loop'[l] # "ended"
      BY <1>1, <1>2, <1>3 DEF Blocked
    <3>4. Buffered(l, id)'
      BY <2>1, <3>2, <3>3 DEF Buffered
    <3> QED BY <3>3, <3>4 DEF Somewhere
  <2>4. CASE i > n
    <3>1. /\ i - n \in DOMAIN toClient'.queue
          /\ toClient'.queue[i - n] = toClient.queue[i]
      BY <1>1, <1>3, <2>2, <2>4
    <3> QED BY <2>1, <3>1 DEF Somewhere, InPipe
  <2> QED BY <2>2, <2>3, <2>4
<1>5. ASSUME NEW k \in Loops, loop[k] # "ended", Buffered(k, id) PROVE Somewhere(id)'
  <2>1. k # l
    BY <1>2, <1>5 DEF Blocked, Buffered
  <2>2. Buffered(k, id)' /\ loop'[k] # "ended"
    BY <1>1, <1>2, <1>3, <1>5, <2>1 DEF Buffered
  <2> QED BY <2>2 DEF Somewhere
<1>6. ASSUME NEW k \in Loops, InHand(k, id) PROVE Somewhere(id)'
  BY <1>2, <1>6 DEF Somewhere, InHand
<1>7. CASE chan[id] = "full"
  BY <1>2, <1>7 DEF Somewhere
<1> QED BY <1>4, <1>5, <1>6, <1>7 DEF Somewhere

\* The first line leaves the buffer: a response is in hand then.
LEMMA NotLostByScan ==
    ASSUME TypeInv, NEW id \in Ids, Somewhere(id), NEW l \in Loops, Scan(l) \/ Skim(l)
    PROVE  Somewhere(id)'
<1>1. /\ loop[l] = "scan" /\ buffer[l] # <<>> /\ buffer' = [buffer EXCEPT ![l] = Tail(@)]
      /\ UNCHANGED <<chan, toClient>>
  BY DEF Scan, Skim, NextLine, table, pipes
<1>2. DOMAIN buffer = Loops /\ DOMAIN loop = Loops /\ DOMAIN line = Loops
      /\ buffer[l] \in Seq(FromServer)
  BY DEF TypeInv, TypeOK
<1>3. /\ loop'[l] # "ended"
      /\ \A k \in Loops \ {l} : loop'[k] = loop[k] /\ line'[k] = line[k]
  BY <1>2 DEF Scan, Skim
<1>4. CASE InPipe(id)
  BY <1>1, <1>4 DEF Somewhere, InPipe
<1>5. ASSUME Buffered(l, id) PROVE Somewhere(id)'
  <2>1. PICK i \in DOMAIN buffer[l] : IsResponse(buffer[l][i], id)
    BY <1>5 DEF Buffered
  <2>2. CASE i = 1
    <3>1. Head(buffer[l]) = buffer[l][1]
      BY <1>1, <1>2
    <3>2. HasID(Head(buffer[l])) /\ Head(buffer[l]).id = id
      BY <2>1, <2>2, <3>1 DEF HasID, IsResponse
    <3>3. Scan(l)
      BY <3>2 DEF Skim
    <3>4. line'[l] = Head(buffer[l]) /\ loop'[l] = "lookup"
      BY <1>2, <3>3 DEF Scan
    <3> QED BY <3>2, <3>4 DEF Somewhere, InHand
  <2>3. CASE i # 1
    <3>1. i - 1 \in DOMAIN Tail(buffer[l]) /\ Tail(buffer[l])[i - 1] = buffer[l][i]
      BY <1>1, <1>2, <2>3
    <3>2. buffer'[l] = Tail(buffer[l])
      BY <1>1, <1>2
    <3>3. Buffered(l, id)'
      BY <2>1, <3>1, <3>2 DEF Buffered
    <3> QED BY <1>3, <3>3 DEF Somewhere
  <2> QED BY <2>2, <2>3
<1>6. ASSUME NEW k \in Loops \ {l}, loop[k] # "ended", Buffered(k, id) PROVE Somewhere(id)'
  <2>1. buffer'[k] = buffer[k] /\ loop'[k] # "ended"
    BY <1>1, <1>2, <1>3, <1>6
  <2>2. Buffered(k, id)'
    BY <1>6, <2>1 DEF Buffered
  <2> QED BY <2>1, <2>2 DEF Somewhere
<1>7. ASSUME NEW k \in Loops, InHand(k, id) PROVE Somewhere(id)'
  <2>1. k # l
    BY <1>1, <1>7 DEF InHand
  <2> QED BY <1>3, <1>7, <2>1 DEF Somewhere, InHand
<1>8. CASE chan[id] = "full"
  BY <1>1, <1>8 DEF Somewhere
<1> QED BY <1>4, <1>5, <1>6, <1>7, <1>8 DEF Somewhere

\* The loop ends, at its top or in a Scan.
LEMMA NotLostByTheEnd ==
    ASSUME TypeInv, NEW id \in Ids, Somewhere(id), ~Doomed(id), NEW l \in Loops,
           LoopTop(l) \/ ScanTooLong(l) \/ ScanEOF(l)
    PROVE  Somewhere(id)'
<1>1. /\ UNCHANGED <<chan, line, buffer>>
      /\ \A k \in Loops \ {l} : loop'[k] = loop[k]
      /\ loop[l] \notin {"lookup", "deliver"}
  BY DEF LoopTop, ScanTooLong, ScanEOF, Blocked, table, scanners, TypeInv, TypeOK
<1>2. toClient.queue \in Seq(FromServer)
  BY DEF TypeInv, TypeOK, Pipes
<1>3. CASE InPipe(id)
  <2>1. CASE ~ScanTooLong(l)
    <3>1. toClient'.queue = toClient.queue
      BY <2>1 DEF LoopTop, ScanEOF, AwaitData, pipes, TypeInv, TypeOK, Pipes
    <3> QED BY <1>3, <3>1 DEF Somewhere, InPipe
  <2>2. CASE ScanTooLong(l)
    <3>1. PICK i \in DOMAIN toClient.queue : IsResponse(toClient.queue[i], id)
      BY <1>3 DEF InPipe
    <3>2. /\ toClient.queue # <<>> /\ Head(toClient.queue).kind = "overlong"
          /\ \E rest \in {"overlong", "other"} :
                toClient'.queue = <<[kind |-> rest]>> \o Tail(toClient.queue)
      BY <2>2 DEF ScanTooLong
    <3>3. i # 1 /\ i \in 1 .. Len(toClient.queue)
      BY <1>2, <3>1, <3>2 DEF IsResponse
    <3>4. i \in DOMAIN toClient'.queue /\ toClient'.queue[i] = toClient.queue[i]
      BY <1>2, <3>2, <3>3
    <3> QED BY <3>1, <3>4 DEF Somewhere, InPipe
  <2> QED BY <2>1, <2>2
<1>4. ASSUME NEW k \in Loops, loop[k] # "ended", Buffered(k, id) PROVE Somewhere(id)'
  <2>1. loop'[k] # "ended"
    <3>1. CASE k # l
      BY <1>1, <1>4, <3>1
    <3>2. CASE k = l
      <4>1. buffer[l] # <<>>
        BY <1>4, <3>2 DEF Buffered
      <4>2. ~loopCtxDone[l]
        BY <1>4, <3>2, WhatDooms
      <4> QED BY <3>2, <4>1, <4>2 DEF LoopTop, ScanTooLong, ScanEOF, Blocked, TypeInv, TypeOK
    <3> QED BY <3>1, <3>2
  <2>2. Buffered(k, id)'
    BY <1>1, <1>4 DEF Buffered
  <2> QED BY <2>1, <2>2 DEF Somewhere
<1>5. ASSUME NEW k \in Loops, InHand(k, id) PROVE Somewhere(id)'
  BY <1>1, <1>5 DEF Somewhere, InHand
<1>6. CASE chan[id] = "full"
  BY <1>1, <1>6 DEF Somewhere
<1> QED BY <1>3, <1>4, <1>5, <1>6 DEF Somewhere

\* From the lookup on: if no entry is found, or the channel is full, it is the
\* response to that call that the channel holds.
LEMMA NotLostInHand ==
    ASSUME TypeInv, TableInv, KeptInv, NEW c \in Callers, pc[c] = "waiting",
           NEW id \in Ids, id = myId[c], Somewhere(id), NEW l \in Loops,
           \/ LoopContextEnds(l) \/ HandlerReturns(l) \/ Lookup(l) \/ Deliver(l)
           \/ DeliverTimeout(l) \/ DeliverPanics(l) \/ Delete(l)
    PROVE  Somewhere(id)'
<1> USE DEF table
<1>1. /\ UNCHANGED <<buffer, toClient>>
      /\ \A k \in Loops \ {l} : loop'[k] = loop[k] /\ line'[k] = line[k]
      /\ loop[l] # "ended" => loop'[l] # "ended"
      /\ chan[id] = "full" => chan'[id] = "full"
  <2>1. DOMAIN chan = Ids /\ DOMAIN loop = Loops /\ DOMAIN line = Loops
    BY DEF TypeInv, TypeOK
  <2>2. UNCHANGED <<buffer, toClient>>
    BY DEF LoopContextEnds, HandlerReturns, Lookup, Deliver, DeliverTimeout, DeliverPanics,
       Delete, loops, scanners, pipes
  <2>3. \A k \in Loops \ {l} : loop'[k] = loop[k] /\ line'[k] = line[k]
    BY <2>1 DEF LoopContextEnds, HandlerReturns, Lookup, Deliver, DeliverTimeout,
       DeliverPanics, Delete, loops
  <2>4. loop[l] # "ended" => loop'[l] # "ended"
    BY <2>1 DEF LoopContextEnds, HandlerReturns, ContinueOnError, Lookup, ContinueOnUnknown,
       Deliver, DeliverTimeout, DeliverPanics, Delete, loops
  <2>5. chan[id] = "full" => chan'[id] = "full"
    BY <2>1 DEF LoopContextEnds, HandlerReturns, Lookup, Deliver, DeliverTimeout,
       DeliverPanics, Delete
  <2> QED BY <2>2, <2>3, <2>4, <2>5
<1>2. CASE InPipe(id)
  BY <1>1, <1>2 DEF Somewhere, InPipe
<1>3. ASSUME NEW k \in Loops, loop[k] # "ended", Buffered(k, id) PROVE Somewhere(id)'
  <2>1. Buffered(k, id)' /\ loop'[k] # "ended"
    BY <1>1, <1>3 DEF Buffered
  <2> QED BY <2>1 DEF Somewhere
<1>4. CASE chan[id] = "full"
  BY <1>1, <1>4 DEF Somewhere
<1>5. ASSUME InHand(l, id), chan[id] # "full" PROVE Somewhere(id)'
  <2>1. chan[id] = "open" /\ id \in pending
    <3>1. InFlight(c)
      BY DEF InFlight, Ids
    <3>2. chan[id] = "open"
      BY <1>5, <3>1 DEF TableInv, IdInv
    <3> QED BY <3>1, <3>2 DEF KeptInv, EntryStays, Unsettled
  <2>2. DOMAIN chan = Ids /\ DOMAIN loop = Loops
    BY DEF TypeInv, TypeOK
  <2>3. InHand(l, id)' \/ chan'[id] = "full"
    BY <1>5, <2>1, <2>2 DEF InHand, LoopContextEnds, HandlerReturns, Lookup, Deliver,
       DeliverTimeout, DeliverPanics, Delete, loops
  <2> QED BY <2>3 DEF Somewhere
<1>6. ASSUME NEW k \in Loops \ {l}, InHand(k, id) PROVE Somewhere(id)'
  BY <1>1, <1>6 DEF Somewhere, InHand
<1> QED BY <1>2, <1>3, <1>4, <1>5, <1>6 DEF Somewhere

\* However many readLoops there are and whatever the server sends, a response to a
\* call that waits is lost only by a reader that ends with it in its buffer, or by one
\* that completes another's line with it (client stdio.go:99-189, 191-194).
THEOREM ReadersLoseNothingElse == OpenSpec => LostOnlyByReaders
<1> DEFINE Loses(c) ==
      pc[c] = "waiting" /\ pc'[c] = "waiting" /\ UnderWay(myId[c]) /\ ~UnderWay(myId[c])'
<1>1. ASSUME TypeInv, TableInv, KeptInv, [Next \/ ServerStep]_vars, NEW c \in Callers, Loses(c)
      PROVE  Doomed(myId[c])
  <2> SUFFICES ASSUME ~Doomed(myId[c]) PROVE FALSE
    OBVIOUS
  <2>1. myId[c] \in Ids
    BY <1>1 DEF TypeInv, TypeOK, CallInv
  <2>2. PICK id \in Ids : id = myId[c]
    BY <2>1
  <2>3. Somewhere(id) /\ ~Doomed(id)
    BY <1>1, <2>2, WhereItIs
  <2>4. myId'[c] = id /\ Somewhere(id)' => FALSE
    BY <1>1, WhereItIs DEF UnderWay
  <2>5. ASSUME NEW d \in Callers, CallerStep(d) PROVE FALSE
    BY <1>1, <2>2, <2>3, <2>4, <2>5, NotLostByCallers
  <2>6. ASSUME NEW l \in Loops, LoopStep(l) PROVE FALSE
    <3>1. myId'[c] = id
      BY <2>2, <2>6 DEF LoopStep, LoopContextEnds, LoopTop, Fill, Scan, Skim, NextLine,
         HandlerReturns, ScanTooLong, ScanEOF, Lookup, Deliver, DeliverTimeout, DeliverPanics,
         Delete, callers
    <3>2. Somewhere(id)'
      BY <1>1, <2>2, <2>3, <2>6, NotLostByFill, NotLostByScan, NotLostByTheEnd, NotLostInHand
      DEF LoopStep
    <3> QED BY <2>4, <3>1, <3>2
  <2>7. ASSUME ServerStep \/ UNCHANGED vars PROVE FALSE
    <3>1. UNCHANGED <<myId, loop, line, buffer, chan>>
      BY <2>7 DEF ServerStep, ServerWaits, ServerReads, ServerSends, ServerExits, vars, table,
         callers, loops, scanners
    <3>2. toClient.queue \in Seq(FromServer)
      BY <1>1 DEF TypeInv, TypeOK, Pipes
    <3>3. \/ toClient'.queue = toClient.queue
          \/ \E m \in FromServer : toClient'.queue = Append(toClient.queue, m)
      BY <1>1, <2>7 DEF ServerStep, ServerWaits, ServerReads, ServerSends, ServerExits, vars,
         Put, Shut, TypeInv, TypeOK, Pipes
    <3>4. \A i \in DOMAIN toClient.queue :
             i \in DOMAIN toClient'.queue /\ toClient'.queue[i] = toClient.queue[i]
      BY <3>2, <3>3
    <3>5. Somewhere(id)'
      BY <1>1, <2>3, <3>1, <3>4, NotLostByOthers
    <3> QED BY <2>2, <2>4, <3>1, <3>5
  <2> QED BY <1>1, <2>5, <2>6, <2>7 DEF Next
<1>2. TypeInv /\ TableInv /\ KeptInv /\ [Next \/ ServerStep]_vars
        => \A c \in Callers : Loses(c) => Doomed(myId[c])
  BY <1>1
<1>3. TypeInv /\ TableInv /\ KeptInv /\ [Next \/ ServerStep]_vars
        => [\A c \in Callers : Loses(c) => Doomed(myId[c])]_vars
  BY <1>2
<1>4. Init => TypeInv /\ TableInv /\ KeptInv
  BY InitTyped, InitTable, InitKept
<1>5. TypeInv /\ TableInv /\ KeptInv /\ [Next \/ ServerStep]_vars
        => (TypeInv /\ TableInv /\ KeptInv)'
  BY StepTyped, StepTable, StepKept
<1> QED BY <1>3, <1>4, <1>5, PTL DEF OpenSpec, LostOnlyByReaders

=============================================================================
