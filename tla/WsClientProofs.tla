--------------------------- MODULE WsClientProofs ---------------------------
(***************************************************************************)
(* What holds of WsClient for any number of callers and connections, any   *)
(* capacity, and any break, closure or reconnection.                       *)
(***************************************************************************)
EXTENDS WsClient, SequenceTheorems, TLAPS

-----------------------------------------------------------------------------
(***************************************************************************)
(* Types.  A caller that is not idle has a request, a readLoop past its    *)
(* top has a connection, and a message when it hands one over; a dialled   *)
(* connection is in fresh.                                                 *)
(***************************************************************************)
HoldsInv ==
    /\ \A c \in Callers : pc[c] # "idle" => req[c] \in Request
    /\ \A k \in Conns : reader[k] \in {"reading", "send", "fail"} => reads[k] \in Conns
    /\ \A k \in Conns : reader[k] = "send" => message[k] \in Message
    /\ manager = "dialed" => fresh \in Conns

\* Only the caller blocked in its write holds c.mu, and c.conn stays meanwhile.
WritingInv == \A c \in Callers : pc[c] = "writing" => mu = c /\ conn \in Conns

TypeInv == TypeOK /\ HoldsInv /\ WritingInv

LEMMA InitTyped == Init => TypeInv
<1> SUFFICES ASSUME Init PROVE TypeInv
  OBVIOUS
<1>1. conn \in Conns
  BY WsClientAssumption DEF Init
<1>2. done \in BOOLEAN /\ stray \in BOOLEAN /\ expired \in [Callers -> BOOLEAN]
  BY Zenon DEF Init
<1>3. rest \in [Callers -> Seq(Lists)]
  BY DEF Init
<1> QED BY <1>1, <1>2, <1>3 DEF Init, TypeInv, TypeOK, HoldsInv, WritingInv

\* What the callers' variables keep, whatever one of them does with a request.
CallsInv ==
    /\ pc \in [Callers -> {"idle", "ready", "writing", "waiting"}]
    /\ req \in [Callers -> Request \cup {NoOne}]
    /\ rest \in [Callers -> Seq(Lists)]
    /\ expired \in [Callers -> BOOLEAN]
    /\ nextID \in Nat
    /\ cached \in Lists \cup {NoOne}
    /\ \A c \in Callers : pc[c] # "idle" => req[c] \in Request

LEMMA IssueType ==
    ASSUME CallsInv, NEW c \in Callers, NEW m \in Lists \cup {"call"},
           NEW others \in Seq(Lists), NEW n \in Nat,
           Issue(c, m, others, n), UNCHANGED <<expired, cached>>
    PROVE  CallsInv'
<1>1. [id |-> nextID + n, method |-> m] \in Request
  BY DEF CallsInv, Request
<1> QED BY <1>1 DEF CallsInv, Issue

LEMMA ReturnsType ==
    ASSUME CallsInv, NEW c \in Callers, Returns(c), cached' \in Lists \cup {NoOne}
    PROVE  CallsInv'
<1>1. expired' \in [Callers -> BOOLEAN]
  BY DEF CallsInv, Returns
<1> QED BY <1>1 DEF CallsInv, Returns

LEMMA FailsType ==
    ASSUME CallsInv, NEW c \in Callers, Fails(c)
    PROVE  CallsInv'
<1>1. CASE rest[c] # <<>>
  <2>1. Head(rest[c]) \in Lists /\ Tail(rest[c]) \in Seq(Lists)
    BY <1>1 DEF CallsInv
  <2> QED BY <1>1, <2>1, IssueType DEF Fails
<1>2. CASE rest[c] = <<>>
  BY <1>2, ReturnsType DEF Fails, CallsInv
<1> QED BY <1>1, <1>2

\* What the other variables keep.
RestInv ==
    /\ link \in [Conns -> {"none", "open", "broken", "ended", "closed"}]
    /\ unread \in [Conns -> Seq(Request)]
    /\ wire \in [Conns -> Seq(Message)]
    /\ conn \in Conns \cup {NoOne}
    /\ fresh \in Conns \cup {NoOne}
    /\ state \in {"disconnected", "connecting", "connected"}
    /\ done \in BOOLEAN
    /\ mu \in Callers \cup {NoOne}
    /\ manager \in {"select", "drop", "backoff", "dialing", "dialed", "ended"}
    /\ reader \in [Conns -> {"off", "top", "reading", "send", "fail"}]
    /\ reads \in [Conns -> Conns \cup {NoOne}]
    /\ message \in [Conns -> Message \cup {NoOne}]
    /\ stray \in BOOLEAN
    /\ \A k \in Conns : reader[k] \in {"reading", "send", "fail"} => reads[k] \in Conns
    /\ \A k \in Conns : reader[k] = "send" => message[k] \in Message
    /\ manager = "dialed" => fresh \in Conns

LEMMA Parts == TypeInv <=> CallsInv /\ RestInv /\ WritingInv
  BY Zenon DEF TypeInv, TypeOK, HoldsInv, CallsInv, RestInv

LEMMA CallerTyped ==
    ASSUME CallsInv, RestInv, WritingInv, NEW c \in Callers, CallerStep(c)
    PROVE  CallsInv' /\ RestInv'
<1> USE DEF wires, client, loops, calls
<1>a. ASSUME NEW m \in Lists \cup {"call"}, NEW others \in Seq(Lists), NEW n \in Nat,
             Issue(c, m, others, n), stray' = (stray \/ Overlaps(c)),
             UNCHANGED <<wires, client, loops, mu, expired, cached>>
      PROVE  CallsInv' /\ RestInv'
  <2>1. CallsInv'
    BY <1>a, IssueType
  <2>2. stray' \in BOOLEAN
    BY <1>a DEF Overlaps, RestInv
  <2> QED BY <1>a, <2>1, <2>2 DEF RestInv
<1>b. <<>> \in Seq(Lists) /\ \A n \in BatchSizes : n \in Nat
  BY WsClientAssumption
<1>1. CASE Call(c)
  <2>1. /\ Issue(c, "call", <<>>, 1)
        /\ stray' = (stray \/ Overlaps(c))
        /\ UNCHANGED <<wires, client, loops, mu, expired, cached>>
    BY <1>1 DEF Call
  <2> QED BY <1>a, <1>b, <2>1
<1>2. CASE SendBatchRequest(c)
  <2>1. PICK n \in BatchSizes : Issue(c, "call", <<>>, n)
    BY <1>2 DEF SendBatchRequest
  <2>2. stray' = (stray \/ Overlaps(c)) /\ UNCHANGED <<wires, client, loops, mu, expired, cached>>
    BY <1>2 DEF SendBatchRequest
  <2> QED BY <1>a, <1>b, <2>1, <2>2
<1>3. CASE ListTools(c)
  <2>1. <<"mcp/list_tools">> \in Seq(Lists) /\ <<"tools/list", "mcp/list_tools">> \in Seq(Lists)
    BY DEF Lists
  <2>2. stray' = (stray \/ Overlaps(c)) /\ UNCHANGED <<wires, client, loops, mu, expired, cached>>
    BY <1>3 DEF ListTools
  <2>3. CASE cached = NoOne
    <3>1. Issue(c, "tools/list", <<"mcp/list_tools">>, 1)
      BY <1>3, <2>3 DEF ListTools
    <3> QED BY <1>a, <2>1, <2>2, <3>1 DEF Lists
  <2>4. CASE cached # NoOne
    <3>1. Issue(c, cached, <<"tools/list", "mcp/list_tools">>, 1)
      BY <1>3, <2>4 DEF ListTools
    <3>2. cached \in Lists \cup {"call"}
      BY <2>4 DEF CallsInv
    <3> QED BY <1>a, <2>1, <2>2, <3>1, <3>2
  <2> QED BY <2>3, <2>4
<1>4. ASSUME Sent(c), conn \in Conns, pc[c] # "idle", mu' \in Callers \cup {NoOne}
      PROVE CallsInv' /\ RestInv'
  <2>1. CallsInv'
    BY <1>4 DEF Sent, CallsInv
  <2>2. conn \in Conns /\ req[c] \in Request
    BY <1>4 DEF CallsInv
  <2>3. unread' \in [Conns -> Seq(Request)]
    BY <1>4, <2>2 DEF Sent, RestInv
  <2> QED BY <1>4, <2>1, <2>3 DEF Sent, RestInv
<1>5. CASE Write(c)
  <2>1. Sent(c) /\ conn \in Conns /\ pc[c] # "idle" /\ mu' = mu
    BY <1>5 DEF Write, Connected, RestInv
  <2>2. mu \in Callers \cup {NoOne}
    BY DEF RestInv
  <2> QED BY <1>4, <2>1, <2>2
<1>6. CASE WriteBlocks(c)
  BY <1>6 DEF WriteBlocks, CallsInv, RestInv
<1>7. CASE WriteResumes(c)
  BY <1>7, <1>4 DEF WriteResumes, WritingInv
<1>8. CASE WriteFails(c)
  BY <1>8, FailsType DEF WriteFails, RestInv
<1>9. CASE ReceiveResponse(c)
  <2>1. Remember(c) => cached' \in Lists \cup {NoOne}
    BY <1>9 DEF ReceiveResponse, Remember, CallsInv, Request
  <2>2. CallsInv'
    BY <1>9, <2>1, ReturnsType, FailsType DEF ReceiveResponse
  <2>3. RestInv'
    BY <1>9 DEF ReceiveResponse, RestInv
  <2> QED BY <2>2, <2>3
<1>10. CASE ReceiveError(c)
  BY <1>10, FailsType DEF ReceiveError, RestInv, Told
<1>11. CASE GiveUp(c)
  BY <1>11, FailsType DEF GiveUp, RestInv
<1>12. CASE ContextEnds(c)
  <2>1. expired' \in [Callers -> BOOLEAN]
    BY <1>12 DEF ContextEnds, CallsInv
  <2> QED BY <1>12, <2>1 DEF ContextEnds, CallsInv, RestInv
<1> QED
  BY <1>1, <1>2, <1>3, <1>5, <1>6, <1>7, <1>8, <1>9, <1>10, <1>11, <1>12 DEF CallerStep

LEMMA OthersTyped ==
    ASSUME CallsInv, RestInv, Conns # {},
           \/ \E k \in Conns : ReaderStep(k) \/ NetworkStep(k)
           \/ ManagerStep
           \/ Close
    PROVE  CallsInv' /\ RestInv'
<1> USE DEF wires, client, loops
<1>1. UNCHANGED calls
  BY DEF ReaderStep, NetworkStep, ManagerStep, Close, ReaderTop, ReadMessage, ReadFails, ReadEnds,
     ServerAnswers, ServerPublishes, ConnectionBreaks, ServerCloses, ManagerTakesError,
     ManagerDrops, BackoffEnds, DialSucceeds, DialFails, ConnectStores, ManagerEnds
<1>2. CallsInv'
  BY <1>1 DEF calls, CallsInv
<1>3. ASSUME NEW k \in Conns, ReaderStep(k) PROVE RestInv'
  <2>1. CASE ReaderTop(k)
    BY <2>1 DEF ReaderTop, RestInv
  <2>2. CASE ReadMessage(k)
    <3>1. reads[k] \in Conns
      BY <2>2 DEF ReadMessage, RestInv
    <3>2. Head(wire[reads[k]]) \in Message /\ Tail(wire[reads[k]]) \in Seq(Message)
      BY <2>2, <3>1 DEF ReadMessage, RestInv
    <3> QED BY <2>2, <3>1, <3>2 DEF ReadMessage, RestInv
  <2>3. CASE ReadFails(k)
    BY <2>3 DEF ReadFails, RestInv
  <2>4. CASE ReadEnds(k)
    BY <2>4 DEF ReadEnds, RestInv
  <2> QED BY <1>3, <2>1, <2>2, <2>3, <2>4 DEF ReaderStep
<1>4. ASSUME NEW k \in Conns, NetworkStep(k) PROVE RestInv'
  <2>1. CASE ServerAnswers(k)
    <3>1. Head(unread[k]) \in Request /\ Tail(unread[k]) \in Seq(Request)
      BY <2>1 DEF ServerAnswers, RestInv
    <3>2. Answers(Head(unread[k])) \subseteq Message
      <4> DEFINE r == Head(unread[k])
                 oks == IF r.method = "call" THEN BOOLEAN ELSE {r.method \in Served}
      <4>1. \A b \in BOOLEAN : [id |-> r.id, ok |-> b] \in Message
        BY <3>1 DEF Request, Message
      <4>2. oks \subseteq BOOLEAN
        <5>1. (r.method \in Served) \in BOOLEAN
          OBVIOUS
        <5>2. CASE r.method = "call"
          BY <5>2, Zenon
        <5>3. CASE r.method # "call"
          BY <5>1, <5>3, Zenon
        <5> QED BY <5>2, <5>3
      <4> QED BY <4>1, <4>2, Zenon DEF Answers
    <3>3. wire' \in [Conns -> Seq(Message)]
      BY <2>1, <3>2 DEF ServerAnswers, RestInv
    <3> QED BY <2>1, <3>1, <3>3 DEF ServerAnswers, RestInv
  <2>2. CASE ServerPublishes(k)
    <3>1. [id |-> 0, ok |-> FALSE] \in Message
      BY DEF Message
    <3>2. wire' \in [Conns -> Seq(Message)]
      BY <2>2, <3>1 DEF ServerPublishes, RestInv
    <3> QED BY <2>2, <3>2 DEF ServerPublishes, RestInv
  <2>3. CASE ConnectionBreaks(k)
    BY <2>3 DEF ConnectionBreaks, RestInv
  <2>4. CASE ServerCloses(k)
    BY <2>4 DEF ServerCloses, RestInv
  <2> QED BY <1>4, <2>1, <2>2, <2>3, <2>4 DEF NetworkStep
<1>5. ASSUME ManagerStep PROVE RestInv'
  <2>1. ASSUME NEW k \in Conns, ManagerTakesError(k) PROVE RestInv'
    BY <2>1 DEF ManagerTakesError, Told, RestInv
  <2>2. CASE ManagerDrops
    BY <2>2 DEF ManagerDrops, RestInv
  <2>3. CASE BackoffEnds
    BY <2>3 DEF BackoffEnds, RestInv
  <2>4. CASE DialSucceeds
    BY <2>4 DEF DialSucceeds, RestInv
  <2>5. CASE DialFails
    BY <2>5 DEF DialFails, RestInv
  <2>6. CASE ConnectStores
    BY <2>6 DEF ConnectStores, RestInv
  <2>7. CASE ManagerEnds
    BY <2>7 DEF ManagerEnds, RestInv
  <2> QED BY <1>5, <2>1, <2>2, <2>3, <2>4, <2>5, <2>6, <2>7 DEF ManagerStep
<1>6. ASSUME Close PROVE RestInv'
  BY <1>6 DEF Close, RestInv
<1> QED BY <1>2, <1>3, <1>4, <1>5, <1>6

LEMMA WritingStep ==
    ASSUME CallsInv, RestInv, WritingInv, [Next]_vars
    PROVE  WritingInv'
<1> USE WsClientAssumption DEF wires, client, loops, WritingInv
<1>1. ASSUME NEW c \in Callers, CallerStep(c) PROVE WritingInv'
  <2> USE DEF CallsInv
  <2>1. ASSUME Returns(c) \/ Fails(c) \/ \E m, o, n : Issue(c, m, o, n)
        PROVE  pc'[c] \in {"idle", "ready"} /\ \A d \in Callers \ {c} : pc'[d] = pc[d]
    BY <2>1 DEF Fails, Returns, Issue
  <2>2. ASSUME Call(c) \/ SendBatchRequest(c) \/ ListTools(c) \/ ReceiveResponse(c)
               \/ ReceiveError(c) \/ GiveUp(c)
        PROVE  WritingInv'
    <3>1. Returns(c) \/ Fails(c) \/ \E m, o, n : Issue(c, m, o, n)
      BY <2>2 DEF Call, SendBatchRequest, ListTools, ReceiveResponse, ReceiveError, GiveUp
    <3>2. UNCHANGED <<mu, conn>>
      BY <2>2 DEF Call, SendBatchRequest, ListTools, ReceiveResponse, ReceiveError, GiveUp
    <3> QED BY <2>1, <3>1, <3>2
  <2>3. CASE WriteFails(c)
    BY <2>1, <2>3 DEF WriteFails
  <2>4. CASE Write(c) \/ WriteResumes(c)
    <3>1. pc' = [pc EXCEPT ![c] = "waiting"] /\ conn' = conn
      BY <2>4 DEF Write, WriteResumes, Sent
    <3>2. mu' = mu \/ mu = c
      BY <2>4 DEF Write, WriteResumes
    <3> QED BY <3>1, <3>2
  <2>5. CASE WriteBlocks(c)
    BY <2>5 DEF WriteBlocks, Connected, RestInv
  <2>6. CASE ContextEnds(c)
    BY <2>6 DEF ContextEnds
  <2> QED BY <1>1, <2>2, <2>3, <2>4, <2>5, <2>6 DEF CallerStep
<1>2. ASSUME UNCHANGED pc, UNCHANGED <<mu, conn>> PROVE WritingInv'
  BY <1>2
<1>3. ASSUME NEW k \in Conns, ReaderStep(k) \/ NetworkStep(k) PROVE WritingInv'
  BY <1>3, <1>2 DEF calls, ReaderStep, NetworkStep, ReaderTop, ReadMessage, ReadFails, ReadEnds,
     ServerAnswers, ServerPublishes, ConnectionBreaks, ServerCloses
<1>4. ASSUME ManagerStep \/ Close PROVE WritingInv'
  BY <1>4 DEF calls, ManagerStep, Close, ManagerTakesError, ManagerDrops, BackoffEnds,
     DialSucceeds, DialFails, ConnectStores, ManagerEnds
<1>5. CASE UNCHANGED vars
  BY <1>5, <1>2 DEF vars
<1> QED BY <1>1, <1>3, <1>4, <1>5 DEF Next

LEMMA StepTyped == TypeInv /\ [Next]_vars => TypeInv'
<1> SUFFICES ASSUME CallsInv, RestInv, WritingInv, [Next]_vars
             PROVE  CallsInv' /\ RestInv' /\ WritingInv'
  BY Parts, Zenon DEF TypeInv, TypeOK, HoldsInv, CallsInv, RestInv
<1>1. CASE UNCHANGED vars
  BY <1>1 DEF vars, CallsInv, RestInv, WritingInv
<1>2. CASE Next
  BY <1>2, CallerTyped, OthersTyped, WritingStep, WsClientAssumption DEF Next
<1> QED BY <1>1, <1>2

\* Every variable of the client keeps its type (client ws.go).
THEOREM WsTypeCorrect == Spec => []TypeOK
<1>1. TypeInv => TypeOK
  BY DEF TypeInv
<1> QED BY InitTyped, StepTyped, <1>1, PTL DEF Spec

-----------------------------------------------------------------------------
(***************************************************************************)
(* One reader.  Its invariant is inductive together with the types: the    *)
(* manager leaves its select only for an error, which the only readLoop    *)
(* has handed over, and goes back there before the next one starts.        *)
(***************************************************************************)
LEMMA InitCurrent == Init => ReaderIsCurrent
  BY DEF Init, ReaderIsCurrent

LEMMA CurrentStep == TypeInv /\ ReaderIsCurrent /\ [Next]_vars => ReaderIsCurrent'
<1> SUFFICES ASSUME TypeInv, ReaderIsCurrent, [Next]_vars PROVE ReaderIsCurrent'
  OBVIOUS
<1> USE DEF wires, client, loops, calls, ReaderIsCurrent, TypeInv, TypeOK, HoldsInv
<1>1. ASSUME NEW c \in Callers, CallerStep(c) PROVE ReaderIsCurrent'
  <2>1. ASSUME ReceiveResponse(c) \/ ReceiveError(c) PROVE ReaderIsCurrent'
    BY <2>1 DEF ReceiveResponse, ReceiveError, Told
  <2>2. ASSUME \/ Call(c) \/ SendBatchRequest(c) \/ ListTools(c) \/ Write(c)
               \/ WriteBlocks(c) \/ WriteResumes(c) \/ WriteFails(c) \/ GiveUp(c)
               \/ ContextEnds(c)
        PROVE UNCHANGED <<client, loops>>
    BY <2>2 DEF Call, SendBatchRequest, ListTools, Write, WriteBlocks, WriteResumes, WriteFails,
       GiveUp, ContextEnds, Sent
  <2> QED BY <1>1, <2>1, <2>2 DEF CallerStep
<1>2. ASSUME NEW k \in Conns, ReaderStep(k) PROVE ReaderIsCurrent'
  BY <1>2 DEF ReaderStep, ReaderTop, ReadMessage, ReadFails, ReadEnds
<1>3. ASSUME NEW k \in Conns, NetworkStep(k) PROVE ReaderIsCurrent'
  BY <1>3 DEF NetworkStep, ServerAnswers, ServerPublishes, ConnectionBreaks, ServerCloses
<1>4. ASSUME ManagerStep PROVE ReaderIsCurrent'
  <2>1. ASSUME NEW k \in Conns, ManagerTakesError(k) PROVE ReaderIsCurrent'
    BY <2>1 DEF ManagerTakesError, Told
  <2>2. ASSUME ManagerDrops \/ BackoffEnds \/ DialSucceeds \/ DialFails \/ ManagerEnds
        PROVE ReaderIsCurrent'
    BY <2>2 DEF ManagerDrops, BackoffEnds, DialSucceeds, DialFails, ManagerEnds
  <2>3. CASE ConnectStores
    BY <2>3 DEF ConnectStores
  <2> QED BY <1>4, <2>1, <2>2, <2>3 DEF ManagerStep
<1>5. CASE Close
  BY <1>5 DEF Close
<1>6. CASE UNCHANGED vars
  BY <1>6 DEF vars
<1> QED BY <1>1, <1>2, <1>3, <1>4, <1>5, <1>6 DEF Next

\* At most one readLoop, on the connection that writers use, and nobody
\* replaces it meanwhile (client ws.go:70-151).
THEOREM OneReader == Spec => []ReaderIsCurrent
  BY InitTyped, StepTyped, InitCurrent, CurrentStep, PTL DEF Spec

-----------------------------------------------------------------------------
(***************************************************************************)
(* Sequential calls.  While nothing strays, at most one caller has a call, *)
(* and on a connection that is read there is nothing, or just its request  *)
(* or the answer to it.  A connection that is not read may hold anything:  *)
(* it is never read again.  A new one starts empty.                        *)
(***************************************************************************)
Idle(k) == unread[k] = <<>> /\ wire[k] = <<>> /\ reader[k] # "send"

Due(k, c) ==
    /\ pc[c] = "waiting"
    /\ \/ unread[k] = <<req[c]>> /\ wire[k] = <<>> /\ reader[k] # "send"
       \/ /\ unread[k] = <<>> /\ reader[k] # "send"
          /\ Len(wire[k]) = 1 /\ Head(wire[k]).id = req[c].id
       \/ unread[k] = <<>> /\ wire[k] = <<>> /\ reader[k] = "send" /\ message[k].id = req[c].id

OneCall == \A c, d \in Callers : c # d => pc[c] = "idle" \/ pc[d] = "idle"
OneDue == \A k \in Conns : reader[k] # "off" => Idle(k) \/ \E c \in Callers : Due(k, c)
FreshIdle ==
    manager = "dialed" => unread[fresh] = <<>> /\ wire[fresh] = <<>> /\ reader[fresh] = "off"

SequentialInv == ~stray => OneCall /\ OneDue /\ FreshIdle
Dropped == manager \in {"backoff", "dialing", "dialed"} => conn = NoOne

WsInv == TypeInv /\ ReaderIsCurrent /\ Dropped /\ SequentialInv

LEMMA InitSequential == Init => Dropped /\ SequentialInv
<1> SUFFICES ASSUME Init PROVE Dropped /\ SequentialInv
  OBVIOUS
<1> USE DEF Init
<1>1. Dropped /\ OneCall /\ FreshIdle
  BY DEF Dropped, OneCall, FreshIdle
<1>2. OneDue
  BY DEF OneDue, Idle
<1> QED BY <1>1, <1>2 DEF SequentialInv

LEMMA DroppedStep == TypeInv /\ Dropped /\ [Next]_vars => Dropped'
<1> SUFFICES ASSUME TypeInv, Dropped, [Next]_vars PROVE Dropped'
  OBVIOUS
<1> USE DEF client, Dropped
<1>1. ASSUME NEW c \in Callers, CallerStep(c) PROVE Dropped'
  BY <1>1 DEF CallerStep, Call, SendBatchRequest, ListTools, Write, WriteBlocks, WriteResumes,
     WriteFails, Sent, ReceiveResponse, ReceiveError, GiveUp, ContextEnds
<1>2. ASSUME NEW k \in Conns, ReaderStep(k) \/ NetworkStep(k) PROVE Dropped'
  BY <1>2 DEF ReaderStep, NetworkStep, ReaderTop, ReadMessage, ReadFails, ReadEnds,
     ServerAnswers, ServerPublishes, ConnectionBreaks, ServerCloses
<1>3. ASSUME ManagerStep \/ Close PROVE Dropped'
  BY <1>3 DEF ManagerStep, Close, ManagerTakesError, ManagerDrops, BackoffEnds, DialSucceeds,
     DialFails, ConnectStores, ManagerEnds
<1>4. CASE UNCHANGED vars
  BY <1>4 DEF vars
<1> QED BY <1>1, <1>2, <1>3, <1>4 DEF Next

\* A caller that is not waiting, alone, leaves the connection empty.
LEMMA AloneIdle ==
    ASSUME OneCall, OneDue, NEW c \in Callers, pc[c] # "waiting",
           \/ pc[c] # "idle"
           \/ ~Overlaps(c)
    PROVE  /\ \A d \in Callers \ {c} : pc[d] = "idle"
           /\ \A k \in Conns : reader[k] # "off" => Idle(k)
<1>1. \A d \in Callers \ {c} : pc[d] = "idle"
  BY DEF OneCall, Overlaps
<1>2. \A k \in Conns, d \in Callers : ~Due(k, d)
  BY <1>1 DEF Due
<1> QED BY <1>1, <1>2 DEF OneDue

LEMMA CallerSequential ==
    ASSUME WsInv, ~stray', NEW c \in Callers, CallerStep(c)
    PROVE  OneCall' /\ OneDue' /\ FreshIdle'
<1>1. ~stray /\ OneCall /\ OneDue /\ FreshIdle
  <2>1. CASE Call(c) \/ SendBatchRequest(c) \/ ListTools(c)
    BY <2>1 DEF WsInv, SequentialInv, Call, SendBatchRequest, ListTools
  <2>2. CASE GiveUp(c)
    BY <2>2 DEF GiveUp
  <2>3. CASE \/ Write(c) \/ WriteBlocks(c) \/ WriteResumes(c) \/ WriteFails(c)
            \/ ReceiveResponse(c) \/ ReceiveError(c) \/ ContextEnds(c)
    <3>1. stray' = stray
      BY <2>3 DEF Write, WriteBlocks, WriteResumes, WriteFails, Sent, ReceiveResponse,
         ReceiveError, ContextEnds
    <3> QED BY <3>1 DEF WsInv, SequentialInv
  <2> QED BY <2>1, <2>2, <2>3 DEF CallerStep
<1> USE DEF WsInv, TypeInv, TypeOK, HoldsInv, WritingInv
<1>2. ASSUME \A d \in Callers \ {c} : pc[d] = "idle" /\ pc'[d] = pc[d]
      PROVE  OneCall'
  BY <1>2 DEF OneCall
<1>3. ASSUME Returns(c) \/ Fails(c) \/ \E m, o, n : Issue(c, m, o, n)
      PROVE  \A d \in Callers \ {c} : pc'[d] = pc[d]
  BY <1>3 DEF Fails, Returns, Issue
<1>4. ASSUME \A k \in Conns : reader[k] # "off" => Idle(k), UNCHANGED <<wires, client, loops>>
      PROVE  OneDue' /\ FreshIdle'
  BY <1>1, <1>4 DEF OneDue, Idle, FreshIdle, wires, client, loops
<1>5. CASE Call(c) \/ SendBatchRequest(c) \/ ListTools(c)
  <2>1. pc[c] = "idle" /\ ~Overlaps(c) /\ UNCHANGED <<wires, client, loops>>
    BY <1>5 DEF Call, SendBatchRequest, ListTools
  <2>2. \E m, o, n : Issue(c, m, o, n)
    BY <1>5 DEF Call, SendBatchRequest, ListTools
  <2> QED BY <1>1, <1>2, <1>3, <1>4, <2>1, <2>2, AloneIdle
<1>6. ASSUME Sent(c), pc[c] # "idle", pc[c] # "waiting", conn \in Conns
      PROVE  OneCall' /\ OneDue' /\ FreshIdle'
  <2>1. /\ \A d \in Callers \ {c} : pc[d] = "idle"
        /\ \A k \in Conns : reader[k] # "off" => Idle(k)
    BY <1>1, <1>6, AloneIdle
  <2>2. pc' = [pc EXCEPT ![c] = "waiting"] /\ UNCHANGED <<req, wire, client, loops>>
    BY <1>6 DEF Sent
  <2>3. OneCall'
    BY <1>2, <2>1, <2>2
  <2>4. unread' = unread \/ unread' = [unread EXCEPT ![conn] = Append(@, req[c])]
    BY <1>6 DEF Sent
  <2>5. OneDue'
    <3> SUFFICES ASSUME NEW k \in Conns, reader[k] # "off"
                 PROVE  Idle(k)' \/ Due(k, c)'
      BY <2>2 DEF OneDue, loops
    <3>1. Idle(k) /\ conn = k
      BY <2>1 DEF ReaderIsCurrent
    <3>2. CASE unread' = unread
      BY <2>2, <3>1, <3>2 DEF Idle, loops
    <3>3. CASE unread' = [unread EXCEPT ![conn] = Append(@, req[c])]
      <4>1. unread'[k] = <<req[c]>>
        BY <3>1, <3>3 DEF Idle
      <4> QED BY <2>2, <3>1, <4>1 DEF Idle, Due, loops
    <3> QED BY <2>4, <3>2, <3>3
  <2>6. FreshIdle'
    BY <1>1, <1>6, <2>2, <2>4, WsClientAssumption DEF FreshIdle, Dropped, client, loops
  <2> QED BY <2>3, <2>5, <2>6
<1>7. CASE Write(c)
  BY <1>6, <1>7 DEF Write, Connected
<1>8. CASE WriteResumes(c)
  BY <1>6, <1>8 DEF WriteResumes
<1>9. CASE WriteBlocks(c) \/ WriteFails(c)
  <2>1. pc[c] \in {"ready", "writing"} /\ UNCHANGED <<wires, client, loops>>
    BY <1>9 DEF WriteBlocks, WriteFails
  <2>2. \A d \in Callers \ {c} : pc'[d] = pc[d]
    BY <1>3, <1>9 DEF WriteBlocks, WriteFails
  <2> QED BY <1>1, <1>2, <1>4, <2>1, <2>2, AloneIdle
<1>10. CASE ReceiveResponse(c) \/ ReceiveError(c)
  <2>1. \A d \in Callers \ {c} : pc[d] = "idle" /\ pc'[d] = pc[d]
    BY <1>1, <1>3, <1>10 DEF ReceiveResponse, ReceiveError, OneCall
  <2>2. PICK k \in Conns :
           /\ reader[k] \in {"send", "fail"} /\ UNCHANGED <<wires, client>>
           /\ \/ reader[k] = "send" /\ reader' = [reader EXCEPT ![k] = "top"]
              \/ reader' = [reader EXCEPT ![k] = "off"]
    BY <1>10 DEF ReceiveResponse, ReceiveError, Told
  <2>3. \A j \in Conns : reader[j] # "off" => j = k
    BY <2>2 DEF ReaderIsCurrent
  <2>4. reader[k] = "send" => unread[k] = <<>> /\ wire[k] = <<>>
    BY <1>1, <2>2 DEF OneDue, Idle, Due
  <2>5. OneDue'
    <3> SUFFICES ASSUME NEW j \in Conns, reader'[j] # "off" PROVE Idle(j)'
      BY DEF OneDue
    <3>1. j = k /\ reader[k] = "send"
      BY <2>2, <2>3
    <3> QED BY <2>2, <2>4, <3>1 DEF Idle, wires
  <2>6. FreshIdle'
    BY <1>1, <2>2 DEF FreshIdle, wires, client
  <2> QED BY <1>2, <2>1, <2>5, <2>6
<1>11. CASE GiveUp(c)
  BY <1>11 DEF GiveUp
<1>12. CASE ContextEnds(c)
  BY <1>1, <1>12 DEF ContextEnds, OneCall, OneDue, FreshIdle, Idle, Due, wires, client, loops
<1> QED BY <1>5, <1>7, <1>8, <1>9, <1>10, <1>11, <1>12 DEF CallerStep

LEMMA TailOfOne ==
    ASSUME NEW S, NEW s \in Seq(S), Len(s) = 1
    PROVE  Tail(s) = <<>>
<1>1. s # <<>>
  BY EmptySeq
<1>2. Tail(s) \in Seq(S) /\ Len(Tail(s)) = 0
  BY <1>1, HeadTailProperties
<1> QED BY <1>2, EmptySeq

LEMMA OthersSequential ==
    ASSUME WsInv, ~stray',
           \/ \E k \in Conns : ReaderStep(k) \/ NetworkStep(k)
           \/ ManagerStep
           \/ Close
    PROVE  OneCall' /\ OneDue' /\ FreshIdle'
<1>1. UNCHANGED calls /\ (stray' = stray \/ stray')
  BY DEF ReaderStep, NetworkStep, ManagerStep, Close, ReaderTop, ReadMessage, ReadFails, ReadEnds,
     ServerAnswers, ServerPublishes, ConnectionBreaks, ServerCloses, ManagerTakesError,
     ManagerDrops, BackoffEnds, DialSucceeds, DialFails, ConnectStores, ManagerEnds
<1>2. OneCall /\ OneDue /\ FreshIdle /\ OneCall'
  BY <1>1 DEF WsInv, SequentialInv, OneCall, calls
<1> USE <1>2 DEF WsInv, TypeInv, TypeOK, HoldsInv
<1>f. ASSUME UNCHANGED <<unread, wire, reader, message>>
      PROVE  OneDue'
  BY <1>1, <1>f DEF OneDue, Idle, Due, calls
<1>3. ASSUME NEW k \in Conns, ReaderStep(k) PROVE OneDue' /\ FreshIdle'
  <2>1. CASE ReadMessage(k)
    <3>1. /\ conn = k /\ reads[k] = k /\ reader[k] = "reading" /\ wire[k] # <<>>
          /\ \A j \in Conns : reader[j] # "off" => j = k
      BY <2>1 DEF ReadMessage, ReaderIsCurrent
    <3>2. PICK c \in Callers :
             /\ pc[c] = "waiting" /\ unread[k] = <<>>
             /\ Len(wire[k]) = 1 /\ Head(wire[k]).id = req[c].id
      BY <3>1 DEF OneDue, Idle, Due
    <3>3. Tail(wire[k]) = <<>>
      <4>1. wire[k] \in Seq(Message)
        OBVIOUS
      <4> QED BY <3>2, <4>1, TailOfOne
    <3>4. Due(k, c)'
      BY <1>1, <2>1, <3>1, <3>2, <3>3 DEF ReadMessage, Due, calls
    <3>5. OneDue'
      BY <2>1, <3>1, <3>4 DEF ReadMessage, OneDue
    <3>6. FreshIdle'
      BY <2>1, <3>1 DEF ReadMessage, ReaderIsCurrent, FreshIdle, client
    <3> QED BY <3>5, <3>6
  <2>2. CASE ReaderTop(k) \/ ReadFails(k) \/ ReadEnds(k)
    <3>1. /\ UNCHANGED <<wires, client, message>> /\ reader[k] \in {"top", "reading"}
          /\ \E r \in {"off", "reading", "fail"} : reader' = [reader EXCEPT ![k] = r]
      BY <2>2 DEF ReaderTop, ReadFails, ReadEnds
    <3>2. manager \in {"select", "ended"}
      BY <3>1 DEF ReaderIsCurrent
    <3>3. OneDue'
      BY <1>1, <3>1 DEF OneDue, Idle, Due, wires, calls
    <3>4. FreshIdle'
      BY <3>1, <3>2 DEF FreshIdle, client
    <3> QED BY <3>3, <3>4
  <2> QED BY <1>3, <2>1, <2>2 DEF ReaderStep
<1>4. ASSUME NEW k \in Conns, NetworkStep(k) PROVE OneDue' /\ FreshIdle'
  <2>1. CASE ServerAnswers(k)
    <3>1. PICK m \in Answers(Head(unread[k])) : wire' = [wire EXCEPT ![k] = Append(@, m)]
      BY <2>1 DEF ServerAnswers
    <3>2. m.id = Head(unread[k]).id
      BY <3>1 DEF Answers
    <3>3. unread' = [unread EXCEPT ![k] = Tail(@)] /\ unread[k] # <<>> /\ UNCHANGED <<client, loops>>
      BY <2>1 DEF ServerAnswers
    <3>4. FreshIdle'
      BY <3>1, <3>3 DEF FreshIdle, client, loops
    <3>5. ASSUME NEW j \in Conns, reader[j] # "off"
          PROVE  Idle(j)' \/ \E c \in Callers : Due(j, c)'
      <4>1. CASE j = k
        <5>1. PICK c \in Callers :
                 /\ pc[c] = "waiting" /\ unread[k] = <<req[c]>>
                 /\ wire[k] = <<>> /\ reader[k] # "send"
          BY <3>3, <3>5, <4>1 DEF OneDue, Idle, Due
        <5>2. unread'[k] = <<>> /\ wire'[k] = <<m>> /\ m.id = req[c].id
          BY <3>1, <3>2, <3>3, <5>1
        <5>3. Due(k, c)'
          BY <1>1, <3>3, <5>1, <5>2 DEF Due, calls, loops
        <5> QED BY <4>1, <5>3
      <4>2. CASE j # k
        BY <1>1, <3>1, <3>3, <3>5, <4>2 DEF OneDue, Idle, Due, calls, loops
      <4> QED BY <4>1, <4>2
    <3>6. OneDue'
      BY <3>3, <3>5 DEF OneDue, loops
    <3> QED BY <3>4, <3>6
  <2>2. CASE ServerPublishes(k)
    BY <2>2 DEF ServerPublishes
  <2>3. CASE ConnectionBreaks(k) \/ ServerCloses(k)
    <3>1. UNCHANGED <<unread, wire, client, loops>>
      BY <2>3 DEF ConnectionBreaks, ServerCloses
    <3> QED BY <1>f, <3>1 DEF FreshIdle, client, loops
  <2> QED BY <1>4, <2>1, <2>2, <2>3 DEF NetworkStep
<1>5. ASSUME ManagerStep PROVE OneDue' /\ FreshIdle'
  <2>1. ASSUME NEW k \in Conns, ManagerTakesError(k) PROVE OneDue' /\ FreshIdle'
    BY <1>1, <2>1 DEF ManagerTakesError, Told, OneDue, Idle, Due, FreshIdle, wires, calls
  <2>2. CASE DialSucceeds
    <3>1. PICK k \in Conns :
             /\ Unused(k) /\ fresh' = k
             /\ unread' = [unread EXCEPT ![k] = <<>>] /\ wire' = [wire EXCEPT ![k] = <<>>]
      BY <2>2 DEF DialSucceeds
    <3>2. manager = "dialing" /\ UNCHANGED loops
      BY <2>2 DEF DialSucceeds
    <3>3. OneDue'
      BY <3>2 DEF OneDue, ReaderIsCurrent, loops
    <3>4. FreshIdle'
      BY <3>1, <3>2 DEF FreshIdle, Unused, loops
    <3> QED BY <3>3, <3>4
  <2>3. CASE ConnectStores
    BY <1>1, <2>3 DEF ConnectStores, OneDue, ReaderIsCurrent, Idle, FreshIdle, wires
  <2>4. CASE ManagerDrops \/ BackoffEnds \/ DialFails \/ ManagerEnds
    <3>1. UNCHANGED <<unread, wire, loops, fresh>> /\ manager' # "dialed"
      BY <2>4 DEF ManagerDrops, BackoffEnds, DialFails, ManagerEnds, wires
    <3> QED BY <1>f, <3>1 DEF FreshIdle, loops
  <2> QED BY <1>5, <2>1, <2>2, <2>3, <2>4 DEF ManagerStep
<1>6. ASSUME Close PROVE OneDue' /\ FreshIdle'
  BY <1>1, <1>6 DEF Close, OneDue, Idle, Due, FreshIdle, loops, calls
<1> QED BY <1>3, <1>4, <1>5, <1>6

LEMMA SequentialStep == WsInv /\ [Next]_vars => WsInv'
<1> SUFFICES ASSUME WsInv, [Next]_vars PROVE WsInv'
  OBVIOUS
<1>1. TypeInv' /\ ReaderIsCurrent' /\ Dropped'
  BY StepTyped, CurrentStep, DroppedStep DEF WsInv
<1>2. ASSUME ~stray' PROVE OneCall' /\ OneDue' /\ FreshIdle'
  <2>1. CASE UNCHANGED vars
    BY <1>2, <2>1 DEF vars, WsInv, SequentialInv, OneCall, OneDue, Idle, Due, FreshIdle
  <2>2. CASE Next
    BY <1>2, <2>2, CallerSequential, OthersSequential DEF Next
  <2> QED BY <2>1, <2>2
<1> QED BY <1>1, <1>2 DEF WsInv, SequentialInv

\* While no context ends, no event arrives and no two calls overlap, a response
\* goes to the call it answers, whatever breaks (client ws.go:131-151, 286).
THEOREM SequentialCalls == Spec => SequentialCallsMatch
<1>1. Init => WsInv
  BY InitTyped, InitCurrent, InitSequential DEF WsInv
<1>2. ASSUME WsInv, NEW c \in Callers, NEW k \in Conns,
             pc[c] = "waiting", reader[k] = "send", ~stray
      PROVE  message[k].id = req[c].id
  BY <1>2 DEF WsInv, SequentialInv, OneCall, OneDue, Idle, Due
<1>3. WsInv => (\A c \in Callers, k \in Conns :
                   /\ pc[c] = "waiting" /\ reader[k] = "send" /\ ~stray
                   /\ reader'[k] = "top"
                   => message[k].id = req[c].id)
  BY <1>2
<1> QED BY <1>1, <1>3, SequentialStep, PTL DEF Spec, SequentialCallsMatch
=============================================================================
