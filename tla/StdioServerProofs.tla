--------------------------- MODULE StdioServerProofs ---------------------------
(***************************************************************************)
(* The stdio server for any client, any batches and any capacity of the    *)
(* pipes: its responses belong, one by one and in order, to the requests   *)
(* of the message that it handles.                                         *)
(***************************************************************************)
EXTENDS StdioServer, SequenceTheorems, TLAPS

\* What the client has sent is a sequence of messages.
WireOK == toServer \in Pipes(Incoming)

\* readLoop handles a message only while there is something left of it.
HandleInv == srv = "handle" => todo # <<>>

IInv == TypeOK /\ WireOK /\ HandleInv /\ EachRequestAnswered

-----------------------------------------------------------------------------
LEMMA EmptyTyped == \A S : <<>> \in Seq(S)
  OBVIOUS

\* The responses to a single message are none, or the one that answers it.
LEMMA ResponsesAnswer ==
  ASSUME NEW m \in Single, NEW r \in Responses(m)
  PROVE  \/ m.kind = "initialized" /\ r = <<>>
         \/ /\ m.kind # "initialized"
            /\ \E a \in Response : r = <<a>> /\ Answers(a, m)
  <1>1. CASE m.kind = "initialized"
    BY <1>1 DEF Responses, NoResponse
  <1>2. CASE m.kind # "initialized"
    <2>1. PICK reply \in (IF m.kind = "request" THEN ReplyTo(m.ask)
                                                ELSE {"MethodNotFound"}) :
             r = <<[kind |-> "response", id |-> IdOf(m), reply |-> reply]>>
      BY <1>2 DEF Responses, NoResponse
    <2> DEFINE a == [kind |-> "response", id |-> IdOf(m), reply |-> reply]
    <2>2. reply \in Replies
      BY <2>1 DEF Replies, ReplyTo, Outcome
    <2>3. IdOf(m) \in ReqIds \cup {0}
      BY StdioServerAssumption DEF IdOf, Single
    <2>4. a \in Response
      BY <2>2, <2>3 DEF Response
    <2>5. Answers(a, m)
      BY <2>1 DEF Answers, IdOf
    <2> QED
      BY <1>2, <2>1, <2>4, <2>5
  <1> QED
    BY <1>1, <1>2

LEMMA InitInv == OpenInit => IInv
  <1> SUFFICES ASSUME OpenInit PROVE IInv
    OBVIOUS
  <1> USE DEF OpenInit, ServerInit
  <1>1. TypeOK
    BY EmptyTyped DEF TypeOK
  <1>5. HandleInv
    BY DEF HandleInv
  <1>2. WireOK
    BY DEF WireOK, Pipes, EmptyPipe
  <1>3. EachRequestAnswered
    BY DEF EachRequestAnswered
  <1> QED
    BY <1>1, <1>2, <1>3, <1>5 DEF IInv

-----------------------------------------------------------------------------
\* A message that begins has everything to be handled.
LEMMA StartKeeps ==
  ASSUME TypeOK, NEW singles \in Seq(Single) \ {<<>>}, NEW isBatch \in BOOLEAN,
         StartMessage(singles, isBatch),
         UNCHANGED stopping
  PROVE  TypeOK' /\ HandleInv' /\ EachRequestAnswered'
  <1> USE DEF StartMessage
  <1>1. TypeOK'
    BY DEF TypeOK, stopping
  <1>2. HandleInv'
    BY DEF HandleInv
  <1>3. InOrder'
    <2>1. Handled' = 0 /\ Answerable' = {}
      <3>1. Len(singles) \in Nat
        OBVIOUS
      <3>2. Handled' = Len(singles) - Len(singles)
        BY DEF Handled
      <3>3. Handled' = 0
        BY <3>1, <3>2
      <3>4. 1 .. Handled' = {}
        BY <3>3
      <3> QED
        BY <3>3, <3>4 DEF Answerable
    <2>2. Len(out') = 0
      OBVIOUS
    <2> DEFINE none == [i \in 1 .. Len(out') |-> 0]
    <2>3. 1 .. Len(out') = {}
      BY <2>2
    <2>4. none \in [1 .. Len(out') -> Answerable']
      BY <2>3
    <2> QED
      BY <2>1, <2>3, <2>4 DEF InOrder
  <1>4. EachRequestAnswered'
    <2>1. Handled' = 0
      BY DEF Handled
    <2> QED
      BY <1>3, <2>1 DEF EachRequestAnswered
  <1> QED
    BY <1>1, <1>2, <1>4

\* A message that ends leaves nothing behind.
LEMMA EndKeeps ==
  ASSUME TypeOK, EndMessage, UNCHANGED <<broken, stopping>>
  PROVE  TypeOK' /\ HandleInv' /\ EachRequestAnswered'
  <1>1. TypeOK'
    BY EmptyTyped DEF EndMessage, stopping, TypeOK
  <1> QED
    BY <1>1 DEF EndMessage, HandleInv, EachRequestAnswered

\* What handling the next single does to what is left and what is made.
LEMMA HandleKeeps ==
  ASSUME IInv, HandleRequest
  PROVE  TypeOK' /\ HandleInv' /\ EachRequestAnswered'
  <1> DEFINE m == Head(todo)
             n == Handled + 1
  <1>1. PICK r \in Responses(m) : out' = out \o r
    BY DEF HandleRequest
  <1>2. /\ srv = "handle" /\ todo # <<>> /\ todo \in Seq(Single)
        /\ message \in Seq(Single) /\ out \in Seq(Response) /\ batch \in BOOLEAN
    BY DEF IInv, TypeOK, HandleInv, HandleRequest
  <1>3. m \in Single /\ todo' = Tail(todo) /\ Tail(todo) \in Seq(Single)
        /\ Len(todo') = Len(todo) - 1
        /\ \A i \in 1 .. Len(todo') : todo'[i] = todo[i + 1]
    BY <1>2 DEF HandleRequest
  <1>4. Len(todo) \in Nat \ {0} /\ Len(message) \in Nat /\ Len(out) \in Nat
        /\ Len(todo) <= Len(message)
        /\ \A i \in 1 .. Len(todo) : todo[i] = message[Handled + i]
    BY <1>2, EmptySeq DEF IInv, EachRequestAnswered
  <1>5. Handled \in Nat /\ m = message[n]
    BY <1>2, <1>4 DEF Handled
  <1>6. \/ m.kind = "initialized" /\ r = <<>>
        \/ /\ m.kind # "initialized"
           /\ \E a \in Response : r = <<a>> /\ Answers(a, m)
    BY <1>1, <1>3, ResponsesAnswer
  <1>7. out' \in Seq(Response)
    <2>1. r \in Seq(Response)
      <3>1. CASE r = <<>>
        BY <3>1, EmptyTyped
      <3>2. ASSUME NEW a \in Response, r = <<a>> PROVE r \in Seq(Response)
        <4>1. <<a>> \in Seq(Response)
          OBVIOUS
        <4> QED
          BY <3>2, <4>1
      <3> QED
        BY <1>6, <3>1, <3>2
    <2> QED
      BY <1>1, <1>2, <2>1, ConcatProperties
  <1>8. srv' \in {"handle", "write", "top"}
        /\ message' = (IF srv' = "top" THEN <<>> ELSE message)
        /\ UNCHANGED <<batch, broken, stopping>>
    BY DEF HandleRequest
  <1>9. TypeOK'
    BY <1>2, <1>3, <1>7, <1>8 DEF IInv, TypeOK, stopping
  <1>10. HandleInv'
    BY DEF HandleInv, HandleRequest
  <1>11. ASSUME srv' # "top" PROVE InOrder'
    <2>1. message' = message
      BY <1>8, <1>11
    <2>2. Handled' = n
      BY <1>3, <1>4, <2>1 DEF Handled
    <2>3. PICK from \in [1 .. Len(out) -> Answerable] :
            /\ \A i, j \in 1 .. Len(out) : i < j => from[i] < from[j]
            /\ \A k \in Answerable : \E i \in 1 .. Len(out) : from[i] = k
            /\ \A i \in 1 .. Len(out) : Answers(out[i], message[from[i]])
      BY <1>2 DEF IInv, EachRequestAnswered, InOrder
    <2>4. CASE m.kind = "initialized" /\ r = <<>>
      <3>1. out' = out
        BY <1>1, <1>2, <2>4
      <3>2. Answerable' = Answerable
        BY <1>5, <2>1, <2>2, <2>4 DEF Answerable
      <3> QED
        BY <2>1, <2>3, <3>1, <3>2 DEF InOrder
    <2>5. ASSUME NEW a \in Response, r = <<a>>, Answers(a, m),
                 m.kind # "initialized"
          PROVE  InOrder'
      <3> DEFINE L == Len(out)
                 f == [i \in 1 .. L + 1 |-> IF i <= L THEN from[i] ELSE n]
      <3>1. Len(out') = L + 1 /\ out'[L + 1] = a
            /\ \A i \in 1 .. L : out'[i] = out[i]
        BY <1>1, <1>2, <2>5
      <3>2. Answerable' = Answerable \cup {n}
        BY <1>5, <2>1, <2>2, <2>5 DEF Answerable
      <3>3. \A k \in Answerable : k \in Nat /\ k < n
        BY <1>5 DEF Answerable
      <3>4. L \in Nat /\ 1 .. L + 1 = (1 .. L) \cup {L + 1}
        BY <1>4
      <3>5. /\ \A i \in 1 .. L : f[i] = from[i] /\ f[i] \in Answerable
            /\ f[L + 1] = n
        BY <1>4, <3>4
      <3>6. f \in [1 .. L + 1 -> Answerable']
        BY <3>2, <3>4, <3>5
      <3>7. \A i, j \in 1 .. L + 1 : i < j => f[i] < f[j]
        <4> SUFFICES ASSUME NEW i \in 1 .. L + 1, NEW j \in 1 .. L + 1, i < j
                     PROVE  f[i] < f[j]
          OBVIOUS
        <4>1. i \in 1 .. L
          BY <3>4
        <4>2. CASE j \in 1 .. L
          BY <2>3, <3>5, <4>1, <4>2
        <4>3. CASE j = L + 1
          BY <3>3, <3>5, <4>1, <4>3
        <4> QED
          BY <3>4, <4>2, <4>3
      <3>8. \A k \in Answerable' : \E i \in 1 .. L + 1 : f[i] = k
        BY <2>3, <3>2, <3>4, <3>5
      <3>9. \A i \in 1 .. L + 1 : Answers(out'[i], message'[f[i]])
        BY <1>5, <2>1, <2>3, <2>5, <3>1, <3>4, <3>5
      <3> QED
        <4> HIDE DEF f
        <4> QED
          BY <3>1, <3>6, <3>7, <3>8, <3>9 DEF InOrder
    <2> QED
      BY <1>6, <2>4, <2>5
  <1>12. EachRequestAnswered'
    <2>1. CASE srv' = "top"
      BY <1>8, <2>1 DEF EachRequestAnswered, HandleRequest
    <2>2. CASE srv' # "top"
      <3>1. message' = message
        BY <1>8, <2>2
      <3>2. Handled' = Handled + 1
        BY <1>3, <1>4, <3>1 DEF Handled
      <3>3. \A i \in 1 .. Len(todo') : todo'[i] = message'[Handled' + i]
        BY <1>3, <1>4, <1>5, <3>1, <3>2
      <3>4. Len(todo') <= Len(message')
        BY <1>3, <1>4, <3>1
      <3>5. srv' = "write" => todo' = <<>>
        BY <1>3 DEF HandleRequest
      <3> QED
        BY <1>8, <1>11, <2>2, <3>3, <3>4, <3>5 DEF EachRequestAnswered
    <2> QED
      BY <2>1, <2>2
  <1> QED
    BY <1>9, <1>10, <1>12

\* Decoding takes the first message of the pipe.
LEMMA DecodeKeeps ==
  ASSUME IInv, Decode
  PROVE  TypeOK' /\ HandleInv' /\ EachRequestAnswered'
  <1> DEFINE m == Head(toServer.queue)
  <1>1. m \in Incoming
    BY DEF IInv, WireOK, Pipes, Decode
  <1>2. TypeOK /\ UNCHANGED stopping
    BY DEF IInv, Decode
  <1>3. CASE m.kind = "batch" /\ StartMessage(m.requests, TRUE)
    <2>1. m \in BatchMsg
      BY <1>1, <1>3, StdioServerAssumption DEF Incoming, Single, Undecodable, BatchMsg
    <2>2. m.requests \in Seq(Single) \ {<<>>}
      BY <2>1, BatchesAssumption DEF BatchMsg
    <2> QED
      BY <1>2, <1>3, <2>2, StartKeeps
  <1>4. CASE m \in Single /\ StartMessage(<<m>>, FALSE)
    <2>1. <<m>> \in Seq(Single) \ {<<>>}
      BY <1>4
    <2> QED
      BY <1>2, <1>4, <2>1, StartKeeps
  <1>5. CASE m \in Undecodable /\ srv' = "writeError"
             /\ broken' = (m.kind = "syntax") /\ UNCHANGED work
    BY <1>2, <1>5 DEF TypeOK, HandleInv, EachRequestAnswered, work, stopping
  <1> QED
    BY <1>3, <1>4, <1>5 DEF Decode

\* The pipe from the client holds messages.
LEMMA WireStep == IInv /\ [ServerNext \/ ClientStep]_serverVars => WireOK'
  <1> SUFFICES ASSUME IInv, [ServerNext \/ ClientStep]_serverVars PROVE WireOK'
    OBVIOUS
  <1>1. toServer \in Pipes(Incoming)
    BY DEF IInv, WireOK
  <1>2. CASE toServer' = toServer
    BY <1>1, <1>2 DEF WireOK
  <1>3. CASE toServer' = AwaitData(toServer)
    BY <1>1, <1>3 DEF WireOK, AwaitData, Pipes
  <1>4. CASE toServer.queue # <<>> /\ toServer' = Take(toServer, FALSE)
    BY <1>1, <1>4 DEF WireOK, Take, Pipes
  <1>5. CASE \E m \in Incoming : toServer' = Put(toServer, m)
    <2>1. PICK m \in Incoming : toServer' = Put(toServer, m)
      BY <1>5
    <2>2. Append(toServer.queue, m) \in Seq(Incoming)
      BY <1>1, AppendProperties DEF Pipes
    <2> QED
      BY <1>1, <2>1, <2>2 DEF WireOK, Put, Pipes
  <1>6. CASE toServer' = Shut(toServer)
    BY <1>1, <1>6 DEF WireOK, Shut, Pipes
  <1> QED
    BY <1>2, <1>3, <1>4, <1>5, <1>6 DEF ServerNext, LoopNext, ClientStep, Top, Decode,
       DecodeBroken, DecodeEOF, HandleRequest, Write, WriteFails, StopCalled,
       StopReturns, ContextEnds, ClientSends, ClientWaits, ClientReads, ClientCloses,
       serverVars

LEMMA IInvStep == IInv /\ [ServerNext \/ ClientStep]_serverVars => IInv'
  <1> SUFFICES ASSUME IInv, [ServerNext \/ ClientStep]_serverVars
               PROVE  TypeOK' /\ HandleInv' /\ EachRequestAnswered'
    BY WireStep DEF IInv
  <1> USE DEF IInv
  <1>1. CASE UNCHANGED <<srv, work>> /\ broken' \in BOOLEAN /\ done' \in BOOLEAN
             /\ ctxDone' \in BOOLEAN /\ stopper' \in {"idle", "waiting", "returned"}
    <2>1. TypeOK'
      BY <1>1 DEF TypeOK, work
    <2>2. Handled' = Handled /\ Answerable' = Answerable
      BY <1>1 DEF Handled, Answerable, work
    <2>3. InOrder => InOrder'
      BY <1>1, <2>2 DEF InOrder, work
    <2> QED
      BY <1>1, <2>1, <2>2, <2>3 DEF HandleInv, EachRequestAnswered, work
  <1>2. CASE UNCHANGED <<work, broken, stopping>>
             /\ \/ srv = "top" /\ srv' \in {"decode", "ended"}
                \/ srv = "decode" /\ srv' \in {"writeError", "ended"}
    BY <1>2 DEF TypeOK, HandleInv, EachRequestAnswered, work, stopping
  <1>3. CASE Decode
    BY <1>3, DecodeKeeps
  <1>4. CASE HandleRequest
    BY <1>4, HandleKeeps
  <1>5. CASE Write \/ WriteFails
    BY <1>5, EndKeeps DEF Write, WriteFails, AfterWriteError
  <1>6. CASE Top \/ DecodeBroken \/ DecodeEOF
    BY <1>2, <1>6 DEF Top, DecodeBroken, DecodeEOF
  <1>7. CASE StopCalled \/ StopReturns \/ ContextEnds \/ ClientStep
             \/ UNCHANGED serverVars
    BY <1>1, <1>7 DEF StopCalled, StopReturns, ContextEnds, ClientStep, ClientSends,
       ClientWaits, ClientReads, ClientCloses, serverVars, work, stopping, TypeOK
  <1> QED
    BY <1>3, <1>4, <1>5, <1>6, <1>7 DEF ServerNext, LoopNext

-----------------------------------------------------------------------------
\* Every variable of the server has its type, whatever the client sends.
THEOREM ServerTypeCorrect == OpenSpec => []TypeOK
  <1>1. IInv => TypeOK
    BY DEF IInv
  <1> QED
    BY <1>1, InitInv, IInvStep, PTL DEF OpenSpec

\* Responses belong, one by one and in order, to the requests of the message in
\* hand, for batches of any length and any client (server stdio.go:73-109,
\* 231-242).
THEOREM RequestsAreAnswered == OpenSpec => []EachRequestAnswered
  <1>1. IInv => EachRequestAnswered
    BY DEF IInv
  <1> QED
    BY <1>1, InitInv, IInvStep, PTL DEF OpenSpec
=============================================================================
