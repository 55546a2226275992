-------------------------- MODULE StdioSystemProofs --------------------------
(***************************************************************************)
(* Theorems about StdioSystem, for any numbers of callers and read loops,  *)
(* any bound on ids and any capacity of the pipes: the system is a run of  *)
(* StdioClient and one of StdioServer with any other end; no request is    *)
(* handled or answered twice, none is lost while one loop reads, and no    *)
(* response reaches a call but the one that asked; what it takes for the   *)
(* client to die and for everybody to block; and the system implements     *)
(* RequestReply.                                                           *)
(*                                                                         *)
(* The theorems about the client alone are instanced as CP.                *)
(***************************************************************************)
EXTENDS StdioSystem, FiniteSetTheorems, SequenceTheorems, TLAPS

CP == INSTANCE StdioClientProofs WITH Replies <- S!Replies, Lines <- {"other"}

-----------------------------------------------------------------------------
(* The inductive invariant.                                                *)

\* The server has one message in hand, in one piece.
ServerInv ==
    /\ srv \in {"top", "decode", "handle", "write", "ended"}
    /\ ~batch /\ ~broken
    /\ todo \in Seq(S!Single) /\ out \in Seq(S!Response)
    /\ srv = "handle" => Len(todo) = 1 /\ out = <<>>
    /\ srv = "write" => todo = <<>> /\ Len(out) = 1
    /\ srv \notin {"handle", "write"} => todo = <<>> /\ out = <<>>

\* It closes both pipes, and only when it has ended; it sends only responses.
PipesInv ==
    /\ toClient.closed = toServer.closed
    /\ toServer.closed => srv = "ended"
    /\ toClient.queue \in Seq(S!Response)

Writing == {"write", "writing"}

\* The request belongs to the call that has its id, if there still is one.
AskedBy(m) ==
    /\ m.id <= nextID
    /\ \A c \in Callers : myId[c] = m.id => pc[c] \notin Writing /\ m.ask = ask[c]

\* The response is one to that call's request.
AnswerTo(m) ==
    m.id # 0 =>
        /\ m.id <= nextID
        /\ \A c \in Callers : myId[c] = m.id =>
              /\ pc[c] \notin Writing
              /\ m.reply \in S!ReplyTo(ask[c])
              /\ job[c] = "initialize" /\ m.reply = "result" => welcomed

\* The requests on their way, and the responses.
Requests ==
    {m \in CP!Request : \/ \E i \in DOMAIN toServer.queue : m = toServer.queue[i]
                        \/ \E i \in DOMAIN todo : m = todo[i]}

Holding == {"lookup", "deliver", "delete"}

Responses ==
    {m \in S!Response : \/ \E i \in DOMAIN out : m = out[i]
                        \/ \E i \in DOMAIN toClient.queue : m = toClient.queue[i]
                        \/ \E l \in Loops : \E i \in DOMAIN buffer[l] : m = buffer[l][i]
                        \/ \E l \in Loops : loop[l] \in Holding /\ m = line[l]
                        \/ \E id \in CP!Ids : chan[id] = "full" /\ m = sent[id]
                        \/ \E c \in Callers : got[c] # NoOne /\ m = got[c]}

MessagesInv ==
    /\ \A c \in Callers : job[c] = "initialize" /\ myId[c] # 0 => ask[c] = InitQuestion
    /\ \A m \in Requests : AskedBy(m)
    /\ \A m \in Responses : AnswerTo(m)

\* What a loop works on, and what a channel holds, is a response.
CarriedInv ==
    /\ \A l \in Loops : loop[l] \in Holding => line[l] \in S!Response
    /\ \A id \in CP!Ids : chan[id] = "full" => sent[id] \in S!Response

Single(id) == \A p, q \in Places(id) : p = q

Unanswered(c) == pc[c] \in {"write", "writing", "waiting"} /\ myId[c] # 0

\* A response is dropped only if nobody waits for it.
HeldInv ==
    /\ \A c \in Callers : Unanswered(c) => myId[c] \in pending \/ chan[myId[c]] = "full"
    /\ \A c \in Callers, l \in Loops :
          Unanswered(c) /\ loop[l] = "delete" /\ line[l].id = myId[c] => chan[myId[c]] = "full"

NotLost ==
    \A c \in Callers :
        pc[c] = "waiting" /\ ~toServer.closed /\ Steady => Places(myId[c]) # {}

PlacesInv == HeldInv /\ NotLost /\ \A id \in CP!Ids : Single(id)

\* A line is begun by a loop that runs; with one loop none is torn.
ReaderInv ==
    /\ begun # NoOne => loop[begun] # "off"
    /\ Steady => \A l \in Loops : ~spoiled[l]

ClientInv == CP!TypeInv /\ CP!TableInv /\ CP!RoomInv

IInv == ClientInv /\ ServerInv /\ PipesInv /\ MessagesInv /\ CarriedInv
        /\ InitializedAfterWelcome /\ ReaderInv /\ PlacesInv /\ welcomed \in BOOLEAN
-----------------------------------------------------------------------------
\* The constants of the system are ones that the client allows.
LEMMA ConstantsFit == CP!StdioClientAssumption
  BY StdioSystemAssumption DEF CP!StdioClientAssumption, CP!IsFiniteSet, IsFiniteSet,
     S!Replies

\* The client of the system is the one whose lemmas are used: the two instances
\* expand to the same formulas.
LEMMA SameClient ==
    /\ C!Init <=> CP!Init
    /\ C!Next <=> CP!Next
    /\ C!ServerStep <=> CP!ServerStep
    /\ C!vars = CP!vars
  BY DEF C!Room, CP!Room, C!Put, CP!Put, C!Take, CP!Take, C!TakeFirst, CP!TakeFirst, C!AwaitData,
     CP!AwaitData,
     C!AtEOF, CP!AtEOF, C!Shut, CP!Shut, C!EmptyPipe, CP!EmptyPipe, C!table, CP!table,
     C!callers, CP!callers, C!scanners, CP!scanners, C!loops, CP!loops, C!pipes, CP!pipes, C!vars, CP!vars,
     C!Ids, CP!Ids, C!Listings, CP!Listings, C!Requests, CP!Requests, C!Jobs, CP!Jobs,
     C!Asks, CP!Asks, C!Request, CP!Request, C!Notification, CP!Notification,
     C!FromClient, CP!FromClient, C!Response, CP!Response, C!Other, CP!Other,
     C!FromServer, CP!FromServer, C!Init, CP!Init, C!AtomicAdd, CP!AtomicAdd,
     C!Register, CP!Register, C!SendRequest, CP!SendRequest, C!SendNotification,
     CP!SendNotification, C!Initialize, CP!Initialize, C!InitializeUnset,
     CP!InitializeUnset, C!MarshalFails, CP!MarshalFails, C!LockForWrite, CP!LockForWrite, C!IsRequest, CP!IsRequest,
     C!Outgoing, CP!Outgoing, C!ForgetCall, CP!ForgetCall, C!Write, CP!Write,
     C!WriteFails, CP!WriteFails, C!OwnRequest, CP!OwnRequest, C!ReceiveResponse,
     CP!ReceiveResponse, C!GiveUp, CP!GiveUp, C!RemoveEntry, CP!RemoveEntry,
     C!Succeeded, CP!Succeeded, C!Fallback, CP!Fallback, C!FallsBack, CP!FallsBack,
     C!Welcomed, CP!Welcomed, C!Listed, CP!Listed, C!GoesOn, CP!GoesOn, C!Cleanup,
     CP!Cleanup, C!ContextEnds, CP!ContextEnds, C!Saving, CP!Saving, C!Clearing,
     CP!Clearing, C!Sees, CP!Sees, C!Torn, CP!Torn, C!ListTools, CP!ListTools,
     C!Asked, CP!Asked, C!ListAsks, CP!ListAsks, C!ListCrashes, CP!ListCrashes,
     C!ListSaves, CP!ListSaves, C!LoopContextEnds, CP!LoopContextEnds, C!LoopTop,
     CP!LoopTop, C!Blocked, CP!Blocked, C!OthersBlocked, CP!OthersBlocked,
     C!Garbled, CP!Garbled, C!Garbage, CP!Garbage, C!WholeLines, CP!WholeLines,
     C!Spoils, CP!Spoils, C!Fill, CP!Fill, C!HasID, CP!HasID, C!NextLine, CP!NextLine, C!Scan, CP!Scan, C!Skim,
     CP!Skim, C!ContinueOnError, CP!ContinueOnError, C!HandlerReturns, CP!HandlerReturns, C!ScanTooLong, CP!ScanTooLong,
     C!ScanEOF, CP!ScanEOF, C!ContinueOnUnknown, CP!ContinueOnUnknown, C!Lookup,
     CP!Lookup, C!Deliver, CP!Deliver, C!DeliverTimeout, CP!DeliverTimeout,
     C!DeliverPanics, CP!DeliverPanics, C!DropEntry, CP!DropEntry, C!Delete,
     CP!Delete, C!CallerStep, CP!CallerStep, C!LoopStep, CP!LoopStep, C!Next, CP!Next,
     C!ServerWaits, CP!ServerWaits, C!ServerReads, CP!ServerReads, C!Arrived,
     CP!Arrived, C!ServerSends, CP!ServerSends, C!ServerExits, CP!ServerExits,
     C!ServerStep, CP!ServerStep

-----------------------------------------------------------------------------
(***************************************************************************)
(* The server, as the client sees it.                                      *)
(***************************************************************************)
Wires == toServer \in Pipes(CP!FromClient) /\ toClient \in Pipes(CP!FromServer)

LEMMA NoItem ==
    ASSUME NEW A, NEW s \in Seq(A), Len(s) = 0
    PROVE  s = <<>>
  BY EmptySeq

LEMMA OneItem ==
    ASSUME NEW A, NEW s \in Seq(A), Len(s) = 1
    PROVE  s # <<>> /\ Head(s) \in A /\ s[1] = Head(s) /\ Tail(s) = <<>>
<1>1. Tail(s) \in Seq(A) /\ Len(Tail(s)) = 0
  OBVIOUS
<1>2. s = <<Head(s)>> /\ s # <<>> /\ Head(s) \in A
  OBVIOUS
<1>3. Tail(s) = <<>>
  BY <1>1, NoItem
<1>4. s[1] = Head(s)
  OBVIOUS
<1> QED BY <1>2, <1>3, <1>4

LEMMA WiresTyped == CP!TypeInv => Wires
  BY DEF CP!TypeInv, CP!TypeOK, Wires, CP!Pipes, Pipes

\* Both components mean the same by a message.
LEMMA SameMessages ==
    /\ CP!FromClient = S!Single
    /\ CP!Response = S!Response
    /\ CP!Request \subseteq S!Single
    /\ \A m \in S!Single : m.kind = "request" => m \in CP!Request
  BY StdioSystemAssumption DEF CP!FromClient, CP!Request, CP!Notification, CP!Ids, CP!Asks, Asks,
     S!Single, CP!Response, S!Response

LEMMA NoBatches ==
    ASSUME NEW m \in S!Single
    PROVE  m.kind # "batch" /\ m \notin S!Undecodable
  BY StdioSystemAssumption DEF S!Single, S!Undecodable

\* The server answers what it is asked.
LEMMA ResponsesOf ==
    ASSUME NEW m \in S!Single, NEW r \in S!Responses(m)
    PROVE  \/ r = <<>> /\ m.kind # "request"
           \/ \E a \in S!Response :
                 /\ r = <<a>>
                 /\ IF m.kind = "request" THEN a.id = m.id /\ a.reply \in S!ReplyTo(m.ask)
                                           ELSE a.id = 0
<1>1. CASE r # <<>>
  <2>1. PICK reply \in (IF m.kind = "request" THEN S!ReplyTo(m.ask) ELSE {"MethodNotFound"}) :
           r = <<[kind |-> "response", id |-> S!IdOf(m), reply |-> reply]>>
    BY <1>1 DEF S!Responses
  <2>2. reply \in S!Replies
    BY <2>1 DEF S!Replies, S!ReplyTo, S!Outcome
  <2>3. S!IdOf(m) \in 2 .. MaxId \cup {0}
    BY StdioSystemAssumption DEF S!IdOf, S!Single
  <2> QED BY <2>1, <2>2, <2>3 DEF S!Response, S!IdOf
<1>2. m.kind = "request" => r # <<>>
  <2>1. ASSUME m.kind = "request", NEW e, r = <<e>> PROVE r # <<>>
    BY <2>1
  <2> QED BY <2>1 DEF S!Responses, S!NoResponse
<1> QED BY <1>1, <1>2

\* What a step of the server does to its message and to the pipes.
Reads ==
    /\ srv = "decode"
    /\ toServer.queue # <<>> /\ ~toServer.closed
    /\ toServer' = Take(toServer, FALSE)
    /\ todo' = <<Head(toServer.queue)>>
    /\ UNCHANGED <<out, toClient>>

Handles ==
    /\ srv = "handle"
    /\ todo' = <<>>
    /\ out' \in S!Responses(Head(todo))
    /\ UNCHANGED <<toServer, toClient>>

Responds ==
    /\ srv = "write"
    /\ Room(toClient, Cap)
    /\ toClient' = Put(toClient, Head(out))
    /\ out' = <<>>
    /\ UNCHANGED <<todo, toServer>>

Stays ==
    /\ toServer' = toServer \/ toServer' = AwaitData(toServer)
    /\ UNCHANGED <<todo, out, toClient>>

LEMMA ServerMoves ==
    ASSUME Wires, ServerInv, PipesInv, S!ServerNext
    PROVE  (Reads \/ Handles \/ Responds \/ Stays) /\ ServerInv'
<1> USE DEF ServerInv, PipesInv, S!work, S!stopping
<1>1. CASE S!Top
  BY <1>1 DEF S!Top, Stays, AwaitData, S!AwaitData
<1>2. CASE S!Decode
  <2>1. Head(toServer.queue) \in S!Single
    BY <1>2, SameMessages DEF Wires, Pipes, S!Decode
  <2>2. S!StartMessage(<<Head(toServer.queue)>>, FALSE)
    BY <1>2, <2>1, NoBatches DEF S!Decode
  <2>3. Reads
    BY <1>2, <2>2 DEF S!Decode, S!StartMessage, Reads, Take, S!Take
  <2>4. ServerInv'
    BY <1>2, <2>1, <2>2 DEF S!Decode, S!StartMessage
  <2> QED BY <2>3, <2>4
<1>3. CASE S!HandleRequest
  <2>1. PICK r \in S!Responses(Head(todo)) : out' = out \o r
    BY <1>3 DEF S!HandleRequest
  <2>2. Head(todo) \in S!Single /\ Tail(todo) = <<>> /\ out = <<>>
    <3>1. todo \in Seq(S!Single) /\ Len(todo) = 1 /\ out = <<>>
      BY <1>3 DEF S!HandleRequest
    <3> QED BY <3>1, OneItem
  <2>3. r \in Seq(S!Response) /\ Len(r) \in {0, 1}
    <3>1. CASE r = <<>>
      BY <3>1
    <3>2. ASSUME NEW a \in S!Response, r = <<a>> PROVE r \in Seq(S!Response) /\ Len(r) = 1
      BY <3>2
    <3> QED BY <3>1, <3>2, <2>1, <2>2, ResponsesOf
  <2>4. out' = r
    BY <2>1, <2>2, <2>3
  <2>5. Handles
    BY <1>3, <2>1, <2>2, <2>4 DEF S!HandleRequest, Handles
  <2>6. r # <<>> => Len(r) = 1
    BY <2>3
  <2>7. ServerInv'
    <3>1. todo' = <<>> /\ out' \in Seq(S!Response) /\ UNCHANGED <<batch, broken>>
      BY <1>3, <2>2, <2>3, <2>4 DEF S!HandleRequest
    <3>2. srv' = IF out' # <<>> THEN "write" ELSE "top"
      BY <1>3, <2>2 DEF S!HandleRequest
    <3> QED BY <2>4, <2>6, <3>1, <3>2
  <2> QED BY <2>5, <2>7
<1>4. CASE S!Write
  <2>1. Responds
    BY <1>4 DEF S!Write, S!EndMessage, S!Outgoing, Responds, Room, S!Room, Put, S!Put
  <2>2. ServerInv'
    BY <1>4 DEF S!Write, S!EndMessage
  <2> QED BY <2>1, <2>2
<1>5. CASE S!DecodeEOF
  BY <1>5 DEF S!DecodeEOF, Stays
<1>6. CASE S!StopCalled \/ S!StopReturns \/ S!ContextEnds
  BY <1>6 DEF S!StopCalled, S!StopReturns, S!ContextEnds, Stays
<1>7. ~S!DecodeBroken /\ ~S!WriteFails
  BY DEF S!DecodeBroken, S!WriteFails
<1> QED
  BY <1>1, <1>2, <1>3, <1>4, <1>5, <1>6, <1>7 DEF S!ServerNext, S!LoopNext

-----------------------------------------------------------------------------
(***************************************************************************)
(* The calls.  A step of the client lets a call be, ends it, or starts one *)
(* with an id that no message has.                                         *)
(***************************************************************************)
KeepsCall(c) ==
    /\ myId'[c] = myId[c] /\ ask'[c] = ask[c] /\ job'[c] = job[c]
    /\ pc'[c] \in Writing => pc[c] \in Writing
    /\ pc'[c] = "waiting" => pc[c] \in {"writing", "waiting"}

StartsCall(c) ==
    /\ nextID' = nextID + 1 /\ myId'[c] = nextID + 1
    /\ chan'[nextID + 1] = "open" /\ nextID + 1 \in pending'
    /\ job'[c] = "initialize" => ask'[c] = InitQuestion

CallsMove ==
    /\ nextID' = nextID \/ nextID' = nextID + 1
    /\ \A c \in Callers : myId'[c] = 0 \/ KeepsCall(c) \/ StartsCall(c)

LEMMA RegisterMoves ==
    ASSUME CP!TypeInv, NEW c \in Callers, NEW q, CP!Register(c, q),
           job'[c] = "initialize" => q = InitQuestion,
           \A d \in Callers \ {c} : job'[d] = job[d]
    PROVE  CallsMove
<1> USE DEF CP!TypeInv, CP!TypeOK, CP!Register, CP!AtomicAdd
<1>1. nextID + 1 \in CP!Ids
  BY StdioSystemAssumption DEF CP!Ids
<1>2. StartsCall(c)
  BY <1>1 DEF StartsCall
<1>3. \A d \in Callers \ {c} : KeepsCall(d)
  BY DEF KeepsCall
<1> QED BY <1>2, <1>3 DEF CallsMove, StartsCall

LEMMA ClientMoves ==
    ASSUME CP!TypeInv, CP!Next
    PROVE  CallsMove
<1> USE DEF CP!TypeInv, CP!TypeOK, CP!table, CP!callers, CP!loops, CP!pipes, Writing
<1>1. ASSUME NEW c \in Callers, CP!CallerStep(c) PROVE CallsMove
  <2>1. ASSUME NEW q \in Questions, CP!SendRequest(c, q) PROVE CallsMove
    BY <2>1, RegisterMoves DEF CP!SendRequest
  <2>2. ASSUME NEW l \in Loops, CP!Initialize(c, l) PROVE CallsMove
    BY <2>2, RegisterMoves DEF CP!Initialize
  <2>3. CASE CP!ListAsks(c)
    <3>1. PICK q : CP!Register(c, q)
      BY <2>3 DEF CP!ListAsks
    <3>2. job' = job /\ job[c] # "initialize"
      BY <2>3 DEF CP!ListAsks, CP!CallInv, CP!Listings
    <3> QED BY <3>1, <3>2, RegisterMoves
  <2>4. ASSUME \/ \E n \in Notices : CP!SendNotification(c, n)
               \/ \E l \in Loops : CP!InitializeUnset(c, l)
               \/ CP!MarshalFails(c) \/ CP!LockForWrite(c) \/ CP!ReceiveResponse(c) \/ CP!GiveUp(c)
               \/ CP!ListTools(c) \/ CP!ListCrashes(c) \/ CP!ContextEnds(c)
        PROVE CallsMove
    BY <2>4 DEF CallsMove, KeepsCall, CP!SendNotification, CP!InitializeUnset, CP!MarshalFails,
       CP!LockForWrite, CP!ReceiveResponse, CP!GiveUp, CP!ListTools, CP!ListCrashes,
       CP!ContextEnds, CP!CallInv
  <2>5. CASE CP!Write(c) \/ CP!WriteFails(c)
    <3>1. CASE CP!IsRequest(c)
      BY <2>5, <3>1 DEF CP!Write, CP!WriteFails, CallsMove, KeepsCall
    <3>2. CASE ~CP!IsRequest(c)
      <4>1. myId[c] = 0
        BY <2>5, <3>2 DEF CP!Write, CP!WriteFails, CP!CallInv
      <4> QED
        BY <2>5, <3>2, <4>1 DEF CP!Write, CP!WriteFails, CP!ForgetCall, CallsMove, KeepsCall
    <3> QED BY <3>1, <3>2
  <2>6. CASE CP!Cleanup(c)
    BY <2>6 DEF CP!Cleanup, CP!GoesOn, CP!ForgetCall, CallsMove, KeepsCall
  <2>7. CASE CP!ListSaves(c)
    BY <2>7 DEF CP!ListSaves, CP!ForgetCall, CallsMove, KeepsCall, CP!CallInv
  <2> QED BY <1>1, <2>1, <2>2, <2>3, <2>4, <2>5, <2>6, <2>7 DEF CP!CallerStep
<1>2. ASSUME NEW l \in Loops, CP!LoopStep(l) PROVE CallsMove
  <2>1. UNCHANGED <<nextID, CP!callers>>
    BY <1>2 DEF CP!LoopStep, CP!LoopContextEnds, CP!LoopTop, CP!Fill, CP!Scan, CP!Skim,
       CP!NextLine, CP!HandlerReturns, CP!ScanTooLong, CP!ScanEOF, CP!Lookup, CP!Deliver,
       CP!DeliverTimeout, CP!DeliverPanics, CP!Delete
  <2> QED BY <2>1 DEF CallsMove, KeepsCall
<1> QED BY <1>1, <1>2 DEF CP!Next

\* So what is known of a message stays true.
LEMMA AskedStays ==
    ASSUME ClientInv, CallsMove, NEW m \in CP!Request, AskedBy(m)
    PROVE  AskedBy(m)'
  BY StdioSystemAssumption DEF ClientInv, CP!TypeInv, CP!TypeOK, CP!Request, CP!Ids, CallsMove,
     KeepsCall, StartsCall, AskedBy

LEMMA AnswerStays ==
    ASSUME ClientInv, CallsMove, welcomed => welcomed', NEW m \in S!Response, AnswerTo(m)
    PROVE  AnswerTo(m)'
  BY StdioSystemAssumption DEF ClientInv, CP!TypeInv, CP!TypeOK, S!Response, CallsMove,
     KeepsCall, StartsCall, AnswerTo

-----------------------------------------------------------------------------
(***************************************************************************)
(* The messages.  A step makes a request or a response of what is known,   *)
(* or moves one.                                                           *)
(***************************************************************************)
LEMMA TakenItem ==
    ASSUME NEW A, NEW s \in Seq(A), s # <<>>, NEW i \in DOMAIN Tail(s)
    PROVE  i + 1 \in DOMAIN s /\ Tail(s)[i] = s[i + 1] /\ i \in Nat
  OBVIOUS

LEMMA FirstItem ==
    ASSUME NEW A, NEW s \in Seq(A), s # <<>>
    PROVE  1 \in DOMAIN s /\ Head(s) = s[1]
  OBVIOUS

LEMMA PutItem ==
    ASSUME NEW A, NEW s \in Seq(A), NEW e, NEW i \in DOMAIN Append(s, e)
    PROVE  \/ i \in DOMAIN s /\ Append(s, e)[i] = s[i]
           \/ i = Len(s) + 1 /\ Append(s, e)[i] = e
  OBVIOUS

LEMMA KeptItem ==
    ASSUME NEW A, NEW s \in Seq(A), NEW e, NEW i \in DOMAIN s
    PROVE  i \in DOMAIN Append(s, e) /\ Append(s, e)[i] = s[i]
  OBVIOUS

LEMMA AddedItem ==
    ASSUME NEW A, NEW s \in Seq(A), NEW e
    PROVE  Len(s) + 1 \in DOMAIN Append(s, e) /\ Append(s, e)[Len(s) + 1] = e
  OBVIOUS

LEMMA RestItem ==
    ASSUME NEW A, NEW s \in Seq(A), NEW n \in 0 .. Len(s),
           NEW i \in DOMAIN SubSeq(s, n + 1, Len(s))
    PROVE  /\ i \in Nat /\ i # 0 /\ i + n \in DOMAIN s
           /\ SubSeq(s, n + 1, Len(s))[i] = s[i + n]
  OBVIOUS

LEMMA LeftItem ==
    ASSUME NEW A, NEW s \in Seq(A), NEW n \in 0 .. Len(s), NEW i \in DOMAIN s, i > n
    PROVE  /\ i - n \in DOMAIN SubSeq(s, n + 1, Len(s))
           /\ SubSeq(s, n + 1, Len(s))[i - n] = s[i]
  OBVIOUS

\* In the system no line is too long for readLoop, and what its Scanner takes are
\* responses or what is left of them.
LEMMA OnlyResponses ==
    ASSUME IInv, NEW l \in Loops
    PROVE  ~CP!ScanTooLong(l)
<1>1. toClient.queue # <<>> => Head(toClient.queue) \in S!Response
  BY DEF IInv, PipesInv
<1>2. toClient.queue # <<>> => Head(toClient.queue).kind = "response"
  BY <1>1 DEF S!Response
<1> QED BY <1>2 DEF CP!ScanTooLong

LEMMA LineOfServer ==
    ASSUME NEW m \in CP!FromServer, m.kind = "response"
    PROVE  m \in S!Response
  BY SameMessages DEF CP!FromServer, CP!Other

LEMMA ReadersTyped ==
    ASSUME IInv
    PROVE  /\ loop \in [Loops -> {"off", "top", "scan", "handler", "lookup", "deliver",
                                  "delete", "ended"}]
           /\ line \in [Loops -> S!Response \cup {NoOne}]
           /\ buffer \in [Loops -> Seq(CP!FromServer)]
           /\ begun \in Loops \cup {NoOne}
           /\ spoiled \in [Loops -> BOOLEAN]
           /\ toClient.queue \in Seq(S!Response)
  BY SameMessages DEF IInv, ClientInv, CP!TypeInv, CP!TypeOK, PipesInv

LEMMA FillMoves ==
    ASSUME IInv, NEW l \in Loops, CP!Fill(l)
    PROVE  /\ \E n \in 0 .. Len(toClient.queue) :
                 /\ buffer' = [buffer EXCEPT ![l] = CP!WholeLines(l, n)]
                 /\ toClient'.queue = SubSeq(toClient.queue, n + 1, Len(toClient.queue))
           /\ toClient'.closed = toClient.closed
           /\ \E n \in BOOLEAN : spoiled' = [CP!Spoils(l) EXCEPT ![l] = n /\ CP!Garbled(l)]
           /\ begun' \in {l, NoOne}
           /\ loop[l] = "scan" /\ buffer[l] = <<>>
           /\ UNCHANGED <<nextID, pending, chan, sent, mu, pc, job, ask, myId, myLoop, expired,
                          got, negotiated, cached, loop, line, loopCtxDone, panicked, toServer>>
<1>1. PICK n \in 0 .. Len(toClient.queue), tears \in BOOLEAN :
         /\ buffer' = [buffer EXCEPT ![l] = CP!WholeLines(l, n)]
         /\ toClient' = CP!TakeFirst(toClient, n, n = 0 \/ CP!OthersBlocked(l))
         /\ begun' = IF tears THEN l ELSE NoOne
         /\ spoiled' = [CP!Spoils(l) EXCEPT ![l] = n = 0 /\ CP!Garbled(l)]
  BY Zenon DEF CP!Fill
<1>2. /\ toClient'.queue = SubSeq(toClient.queue, n + 1, Len(toClient.queue))
      /\ toClient'.closed = toClient.closed
  BY <1>1 DEF CP!TakeFirst
<1>3. begun' \in {l, NoOne}
  BY <1>1
<1>4. /\ loop[l] = "scan" /\ buffer[l] = <<>>
      /\ UNCHANGED <<nextID, pending, chan, sent, mu, pc, job, ask, myId, myLoop, expired,
                     got, negotiated, cached, loop, line, loopCtxDone, panicked, toServer>>
  BY DEF CP!Fill, CP!Blocked, CP!table, CP!callers
<1>5. \E b \in BOOLEAN : spoiled' = [CP!Spoils(l) EXCEPT ![l] = b /\ CP!Garbled(l)]
  <2>1. (n = 0) \in BOOLEAN
    OBVIOUS
  <2> QED BY <1>1, <2>1
<1> QED BY <1>1, <1>2, <1>3, <1>4, <1>5

\* A response in the buffer that was filled was in the pipe.
LEMMA FilledLine ==
    ASSUME IInv, NEW l \in Loops, NEW n \in 0 .. Len(toClient.queue),
           NEW i \in DOMAIN CP!WholeLines(l, n), CP!WholeLines(l, n)[i].kind = "response"
    PROVE  /\ i \in 1 .. n /\ i \in DOMAIN toClient.queue
           /\ CP!WholeLines(l, n)[i] = toClient.queue[i]
<1>1. i \in 1 .. n /\ toClient.queue \in Seq(S!Response)
  BY ReadersTyped DEF CP!WholeLines
<1>2. CP!WholeLines(l, n)[i] = IF i = 1 /\ CP!Garbled(l) THEN CP!Garbage ELSE toClient.queue[i]
  BY <1>1 DEF CP!WholeLines
<1> QED BY <1>1, <1>2 DEF CP!Garbage

\* A Read takes a line or a part of one.
LEMMA FillChanges ==
    ASSUME IInv, NEW l \in Loops, CP!Fill(l), UNCHANGED buffer
    PROVE  begun' # begun
<1>1. PICK n \in 0 .. Len(toClient.queue), tears \in BOOLEAN :
         /\ n > 0 \/ (tears /\ begun # l)
         /\ buffer' = [buffer EXCEPT ![l] = CP!WholeLines(l, n)]
         /\ begun' = IF tears THEN l ELSE NoOne
  BY Zenon DEF CP!Fill
<1>2. n = 0
  <2>1. CP!WholeLines(l, n) = <<>> /\ n \in Nat
    BY <1>1, FillMoves, ReadersTyped
  <2>2. Len(CP!WholeLines(l, n)) = n
    BY <2>1 DEF CP!WholeLines
  <2> QED BY <2>1, <2>2
<1> QED BY <1>1, <1>2

TakesLine(l) == CP!Scan(l) \/ CP!Skim(l)

LEMMA LineTaken ==
    ASSUME IInv, NEW l \in Loops, TakesLine(l)
    PROVE  /\ loop[l] = "scan" /\ buffer[l] # <<>>
           /\ 1 \in DOMAIN buffer[l] /\ Head(buffer[l]) = buffer[l][1]
           /\ buffer' = [buffer EXCEPT ![l] = Tail(buffer[l])]
           /\ \E where \in {"lookup", "handler", "top"} : loop' = [loop EXCEPT ![l] = where]
           /\ \A k \in Loops \ {l} : loop'[k] = loop[k] /\ line'[k] = line[k]
           /\ IF buffer[l][1].kind = "response"
              THEN loop'[l] = "lookup" /\ line'[l] = buffer[l][1]
                   /\ buffer[l][1] \in S!Response
              ELSE loop'[l] \in {"handler", "top"}
           /\ UNCHANGED <<nextID, pending, chan, sent, mu, pc, job, ask, myId, myLoop, expired,
                          got, negotiated, cached, loopCtxDone, begun, spoiled, panicked,
                          toServer, toClient>>
<1>1. /\ loop[l] = "scan" /\ buffer[l] # <<>>
      /\ buffer' = [buffer EXCEPT ![l] = Tail(buffer[l])]
      /\ UNCHANGED <<nextID, pending, chan, sent, mu, pc, job, ask, myId, myLoop, expired,
                     got, negotiated, cached, loopCtxDone, begun, spoiled, panicked,
                     toServer, toClient>>
  BY DEF TakesLine, CP!Scan, CP!Skim, CP!NextLine, CP!table, CP!callers, CP!pipes
<1>2. buffer[l] \in Seq(CP!FromServer) /\ DOMAIN loop = Loops /\ DOMAIN line = Loops
  BY ReadersTyped
<1>3. 1 \in DOMAIN buffer[l] /\ Head(buffer[l]) = buffer[l][1] /\ buffer[l][1] \in CP!FromServer
  BY <1>1, <1>2
<1>4. \A k \in Loops \ {l} : loop'[k] = loop[k] /\ line'[k] = line[k]
  BY <1>2 DEF TakesLine, CP!Scan, CP!Skim
<1>5. IF buffer[l][1].kind = "response"
      THEN loop'[l] = "lookup" /\ line'[l] = buffer[l][1]
      ELSE loop'[l] \in {"handler", "top"}
  <2>1. CASE CP!Scan(l)
    BY <1>2, <1>3, <2>1 DEF CP!Scan, CP!HasID
  <2>2. CASE CP!Skim(l)
    BY <1>2, <1>3, <2>2 DEF CP!Skim, CP!HasID
  <2> QED BY <2>1, <2>2 DEF TakesLine
<1>6. \E where \in {"lookup", "handler", "top"} : loop' = [loop EXCEPT ![l] = where]
  BY DEF TakesLine, CP!Scan, CP!Skim
<1>7. buffer[l][1].kind = "response" => buffer[l][1] \in S!Response
  BY <1>3, LineOfServer
<1> QED BY <1>1, <1>3, <1>4, <1>5, <1>6, <1>7

LEMMA OnlyWrites ==
    ASSUME IInv, CP!Next, \A c \in Callers : ~CP!Write(c)
    PROVE  UNCHANGED toServer
  BY OnlyResponses DEF CP!Next, CP!CallerStep, CP!LoopStep, CP!SendRequest,
     CP!SendNotification, CP!Initialize, CP!InitializeUnset, CP!MarshalFails, CP!LockForWrite,
     CP!WriteFails, CP!ReceiveResponse, CP!GiveUp, CP!Cleanup, CP!ListTools, CP!ListAsks,
     CP!ListCrashes, CP!ListSaves, CP!ContextEnds, CP!LoopContextEnds, CP!LoopTop, CP!Fill,
     CP!Scan, CP!Skim, CP!NextLine, CP!HandlerReturns, CP!ScanEOF, CP!Lookup, CP!Deliver,
     CP!DeliverTimeout, CP!DeliverPanics, CP!Delete, CP!pipes

\* The client adds the request that it writes, and no response.
LEMMA ClientRequests ==
    ASSUME IInv, CP!Next, UNCHANGED serverOnly, NEW m \in Requests'
    PROVE  \/ m \in Requests
           \/ \E c \in Callers : CP!Write(c) /\ CP!IsRequest(c) /\ m = CP!Outgoing(c)
<1>1. ASSUME NEW c \in Callers, CP!Write(c), NEW i \in DOMAIN toServer'.queue,
             m = toServer'.queue[i], m \notin Requests
      PROVE  CP!IsRequest(c) /\ m = CP!Outgoing(c)
  <2>1. toServer \in Pipes(CP!FromClient) /\ toServer' = CP!Put(toServer, CP!Outgoing(c))
    BY <1>1, WiresTyped DEF IInv, ClientInv, Wires, CP!Write
  <2>2. toServer.queue \in Seq(CP!FromClient)
        /\ toServer'.queue = Append(toServer.queue, CP!Outgoing(c))
    BY <2>1 DEF CP!Put, Pipes
  <2>3. m \in CP!Request
    BY DEF Requests
  <2>4. m = CP!Outgoing(c)
    <3>1. ~\E j \in DOMAIN toServer.queue : m = toServer.queue[j]
      BY <1>1, <2>3 DEF Requests
    <3> QED BY <1>1, <2>2, <3>1, PutItem
  <2>5. CP!IsRequest(c)
    BY <2>3, <2>4, StdioSystemAssumption DEF CP!Outgoing, CP!IsRequest, CP!Requests, CP!Request
  <2> QED BY <2>4, <2>5
<1>3. m \in Requests \/ \E i \in DOMAIN toServer'.queue : m = toServer'.queue[i]
  BY DEF Requests, serverOnly
<1>2. UNCHANGED toServer \/ \E c \in Callers : CP!Write(c)
  BY OnlyWrites
<1> QED BY <1>1, <1>2, <1>3 DEF Requests

\* Pipes, loops, channels and calls hand responses over.
LEMMA ClientResponses ==
    ASSUME IInv, CP!Next, UNCHANGED serverOnly
    PROVE  Responses' \subseteq Responses
<1> USE DEF CP!table, CP!callers, CP!loops, CP!scanners, CP!pipes, serverOnly, Holding
<1> SUFFICES ASSUME NEW m \in Responses' PROVE m \in Responses
  OBVIOUS
<1> DEFINE Same == /\ toClient'.queue = toClient.queue /\ buffer' = buffer
                   /\ \A l \in Loops :
                         loop'[l] \in Holding => loop[l] \in Holding /\ line'[l] = line[l]
                   /\ \A id \in CP!Ids :
                         chan'[id] = "full" => chan[id] = "full" /\ sent'[id] = sent[id]
                   /\ \A c \in Callers : got'[c] # NoOne => got'[c] = got[c]
<1>1. Same => m \in Responses
  BY DEF Responses
<1> HIDE DEF Same
<1>2. /\ loop \in [Loops -> {"off", "top", "scan", "handler", "lookup", "deliver", "delete",
                            "ended"}]
      /\ line \in [Loops -> S!Response \cup {NoOne}]
      /\ got \in [Callers -> S!Response \cup {NoOne}]
      /\ chan \in [CP!Ids -> {"none", "open", "full", "closed"}]
      /\ sent \in [CP!Ids -> S!Response \cup {NoOne}]
      /\ toClient.queue \in Seq(S!Response)
      /\ nextID \in Nat
  BY SameMessages DEF IInv, ClientInv, CP!TypeInv, CP!TypeOK, PipesInv
<1>3. ASSUME NEW c \in Callers, NEW q, CP!Register(c, q),
             UNCHANGED <<toClient, got, line, buffer>>,
             \A l \in Loops : loop'[l] = loop[l] \/ loop'[l] = "top"
      PROVE  m \in Responses
  BY <1>1, <1>2, <1>3, StdioSystemAssumption DEF CP!Register, CP!AtomicAdd, CP!Ids, Same
<1>4. ASSUME NEW c \in Callers, CP!CallerStep(c) PROVE m \in Responses
  <2>1. CASE \E q \in Questions : CP!SendRequest(c, q)
    BY <2>1, <1>3 DEF CP!SendRequest
  <2>2. CASE \E l \in Loops : CP!Initialize(c, l)
    BY <2>2, <1>2, <1>3 DEF CP!Initialize
  <2>3. CASE CP!ListAsks(c)
    BY <2>3, <1>3 DEF CP!ListAsks
  <2>4. CASE \/ \E n \in Notices : CP!SendNotification(c, n)
             \/ CP!MarshalFails(c) \/ CP!LockForWrite(c) \/ CP!Write(c) \/ CP!WriteFails(c)
             \/ CP!GiveUp(c)
             \/ CP!ListTools(c) \/ CP!ListCrashes(c) \/ CP!ListSaves(c) \/ CP!ContextEnds(c)
    BY <2>4, <1>1 DEF Same, CP!SendNotification, CP!MarshalFails, CP!LockForWrite, CP!Write,
       CP!WriteFails, CP!GiveUp, CP!ListTools, CP!ListCrashes, CP!ListSaves, CP!ContextEnds
  <2>5. CASE \E l \in Loops : CP!InitializeUnset(c, l)
    BY <2>5, <1>1, <1>2 DEF Same, CP!InitializeUnset
  <2>6. CASE CP!Cleanup(c)
    BY <2>6, <1>1, <1>2 DEF Same, CP!Cleanup, CP!RemoveEntry
  <2>7. CASE CP!ReceiveResponse(c)
    <3>1. myId[c] \in CP!Ids
      BY <2>7 DEF IInv, ClientInv, CP!TypeInv, CP!TypeOK, CP!CallInv, CP!ReceiveResponse
    <3> QED BY <2>7, <3>1, <1>2 DEF Responses, CP!ReceiveResponse, CP!OwnRequest
  <2> QED BY <1>4, <2>1, <2>2, <2>3, <2>4, <2>5, <2>6, <2>7 DEF CP!CallerStep
<1>5. ASSUME NEW l \in Loops, CP!LoopStep(l) PROVE m \in Responses
  <2>1. CASE CP!LoopTop(l)
    <3>1. toClient' = toClient \/ toClient' = CP!AwaitData(toClient)
      BY <2>1 DEF CP!LoopTop
    <3>2. toClient'.queue = toClient.queue
      BY <3>1, WiresTyped DEF IInv, ClientInv, Wires, Pipes, CP!AwaitData
    <3> QED BY <2>1, <3>2, <1>1, <1>2 DEF Same, CP!LoopTop
  <2>2. CASE TakesLine(l)
    <3>1. /\ buffer[l] \in Seq(CP!FromServer) /\ DOMAIN buffer = Loops
          /\ m \in S!Response
      BY ReadersTyped DEF Responses
    <3>2. CASE \E k \in Loops : \E i \in DOMAIN buffer'[k] : m = buffer'[k][i]
      <4>1. PICK k \in Loops : \E i \in DOMAIN buffer'[k] : m = buffer'[k][i]
        BY <3>2
      <4>2. CASE k # l
        BY <2>2, <3>1, <4>1, <4>2, LineTaken DEF Responses
      <4>3. CASE k = l
        <5>1. PICK i \in DOMAIN Tail(buffer[l]) : m = Tail(buffer[l])[i]
          BY <2>2, <3>1, <4>1, <4>3, LineTaken
        <5>2. i + 1 \in DOMAIN buffer[l] /\ m = buffer[l][i + 1]
          BY <2>2, <3>1, <5>1, LineTaken, TakenItem
        <5> QED BY <3>1, <5>2 DEF Responses
      <4> QED BY <4>2, <4>3
    <3>3. CASE \E k \in Loops : loop'[k] \in Holding /\ m = line'[k]
      <4>1. PICK k \in Loops : loop'[k] \in Holding /\ m = line'[k]
        BY <3>3
      <4>2. CASE k # l
        BY <2>2, <3>1, <4>1, <4>2, LineTaken DEF Responses
      <4>3. CASE k = l
        <5>1. m = buffer[l][1] /\ 1 \in DOMAIN buffer[l]
          BY <2>2, <4>1, <4>3, LineTaken
        <5> QED BY <3>1, <5>1 DEF Responses
      <4> QED BY <4>2, <4>3
    <3> QED BY <2>2, <3>2, <3>3, LineTaken DEF Responses
  <2>6. CASE CP!Fill(l)
    <3>1. PICK n \in 0 .. Len(toClient.queue) :
             /\ buffer' = [buffer EXCEPT ![l] = CP!WholeLines(l, n)]
             /\ toClient'.queue = SubSeq(toClient.queue, n + 1, Len(toClient.queue))
      BY <2>6, FillMoves
    <3>2. m \in S!Response /\ m.kind = "response" /\ DOMAIN buffer = Loops
      BY ReadersTyped DEF Responses, S!Response
    <3>3. CASE \E k \in Loops : \E i \in DOMAIN buffer'[k] : m = buffer'[k][i]
      <4>1. PICK k \in Loops : \E i \in DOMAIN buffer'[k] : m = buffer'[k][i]
        BY <3>3
      <4>2. CASE k # l
        BY <3>1, <3>2, <4>1, <4>2 DEF Responses
      <4>3. CASE k = l
        <5>1. PICK i \in DOMAIN CP!WholeLines(l, n) : m = CP!WholeLines(l, n)[i]
          BY <3>1, <3>2, <4>1, <4>3
        <5>2. i \in DOMAIN toClient.queue /\ m = toClient.queue[i]
          BY <3>2, <5>1, FilledLine
        <5> QED BY <3>2, <5>2 DEF Responses
      <4> QED BY <4>2, <4>3
    <3>4. CASE \E i \in DOMAIN toClient'.queue : m = toClient'.queue[i]
      <4>1. PICK i \in DOMAIN SubSeq(toClient.queue, n + 1, Len(toClient.queue)) :
               m = SubSeq(toClient.queue, n + 1, Len(toClient.queue))[i]
        BY <3>1, <3>4
      <4>2. i + n \in DOMAIN toClient.queue /\ m = toClient.queue[i + n]
        BY <1>2, <4>1, RestItem
      <4> QED BY <3>2, <4>2 DEF Responses
    <3> QED BY <2>6, <3>3, <3>4, FillMoves DEF Responses
  <2>3. CASE CP!LoopContextEnds(l) \/ CP!HandlerReturns(l) \/ CP!ScanEOF(l)
             \/ CP!DeliverTimeout(l) \/ CP!DeliverPanics(l)
    BY <2>3, <1>1, <1>2 DEF Same, CP!LoopContextEnds, CP!HandlerReturns, CP!ContinueOnError,
       CP!ScanEOF, CP!DeliverTimeout, CP!DeliverPanics
  <2>4. CASE CP!Lookup(l) \/ CP!Delete(l)
    BY <2>4, <1>1, <1>2 DEF Same, CP!Lookup, CP!ContinueOnUnknown, CP!Delete
  <2>5. CASE CP!Deliver(l)
    BY <2>5, <1>2 DEF Responses, CP!Deliver
  <2> QED BY <1>5, <2>1, <2>2, <2>3, <2>4, <2>5, <2>6, OnlyResponses DEF CP!LoopStep, TakesLine
<1> QED BY <1>4, <1>5 DEF CP!Next

\* What the client tells the server after Initialize follows from a result.
LEMMA ClientWelcomed ==
    ASSUME IInv, CP!Next, UNCHANGED welcomed
    PROVE  InitializedAfterWelcome'
<1> USE DEF CP!table, CP!callers, CP!loops, CP!pipes
<1>1. ASSUME NEW c \in Callers, job'[c] = "initialized" PROVE welcomed
  <2>1. CASE job[c] = "initialized"
    BY <2>1 DEF IInv, InitializedAfterWelcome
  <2>2. CASE job[c] # "initialized"
    <3>1. CP!Cleanup(c) /\ CP!Welcomed(c)
      <4> DEFINE Becomes == \E d \in Callers : \E as :
                               job' = [job EXCEPT ![d] = as] /\ as # "initialized"
      <4>1. job \in [Callers -> CP!Jobs] /\ "initialized" \notin Notices
        BY StdioSystemAssumption DEF IInv, ClientInv, CP!TypeInv, CP!TypeOK
      <4>2. job' # job /\ ~Becomes
        BY <1>1, <2>2, <4>1
      <4>3. ASSUME NEW d \in Callers, CP!CallerStep(d), ~CP!Cleanup(d)
            PROVE  job' = job \/ Becomes
        <5>1. CASE \E n \in Notices : CP!SendNotification(d, n)
          BY <4>1, <5>1 DEF CP!SendNotification
        <5>2. CASE CP!ListTools(d)
          BY <5>2 DEF CP!ListTools
        <5>3. CASE CP!Write(d) \/ CP!WriteFails(d) \/ CP!ListSaves(d)
          BY <5>3 DEF CP!Write, CP!WriteFails, CP!ListSaves, CP!ForgetCall
        <5> QED
          BY <4>3, <5>1, <5>2, <5>3 DEF CP!CallerStep, CP!SendRequest, CP!Initialize,
             CP!InitializeUnset, CP!MarshalFails, CP!LockForWrite, CP!ReceiveResponse, CP!GiveUp,
             CP!ListAsks, CP!ListCrashes, CP!ContextEnds
      <4>4. PICK d \in Callers : CP!Cleanup(d)
        <5>1. ASSUME NEW l \in Loops, CP!LoopStep(l) PROVE job' = job
          BY <5>1, OnlyResponses DEF CP!LoopStep, CP!LoopContextEnds, CP!LoopTop, CP!Fill, CP!Scan,
             CP!Skim, CP!NextLine, CP!HandlerReturns, CP!ScanEOF, CP!Lookup, CP!Deliver,
             CP!DeliverTimeout, CP!DeliverPanics, CP!Delete
        <5> HIDE DEF Becomes
        <5> QED BY <4>2, <4>3, <5>1 DEF CP!Next
      <4>5. CP!Welcomed(d) /\ job' = [job EXCEPT ![d] = "initialized"]
        <5>1. ASSUME NEW as, job' = [job EXCEPT ![d] = as] PROVE as = "initialized"
          BY <1>1, <2>2, <4>1, <5>1
        <5> HIDE DEF Becomes
        <5>2. ~(CP!Listed(d) /\ CP!GoesOn(d, "save", job[d]))
          BY <5>1 DEF CP!Listed, CP!GoesOn
        <5>3. ~(CP!FallsBack(d) /\ CP!GoesOn(d, "next", CP!Fallback[job[d]]))
          <6>1. CP!FallsBack(d) => CP!Fallback[job[d]] # "initialized"
            BY DEF CP!FallsBack, CP!Fallback
          <6> QED BY <5>1, <6>1 DEF CP!GoesOn
        <5>4. ~CP!ForgetCall(d)
          BY <5>1 DEF CP!ForgetCall
        <5> QED BY <4>4, <5>2, <5>3, <5>4 DEF CP!Cleanup, CP!GoesOn
      <4>6. d = c
        BY <1>1, <2>2, <4>1, <4>5
      <4> QED BY <4>4, <4>5, <4>6
    <3>2. /\ job[c] = "initialize" /\ got[c] # NoOne /\ got[c].reply = "result"
          /\ got[c] \in S!Response /\ got[c].id = myId[c] /\ myId[c] # 0
      BY <3>1, SameMessages DEF CP!Cleanup, CP!Welcomed, CP!Succeeded, IInv, ClientInv,
         CP!TypeInv, CP!TypeOK, CP!CallInv, CP!TableInv, CP!OwnResponse
    <3>3. got[c] \in Responses
      BY <3>2 DEF Responses
    <3>4. AnswerTo(got[c])
      BY <3>3 DEF IInv, MessagesInv
    <3> QED BY <3>2, <3>4 DEF AnswerTo
  <2> QED BY <2>1, <2>2
<1>2. ASSUME NEW i \in DOMAIN toServer'.queue, toServer'.queue[i].kind = "initialized"
      PROVE  welcomed
  <2>1. CASE \E c \in Callers : CP!Write(c)
    <3>1. PICK c \in Callers : CP!Write(c)
      BY <2>1
    <3>2. toServer.queue \in Seq(CP!FromClient)
          /\ toServer'.queue = Append(toServer.queue, CP!Outgoing(c))
      BY <3>1, WiresTyped DEF IInv, ClientInv, Wires, Pipes, CP!Write, CP!Put
    <3>3. CASE i \in DOMAIN toServer.queue /\ toServer'.queue[i] = toServer.queue[i]
      BY <1>2, <3>3 DEF IInv, InitializedAfterWelcome
    <3>4. CASE toServer'.queue[i] = CP!Outgoing(c)
      <4>1. job[c] = "initialized"
        BY <1>2, <3>4 DEF CP!Outgoing
      <4> QED BY <4>1 DEF IInv, InitializedAfterWelcome
    <3> QED BY <1>2, <3>2, <3>3, <3>4, PutItem
  <2>2. CASE ~\E c \in Callers : CP!Write(c)
    BY <1>2, <2>2, OnlyWrites DEF IInv, InitializedAfterWelcome
  <2> QED BY <2>1, <2>2
<1> QED BY <1>1, <1>2 DEF InitializedAfterWelcome

LEMMA ClientMessages ==
    ASSUME IInv, CP!Next, UNCHANGED serverOnly, UNCHANGED welcomed
    PROVE  MessagesInv'
<1>1. CallsMove
  BY ClientMoves DEF IInv, ClientInv
<1>2. ASSUME NEW c \in Callers, job'[c] = "initialize", myId'[c] # 0
      PROVE  ask'[c] = InitQuestion
  BY <1>1, <1>2 DEF CallsMove, KeepsCall, StartsCall, IInv, MessagesInv
<1>3. ASSUME NEW m \in Requests' PROVE AskedBy(m)'
  <2>1. CASE m \in Requests
    BY <1>1, <2>1, AskedStays DEF Requests, IInv, MessagesInv
  <2>2. ASSUME NEW c \in Callers, CP!Write(c), CP!IsRequest(c), m = CP!Outgoing(c)
        PROVE  AskedBy(m)'
    <3>1. m.id = myId[c] /\ m.ask = ask[c] /\ pc' = [pc EXCEPT ![c] = "waiting"]
          /\ UNCHANGED <<nextID, myId, ask>>
      BY <2>2 DEF CP!Outgoing, CP!Write, CP!table
    <3>2. myId[c] # 0 /\ CP!InFlight(c)
      BY <2>2 DEF CP!Write, CP!InFlight, IInv, ClientInv, CP!TypeInv, CP!CallInv
    <3>3. myId[c] <= nextID /\ \A d \in Callers : myId[d] = myId[c] => d = c
      BY <3>2 DEF IInv, ClientInv, CP!TableInv, CP!IdInv, CP!IdsDistinct
    <3> QED BY <3>1, <3>3 DEF AskedBy, Writing, IInv, ClientInv, CP!TypeInv, CP!TypeOK
  <2> QED BY <2>1, <2>2, ClientRequests
<1>4. ASSUME NEW m \in Responses' PROVE AnswerTo(m)'
  BY <1>1, ClientResponses, AnswerStays DEF Responses, IInv, MessagesInv
<1> QED BY <1>2, <1>3, <1>4 DEF MessagesInv

LEMMA IdleClient ==
    ASSUME UNCHANGED clientOnly
    PROVE  CallsMove
  BY DEF clientOnly, CallsMove, KeepsCall

\* The server moves requests, and turns one into its response.
LEMMA ServerRequests ==
    ASSUME Wires, ServerInv, Reads \/ Handles \/ Responds \/ Stays
    PROVE  Requests' \subseteq Requests
<1> SUFFICES ASSUME NEW m \in Requests' PROVE m \in Requests
  OBVIOUS
<1>1. m \in CP!Request /\ toServer.queue \in Seq(CP!FromClient)
  BY DEF Requests, Wires, Pipes
<1>2. CASE Reads
  <2>1. toServer'.queue = Tail(toServer.queue) /\ todo' = <<Head(toServer.queue)>>
        /\ toServer.queue # <<>>
    BY <1>2 DEF Reads, Take
  <2>2. CASE \E i \in DOMAIN toServer'.queue : m = toServer'.queue[i]
    BY <1>1, <2>1, <2>2, TakenItem DEF Requests
  <2>3. CASE \E i \in DOMAIN todo' : m = todo'[i]
    BY <1>1, <2>1, <2>3, FirstItem DEF Requests
  <2> QED BY <2>2, <2>3 DEF Requests
<1>3. CASE Handles
  BY <1>3 DEF Handles, Requests
<1>4. CASE Responds
  BY <1>4 DEF Responds, Requests
<1>5. CASE Stays
  BY <1>5 DEF Stays, Requests, Wires, Pipes, AwaitData
<1> QED BY <1>2, <1>3, <1>4, <1>5

LEMMA ServerResponses ==
    ASSUME Wires, ServerInv, Reads \/ Handles \/ Responds \/ Stays, UNCHANGED clientOnly,
           toClient.queue \in Seq(S!Response), NEW m \in Responses'
    PROVE  \/ m \in Responses
           \/ Handles /\ out' = <<m>>
<1> USE DEF clientOnly
<1>1. m \in S!Response
  BY DEF Responses
<1>2. CASE Reads \/ Stays
  BY <1>2 DEF Reads, Stays, Responses
<1>3. CASE Handles
  <2>1. CASE \E i \in DOMAIN out' : m = out'[i]
    <3>1. Head(todo) \in S!Single
      BY <1>3, OneItem DEF ServerInv, Handles
    <3>2. out' = <<>> \/ \E a \in S!Response : out' = <<a>>
      BY <1>3, <3>1, ResponsesOf DEF Handles
    <3> QED BY <1>3, <2>1, <3>2
  <2>2. CASE ~\E i \in DOMAIN out' : m = out'[i]
    BY <1>3, <2>2 DEF Handles, Responses
  <2> QED BY <2>1, <2>2
<1>4. CASE Responds
  <2>1. toClient'.queue = Append(toClient.queue, Head(out)) /\ out' = <<>>
    BY <1>4 DEF Responds, Wires, Pipes, Put
  <2>2. CASE \E i \in DOMAIN toClient'.queue : m = toClient'.queue[i]
    <3>1. 1 \in DOMAIN out /\ Head(out) = out[1]
      BY <1>4, OneItem, FirstItem DEF ServerInv, Responds
    <3> QED BY <1>1, <2>1, <2>2, <3>1, PutItem DEF Responses
  <2>3. CASE ~\E i \in DOMAIN toClient'.queue : m = toClient'.queue[i]
    BY <2>1, <2>3 DEF Responses
  <2> QED BY <2>2, <2>3
<1> QED BY <1>2, <1>3, <1>4

LEMMA ServerMessages ==
    ASSUME IInv, ServerStep, Reads \/ Handles \/ Responds \/ Stays
    PROVE  MessagesInv' /\ InitializedAfterWelcome'
<1>1. /\ CallsMove /\ Wires /\ ServerInv /\ UNCHANGED clientOnly
      /\ toClient.queue \in Seq(S!Response) /\ (welcomed => welcomed')
  BY IdleClient, WiresTyped DEF IInv, ClientInv, PipesInv, ServerStep
<1>2. ASSUME NEW m \in Requests' PROVE AskedBy(m)'
  BY <1>1, ServerRequests, AskedStays DEF Requests, IInv, MessagesInv
<1>3. ASSUME NEW m \in Responses' PROVE AnswerTo(m)'
  <2>1. CASE m \in Responses
    BY <1>1, <2>1, AnswerStays DEF Responses, IInv, MessagesInv
  <2>2. CASE Handles /\ out' = <<m>>
    <3> DEFINE q == Head(todo)
    <3>1. q \in S!Single /\ 1 \in DOMAIN todo /\ q = todo[1] /\ out = <<>>
      BY <1>1, <2>2, OneItem, FirstItem DEF ServerInv, Handles
    <3>2. IF q.kind = "request" THEN m.id = q.id /\ m.reply \in S!ReplyTo(q.ask) ELSE m.id = 0
      <4>1. out' # <<>> /\ out' \in S!Responses(q)
        BY <2>2 DEF Handles
      <4>2. PICK a \in S!Response :
                /\ out' = <<a>>
                /\ IF q.kind = "request" THEN a.id = q.id /\ a.reply \in S!ReplyTo(q.ask)
                                         ELSE a.id = 0
        BY <3>1, <4>1, ResponsesOf
      <4>3. a = m
        BY <2>2, <4>2
      <4> QED BY <4>2, <4>3
    <3>3. CASE q.kind # "request"
      BY <3>2, <3>3 DEF AnswerTo
    <3>4. CASE q.kind = "request"
      <4>1. q \in Requests
        BY <3>1, <3>4, SameMessages DEF Requests
      <4>2. AskedBy(q)
        BY <4>1 DEF IInv, MessagesInv
      <4>3. m.reply = "result" /\ q.ask = InitQuestion => welcomed'
        BY <1>1, <2>2, <3>1, <3>4 DEF ServerStep, Accepts, Handles
      <4>4. \A c \in Callers : job[c] = "initialize" /\ myId[c] # 0 => ask[c] = InitQuestion
        BY DEF IInv, MessagesInv
      <4> QED BY <1>1, <3>2, <3>4, <4>2, <4>3, <4>4 DEF AskedBy, AnswerTo, clientOnly
    <3> QED BY <3>3, <3>4
  <2> QED BY <1>1, <2>1, <2>2, ServerResponses
<1>4. \A c \in Callers : job'[c] = "initialize" /\ myId'[c] # 0 => ask'[c] = InitQuestion
  BY <1>1 DEF IInv, MessagesInv, clientOnly
<1>5. InitializedAfterWelcome'
  <2>1. ASSUME NEW i \in DOMAIN toServer'.queue, toServer'.queue[i].kind = "initialized"
        PROVE  welcomed
    <3>1. toServer.queue \in Seq(CP!FromClient)
      BY <1>1 DEF Wires, Pipes
    <3>2. CASE toServer'.queue = toServer.queue
      BY <2>1, <3>2 DEF IInv, InitializedAfterWelcome
    <3>3. CASE toServer'.queue = Tail(toServer.queue) /\ toServer.queue # <<>>
      BY <2>1, <3>1, <3>3, TakenItem DEF IInv, InitializedAfterWelcome
    <3> QED
      BY <1>1, <3>2, <3>3 DEF Reads, Handles, Responds, Stays, Take, AwaitData, Wires, Pipes
  <2> QED BY <1>1, <2>1 DEF IInv, InitializedAfterWelcome, clientOnly
<1> QED BY <1>2, <1>3, <1>4, <1>5 DEF MessagesInv

-----------------------------------------------------------------------------
(***************************************************************************)
(* The places of a request and its response.                               *)
(***************************************************************************)
InBuffer(id, x) ==
    \E l \in Loops :
        /\ loop[l] # "ended"
        /\ \E i \in DOMAIN buffer[l] :
              x = <<l, i>> /\ buffer[l][i].kind = "response" /\ buffer[l][i].id = id

InPlace(id, s, x) ==
    \/ s = "toServer" /\ x \in DOMAIN toServer.queue
       /\ toServer.queue[x].kind = "request" /\ toServer.queue[x].id = id
    \/ s = "todo" /\ x \in DOMAIN todo /\ todo[x].kind = "request" /\ todo[x].id = id
    \/ s = "out" /\ x \in DOMAIN out /\ out[x].kind = "response" /\ out[x].id = id
    \/ s = "toClient" /\ x \in DOMAIN toClient.queue
       /\ toClient.queue[x].kind = "response" /\ toClient.queue[x].id = id
    \/ s = "buffer" /\ InBuffer(id, x)
    \/ s = "readLoop" /\ x \in Loops /\ loop[x] \in {"lookup", "deliver"} /\ line[x].id = id
    \/ s = "channel" /\ x \in Callers /\ myId[x] = id /\ chan[id] = "full"

OnePlace(id) ==
    \A s, x, t, y : InPlace(id, s, x) /\ InPlace(id, t, y) => s = t /\ x = y
SomePlace(id) == \E s, x : InPlace(id, s, x)

LEMMA PlacesAre ==
    ASSUME NEW id, NEW p
    PROVE  p \in Places(id) <=> \E s, x : p = <<s, x>> /\ InPlace(id, s, x)
<1> DEFINE Running == {k \in Loops : loop[k] # "ended"}
           Read == UNION {{l} \X At(buffer[l], "response", id) : l \in Running}
<1>1. ASSUME NEW x PROVE x \in Read <=> InBuffer(id, x)
  BY DEF InBuffer, At
<1> HIDE DEF Read
<1>2. Places(id) =
          ({"toServer"} \X At(toServer.queue, "request", id))
          \cup ({"todo"} \X At(todo, "request", id))
          \cup ({"out"} \X At(out, "response", id))
          \cup ({"toClient"} \X At(toClient.queue, "response", id))
          \cup ({"buffer"} \X Read)
          \cup ({"readLoop"} \X {l \in Loops : loop[l] \in {"lookup", "deliver"}
                                               /\ line[l].id = id})
          \cup ({"channel"} \X {c \in Callers : myId[c] = id /\ chan[id] = "full"})
  BY DEF Places, Read
<1> QED BY <1>1, <1>2 DEF InPlace, At

\* Whether a line is in a buffer depends only on these.
LEMMA SameBuffers ==
    ASSUME UNCHANGED buffer, \A l \in Loops : loop'[l] = "ended" <=> loop[l] = "ended"
    PROVE  \A id, x : InBuffer(id, x)' <=> InBuffer(id, x)
  BY DEF InBuffer

LEMMA PlacesCount ==
    \A id : (Single(id) <=> OnePlace(id)) /\ (Places(id) # {} <=> SomePlace(id))
<1> TAKE id
<1>1. ASSUME Single(id) PROVE OnePlace(id)
  <2> SUFFICES ASSUME NEW s, NEW x, NEW t, NEW y, InPlace(id, s, x), InPlace(id, t, y)
               PROVE  s = t /\ x = y
    BY DEF OnePlace
  <2>1. <<s, x>> \in Places(id) /\ <<t, y>> \in Places(id)
    BY PlacesAre
  <2>2. <<s, x>> = <<t, y>>
    BY <1>1, <2>1 DEF Single
  <2> QED BY <2>2
<1>2. ASSUME OnePlace(id) PROVE Single(id)
  <2> SUFFICES ASSUME NEW p \in Places(id), NEW q \in Places(id) PROVE p = q
    BY DEF Single
  <2>1. PICK s, x : p = <<s, x>> /\ InPlace(id, s, x)
    BY PlacesAre
  <2>2. PICK t, y : q = <<t, y>> /\ InPlace(id, t, y)
    BY PlacesAre
  <2> QED BY <1>2, <2>1, <2>2 DEF OnePlace
<1>3. Places(id) # {} <=> SomePlace(id)
  <2>1. ASSUME NEW p \in Places(id) PROVE SomePlace(id)
    BY PlacesAre DEF SomePlace
  <2>2. ASSUME NEW s, NEW x, InPlace(id, s, x) PROVE <<s, x>> \in Places(id)
    BY <2>2, PlacesAre
  <2> QED BY <2>1, <2>2 DEF SomePlace
<1> QED BY <1>1, <1>2, <1>3

LEMMA PlacesCountNext ==
    (\A id : (Single(id) <=> OnePlace(id)) /\ (Places(id) # {} <=> SomePlace(id)))'
  BY PlacesCount, PTL

\* A request that is not yet written is nowhere.
LEMMA Unwritten ==
    ASSUME IInv, NEW c \in Callers, pc[c] \in Writing, myId[c] # 0
    PROVE  ~SomePlace(myId[c])
<1> SUFFICES ASSUME NEW s, NEW x, InPlace(myId[c], s, x) PROVE FALSE
  BY DEF SomePlace
<1>1. ASSUME NEW m \in Requests, m.id = myId[c] PROVE FALSE
  BY <1>1 DEF IInv, MessagesInv, AskedBy
<1>2. ASSUME NEW m \in Responses, m.id = myId[c] PROVE FALSE
  <2>1. AnswerTo(m)
    BY DEF IInv, MessagesInv
  <2> QED BY <1>2, <2>1 DEF AnswerTo
<1>3. Wires /\ ServerInv /\ PipesInv /\ CarriedInv /\ myId[c] \in CP!Ids
      /\ CP!SentInv
  BY WiresTyped DEF IInv, ClientInv, CP!TypeInv, CP!TypeOK, CP!TableInv
<1>4. CASE s = "toServer"
  <2> DEFINE m == toServer.queue[x]
  <2>1. m \in CP!Request /\ m.id = myId[c] /\ x \in DOMAIN toServer.queue
    BY <1>3, <1>4, SameMessages DEF InPlace, Wires, Pipes
  <2>2. m \in Requests
    BY <2>1 DEF Requests
  <2> QED BY <1>1, <2>1, <2>2
<1>5. CASE s = "todo"
  <2> DEFINE m == todo[x]
  <2>1. m \in CP!Request /\ m.id = myId[c] /\ x \in DOMAIN todo
    BY <1>3, <1>5, SameMessages DEF InPlace, ServerInv
  <2>2. m \in Requests
    BY <2>1 DEF Requests
  <2> QED BY <1>1, <2>1, <2>2
<1>6. CASE s = "out"
  <2> DEFINE m == out[x]
  <2>1. m \in S!Response /\ m.id = myId[c] /\ x \in DOMAIN out
    BY <1>3, <1>6 DEF InPlace, ServerInv
  <2>2. m \in Responses
    BY <2>1 DEF Responses
  <2> QED BY <1>2, <2>1, <2>2
<1>7. CASE s = "toClient"
  <2> DEFINE m == toClient.queue[x]
  <2>1. m \in S!Response /\ m.id = myId[c] /\ x \in DOMAIN toClient.queue
    BY <1>3, <1>7 DEF InPlace, PipesInv
  <2>2. m \in Responses
    BY <2>1 DEF Responses
  <2> QED BY <1>2, <2>1, <2>2
<1>8. CASE s = "readLoop"
  <2>1. line[x] \in S!Response /\ line[x].id = myId[c] /\ x \in Loops /\ loop[x] \in Holding
    BY <1>3, <1>8 DEF InPlace, CarriedInv, Holding
  <2>2. line[x] \in Responses
    BY <2>1 DEF Responses
  <2> QED BY <1>2, <2>1, <2>2
<1>9. CASE s = "channel"
  <2> DEFINE id == myId[c]
  <2>1. id \in CP!Ids /\ chan[id] = "full" /\ sent[id] \in S!Response /\ sent[id].id = id
    BY <1>3, <1>9 DEF InPlace, CarriedInv, CP!SentInv
  <2>2. sent[id] \in Responses
    BY <2>1 DEF Responses
  <2> QED BY <1>2, <2>1, <2>2
<1>10. CASE s = "buffer"
  <2>1. PICK l \in Loops : \E i \in DOMAIN buffer[l] :
                x = <<l, i>> /\ buffer[l][i].kind = "response" /\ buffer[l][i].id = myId[c]
    BY <1>10 DEF InPlace, InBuffer
  <2>2. PICK i \in DOMAIN buffer[l] :
                buffer[l][i].kind = "response" /\ buffer[l][i].id = myId[c]
    BY <2>1
  <2>3. buffer[l][i] \in CP!FromServer
    BY ReadersTyped
  <2>4. buffer[l][i] \in Responses
    BY <2>2, <2>3, LineOfServer DEF Responses
  <2> QED BY <1>2, <2>2, <2>4
<1> QED BY <1>4, <1>5, <1>6, <1>7, <1>8, <1>9, <1>10 DEF InPlace

LEMMA FewerPlaces ==
    ASSUME NEW id, OnePlace(id), \A s, x : InPlace(id, s, x)' => InPlace(id, s, x)
    PROVE  OnePlace(id)'
  BY DEF OnePlace

\* The server moves a request, makes a response in its place, or moves that.
LEMMA ServerPlaces ==
    ASSUME IInv, ServerStep, Reads \/ Handles \/ Responds \/ Stays, NEW id \in CP!Ids
    PROVE  OnePlace(id)' /\ (SomePlace(id) <=> SomePlace(id)')
<1>1. /\ Wires /\ ServerInv /\ toClient.queue \in Seq(S!Response) /\ OnePlace(id)
      /\ UNCHANGED clientOnly /\ id # 0 /\ (\A x : InBuffer(id, x)' <=> InBuffer(id, x))
  BY WiresTyped, PlacesCount, SameBuffers, StdioSystemAssumption
     DEF IInv, ClientInv, PipesInv, PlacesInv, ServerStep, CP!Ids, clientOnly
<1>2. CASE Reads
  <2> DEFINE q == toServer.queue
  <2>1. q \in Seq(CP!FromClient) /\ q # <<>> /\ toServer'.queue = Tail(q)
        /\ todo' = <<Head(q)>> /\ todo = <<>> /\ UNCHANGED <<out, toClient>>
    <3>1. todo = <<>>
      BY <1>1, <1>2 DEF Reads, ServerInv
    <3> QED BY <1>1, <1>2, <3>1 DEF Reads, Take, Wires, Pipes
  <2>2. ASSUME NEW s, NEW x, InPlace(id, s, x)'
        PROVE  \/ s = "toServer" /\ x \in Nat /\ x # 0 /\ InPlace(id, "toServer", x + 1)
               \/ s = "todo" /\ x = 1 /\ InPlace(id, "toServer", 1)
               \/ s \notin {"toServer", "todo"} /\ InPlace(id, s, x)
    <3>1. CASE s = "toServer"
      <4>1. x \in DOMAIN Tail(q) /\ Tail(q)[x].kind = "request" /\ Tail(q)[x].id = id
        BY <2>1, <2>2, <3>1 DEF InPlace
      <4>2. x \in Nat /\ x # 0 /\ x + 1 \in DOMAIN q /\ Tail(q)[x] = q[x + 1]
        BY <2>1, <4>1, TakenItem
      <4> QED BY <3>1, <4>1, <4>2 DEF InPlace
    <3>2. CASE s = "todo"
      BY <2>1, <2>2, <3>2, FirstItem DEF InPlace
    <3>3. CASE s \notin {"toServer", "todo"}
      BY <1>1, <2>1, <2>2, <3>3 DEF InPlace, clientOnly
    <3> QED BY <3>1, <3>2, <3>3
  <2>3. OnePlace(id)'
    <3> SUFFICES ASSUME NEW s, NEW x, NEW t, NEW y, InPlace(id, s, x)', InPlace(id, t, y)'
                 PROVE  s = t /\ x = y
      BY DEF OnePlace
    <3> QED BY <1>1, <2>2 DEF OnePlace
  <2>4. ASSUME NEW s, NEW x, InPlace(id, s, x) PROVE SomePlace(id)'
    <3>1. CASE s = "toServer" /\ x = 1
      <4>1. InPlace(id, "todo", 1)'
        BY <2>1, <2>4, <3>1, FirstItem DEF InPlace
      <4> QED BY <4>1 DEF SomePlace
    <3>2. CASE s = "toServer" /\ x # 1
      <4>1. x \in DOMAIN q /\ q[x].kind = "request" /\ q[x].id = id
        BY <2>4, <3>2 DEF InPlace
      <4>2. x - 1 \in DOMAIN Tail(q) /\ Tail(q)[x - 1] = q[x]
        BY <2>1, <3>2, <4>1
      <4>3. InPlace(id, "toServer", x - 1)'
        BY <2>1, <4>1, <4>2 DEF InPlace
      <4> QED BY <4>3 DEF SomePlace
    <3>3. CASE s # "toServer"
      <4>1. InPlace(id, s, x)'
        BY <1>1, <2>1, <2>4, <3>3 DEF InPlace, clientOnly
      <4> QED BY <4>1 DEF SomePlace
    <3> QED BY <3>1, <3>2, <3>3
  <2> QED BY <2>2, <2>3, <2>4 DEF SomePlace
<1>3. CASE Handles
  <2> DEFINE q == Head(todo)
  <2>1. /\ q \in S!Single /\ todo[1] = q /\ out = <<>> /\ todo' = <<>> /\ 1 \in DOMAIN todo
        /\ \A i \in DOMAIN todo : i = 1
        /\ UNCHANGED <<toServer, toClient>>
    <3>1. todo \in Seq(S!Single) /\ Len(todo) = 1 /\ out = <<>>
      BY <1>1, <1>3 DEF ServerInv, Handles
    <3>2. q \in S!Single /\ todo[1] = q
      BY <3>1, OneItem
    <3>3. DOMAIN todo = {1}
      BY <3>1
    <3> QED BY <1>3, <3>1, <3>2, <3>3 DEF Handles
  <2>2. \/ out' = <<>> /\ q.kind # "request"
        \/ \E a \in S!Response : out' = <<a>> /\ a.id = IF q.kind = "request" THEN q.id ELSE 0
    BY <1>3, <2>1, ResponsesOf DEF Handles
  <2>3. ASSUME NEW s, NEW x, InPlace(id, s, x)'
        PROVE  \/ s = "out" /\ x = 1 /\ InPlace(id, "todo", 1)
               \/ s \notin {"out", "todo"} /\ InPlace(id, s, x)
    <3>1. CASE s = "out"
      <4>1. x = 1 /\ out'[1].id = id /\ out' # <<>>
        BY <2>2, <2>3, <3>1 DEF InPlace
      <4>2. q.kind = "request" /\ q.id = id
        BY <1>1, <2>2, <4>1
      <4> QED BY <2>1, <3>1, <4>1, <4>2 DEF InPlace
    <3>2. CASE s # "out"
      BY <1>1, <2>1, <2>3, <3>2 DEF InPlace, clientOnly
    <3> QED BY <3>1, <3>2
  <2>4. OnePlace(id)'
    <3> SUFFICES ASSUME NEW s, NEW x, NEW t, NEW y, InPlace(id, s, x)', InPlace(id, t, y)'
                 PROVE  s = t /\ x = y
      BY DEF OnePlace
    <3> QED BY <1>1, <2>3 DEF OnePlace
  <2>5. ASSUME NEW s, NEW x, InPlace(id, s, x) PROVE SomePlace(id)'
    <3>1. CASE s = "todo"
      <4>1. q.kind = "request" /\ q.id = id
        BY <2>1, <2>5, <3>1 DEF InPlace
      <4>2. PICK a \in S!Response : out' = <<a>> /\ a.id = id
        BY <2>2, <4>1
      <4>3. InPlace(id, "out", 1)'
        BY <4>2 DEF InPlace, S!Response
      <4> QED BY <4>3 DEF SomePlace
    <3>2. CASE s # "todo"
      <4>1. InPlace(id, s, x)'
        BY <1>1, <2>1, <2>5, <3>2 DEF InPlace, clientOnly
      <4> QED BY <4>1 DEF SomePlace
    <3> QED BY <3>1, <3>2
  <2> QED BY <2>3, <2>4, <2>5 DEF SomePlace
<1>4. CASE Responds
  <2> DEFINE q == toClient.queue
             L == Len(q) + 1
  <2>1. /\ q \in Seq(S!Response) /\ toClient'.queue = Append(q, Head(out)) /\ out' = <<>>
        /\ 1 \in DOMAIN out /\ out[1] = Head(out) /\ UNCHANGED <<todo, toServer>>
        /\ \A i \in DOMAIN out : i = 1
    <3>1. out \in Seq(S!Response) /\ Len(out) = 1
      BY <1>1, <1>4 DEF ServerInv, Responds
    <3>2. DOMAIN out = {1} /\ out[1] = Head(out)
      BY <3>1, OneItem
    <3> QED BY <1>1, <1>4, <3>2 DEF Responds, Put, Wires, Pipes
  <2>2. ASSUME NEW s, NEW x, InPlace(id, s, x)'
        PROVE  \/ s = "toClient" /\ x = L /\ InPlace(id, "out", 1)
               \/ s # "out" /\ InPlace(id, s, x)
    <3>1. CASE s = "toClient"
      BY <2>1, <2>2, <3>1, PutItem DEF InPlace
    <3>2. CASE s # "toClient"
      BY <1>1, <2>1, <2>2, <3>2 DEF InPlace, clientOnly
    <3> QED BY <3>1, <3>2
  <2>3. OnePlace(id)'
    <3> SUFFICES ASSUME NEW s, NEW x, NEW t, NEW y, InPlace(id, s, x)', InPlace(id, t, y)'
                 PROVE  s = t /\ x = y
      BY DEF OnePlace
    <3> QED BY <1>1, <2>2 DEF OnePlace
  <2>4. ASSUME NEW s, NEW x, InPlace(id, s, x) PROVE SomePlace(id)'
    <3>1. CASE s = "out"
      <4>1. L \in DOMAIN toClient'.queue /\ toClient'.queue[L] = Head(out)
        BY <2>1, AddedItem
      <4>2. Head(out).kind = "response" /\ Head(out).id = id
        BY <2>1, <2>4, <3>1 DEF InPlace
      <4>3. PICK k : k = L
        OBVIOUS
      <4>4. InPlace(id, "toClient", k)'
        BY <4>1, <4>2, <4>3 DEF InPlace
      <4> QED BY <4>4 DEF SomePlace
    <3>2. CASE s = "toClient"
      <4>1. x \in DOMAIN q
        BY <2>4, <3>2 DEF InPlace
      <4>2. x \in DOMAIN toClient'.queue /\ toClient'.queue[x] = q[x]
        BY <2>1, <4>1, KeptItem
      <4>3. InPlace(id, s, x)'
        BY <2>4, <3>2, <4>2 DEF InPlace
      <4> QED BY <4>3 DEF SomePlace
    <3>3. CASE s \notin {"out", "toClient"}
      <4>1. InPlace(id, s, x)'
        BY <1>1, <2>1, <2>4, <3>3 DEF InPlace, clientOnly
      <4> QED BY <4>1 DEF SomePlace
    <3> QED BY <3>1, <3>2, <3>3
  <2> QED BY <2>2, <2>3, <2>4 DEF SomePlace
<1>5. CASE Stays
  <2>1. toServer'.queue = toServer.queue /\ UNCHANGED <<todo, out, toClient>>
    BY <1>1, <1>5 DEF Stays, AwaitData, Wires, Pipes
  <2>2. \A s, x : InPlace(id, s, x)' <=> InPlace(id, s, x)
    BY <1>1, <2>1 DEF InPlace, clientOnly
  <2> QED BY <1>1, <2>2, FewerPlaces DEF SomePlace
<1> QED BY <1>2, <1>3, <1>4, <1>5

\* What the client does with the responses it has: buffers, loops and channels
\* keep them, or loops drop those that nobody waits for.
Given == {"lookup", "deliver"}

LoopsCarry ==
    \A l \in Loops :
        /\ loop'[l] \in Holding => loop[l] \in Holding /\ line'[l] = line[l]
        /\ loop'[l] \in Given => loop[l] \in Given
        /\ loop'[l] = "delete" => loop[l] = "delete" \/ chan[line[l].id] = "full"
        /\ loop[l] \in Given =>
              \/ loop'[l] \in Given
              \/ line[l].id \notin pending
              \/ chan[line[l].id] = "full"

ChannelsCarry ==
    \A id \in CP!Ids : chan'[id] = "full" => chan[id] = "full" /\ sent'[id] = sent[id]

BuffersCarry ==
    /\ buffer' = buffer
    /\ \A l \in Loops : loop[l] = "ended" => loop'[l] = "ended"

\* A loop that takes, hands over or reads lines.
Moves(l) == TakesLine(l) \/ CP!Deliver(l) \/ CP!Fill(l)

LEMMA ClientLoops ==
    ASSUME IInv, CP!Next, \A l \in Loops : ~Moves(l)
    PROVE  LoopsCarry /\ ChannelsCarry /\ BuffersCarry /\ toClient'.queue = toClient.queue
<1> USE DEF CP!table, CP!callers, CP!loops, CP!scanners, CP!pipes, Holding, Given
<1> DEFINE Carry == /\ LoopsCarry /\ ChannelsCarry /\ BuffersCarry
                    /\ toClient'.queue = toClient.queue
<1>1. /\ loop \in [Loops -> {"off", "top", "scan", "handler", "lookup", "deliver", "delete",
                            "ended"}]
      /\ line \in [Loops -> S!Response \cup {NoOne}]
      /\ chan \in [CP!Ids -> {"none", "open", "full", "closed"}]
      /\ sent \in [CP!Ids -> S!Response \cup {NoOne}]
      /\ nextID \in Nat
  BY SameMessages DEF IInv, ClientInv, CP!TypeInv, CP!TypeOK
<1>2. ASSUME UNCHANGED <<loop, line, buffer, chan, sent, toClient>> PROVE Carry
  BY <1>2 DEF LoopsCarry, ChannelsCarry, BuffersCarry
<1>3. ASSUME NEW c \in Callers, NEW q, CP!Register(c, q) PROVE ChannelsCarry
  BY <1>1, <1>3, StdioSystemAssumption DEF CP!Register, CP!AtomicAdd, CP!Ids, ChannelsCarry
<1>4. ASSUME NEW c \in Callers, CP!CallerStep(c) PROVE Carry
  <2>1. CASE \E q \in Questions : CP!SendRequest(c, q)
    BY <2>1, <1>3 DEF CP!SendRequest, LoopsCarry, BuffersCarry
  <2>2. CASE \E l \in Loops : CP!Initialize(c, l)
    BY <2>2, <1>1, <1>3 DEF CP!Initialize, LoopsCarry, BuffersCarry
  <2>3. CASE CP!ListAsks(c)
    BY <2>3, <1>3 DEF CP!ListAsks, LoopsCarry, BuffersCarry
  <2>4. CASE \/ \E n \in Notices : CP!SendNotification(c, n)
             \/ CP!MarshalFails(c) \/ CP!LockForWrite(c) \/ CP!Write(c) \/ CP!WriteFails(c)
             \/ CP!GiveUp(c)
             \/ CP!ListTools(c) \/ CP!ListCrashes(c) \/ CP!ListSaves(c) \/ CP!ContextEnds(c)
    BY <2>4, <1>2 DEF CP!SendNotification, CP!MarshalFails, CP!LockForWrite, CP!Write,
       CP!WriteFails, CP!GiveUp, CP!ListTools, CP!ListCrashes, CP!ListSaves, CP!ContextEnds
  <2>5. CASE \E l \in Loops : CP!InitializeUnset(c, l)
    BY <2>5, <1>1 DEF CP!InitializeUnset, LoopsCarry, ChannelsCarry, BuffersCarry
  <2>6. CASE CP!Cleanup(c)
    BY <2>6, <1>1 DEF CP!Cleanup, CP!RemoveEntry, LoopsCarry, ChannelsCarry, BuffersCarry
  <2>7. CASE CP!ReceiveResponse(c)
    BY <2>7, <1>1 DEF CP!ReceiveResponse, LoopsCarry, ChannelsCarry, BuffersCarry
  <2> QED BY <1>4, <2>1, <2>2, <2>3, <2>4, <2>5, <2>6, <2>7 DEF CP!CallerStep
<1>5. ASSUME NEW l \in Loops, CP!LoopStep(l) PROVE Carry
  <2>1. CASE CP!LoopTop(l)
    <3>1. toClient' = toClient \/ toClient' = CP!AwaitData(toClient)
      BY <2>1 DEF CP!LoopTop
    <3>2. toClient'.queue = toClient.queue
      BY <3>1, WiresTyped DEF IInv, ClientInv, Wires, Pipes, CP!AwaitData
    <3> QED BY <2>1, <3>2, <1>1 DEF CP!LoopTop, LoopsCarry, ChannelsCarry, BuffersCarry
  <2>2. CASE CP!LoopContextEnds(l) \/ CP!DeliverPanics(l)
    BY <2>2, <1>2 DEF CP!LoopContextEnds, CP!DeliverPanics
  <2>4. CASE CP!HandlerReturns(l) \/ CP!ScanEOF(l)
    BY <2>4, <1>1 DEF CP!HandlerReturns, CP!ContinueOnError, CP!ScanEOF, CP!Blocked,
       LoopsCarry, ChannelsCarry, BuffersCarry
  <2>5. CASE CP!DeliverTimeout(l)
    BY <2>5, <1>1 DEF CP!DeliverTimeout, LoopsCarry, ChannelsCarry, BuffersCarry
  <2>3. CASE CP!Lookup(l) \/ CP!Delete(l)
    BY <2>3, <1>1 DEF CP!Lookup, CP!ContinueOnUnknown, CP!Delete, LoopsCarry, ChannelsCarry, BuffersCarry
  <2> QED BY <1>5, <2>1, <2>2, <2>3, <2>4, <2>5, OnlyResponses DEF CP!LoopStep, Moves, TakesLine
<1> QED BY <1>4, <1>5 DEF CP!Next

\* The channel of a call that waits stays full, and its entry stays in the map
\* until the channel is full.
TableKeeps ==
    \A c \in Callers :
        Unanswered(c) /\ Unanswered(c)' /\ myId'[c] = myId[c] =>
            /\ chan[myId[c]] = "full" => chan'[myId[c]] = "full"
            /\ myId[c] \in pending => myId[c] \in pending' \/ chan[myId[c]] = "full"

LEMMA ClientTable ==
    ASSUME IInv, CP!Next
    PROVE  TableKeeps
<1> USE DEF CP!table, CP!callers, CP!loops, CP!pipes
<1> SUFFICES ASSUME NEW c \in Callers, Unanswered(c), Unanswered(c)', myId'[c] = myId[c]
             PROVE  /\ chan[myId[c]] = "full" => chan'[myId[c]] = "full"
                    /\ myId[c] \in pending => myId[c] \in pending' \/ chan[myId[c]] = "full"
  BY DEF TableKeeps
<1> DEFINE Keeps == /\ chan[myId[c]] = "full" => chan'[myId[c]] = "full"
                    /\ myId[c] \in pending => myId[c] \in pending' \/ chan[myId[c]] = "full"
<1>1. /\ chan \in [CP!Ids -> {"none", "open", "full", "closed"}] /\ nextID \in Nat
      /\ myId \in [Callers -> CP!Ids \cup {0}] /\ myId[c] \in CP!Ids /\ myId[c] <= nextID
      /\ pc \in [Callers -> {"idle", "next", "write", "writing", "waiting", "cleanup", "save"}]
      /\ \A d \in Callers \ {c} : myId[d] # myId[c]
  BY DEF IInv, ClientInv, CP!TypeInv, CP!TypeOK, CP!TableInv, CP!IdInv, CP!IdsDistinct,
     CP!InFlight, Unanswered
<1>2. ASSUME NEW d \in Callers, NEW q, CP!Register(d, q) PROVE Keeps
  BY <1>1, <1>2 DEF CP!Register, CP!AtomicAdd, CP!Ids
<1>3. ASSUME NEW d \in Callers, CP!CallerStep(d) PROVE Keeps
  <2>1. CASE (\E q \in Questions : CP!SendRequest(d, q)) \/ (\E l \in Loops : CP!Initialize(d, l))
             \/ CP!ListAsks(d)
    BY <2>1, <1>2 DEF CP!SendRequest, CP!Initialize, CP!ListAsks
  <2>2. CASE \/ \E n \in Notices : CP!SendNotification(d, n)
             \/ \E l \in Loops : CP!InitializeUnset(d, l)
             \/ CP!MarshalFails(d) \/ CP!LockForWrite(d) \/ CP!Write(d) \/ CP!WriteFails(d)
             \/ CP!GiveUp(d)
             \/ CP!ListTools(d) \/ CP!ListCrashes(d) \/ CP!ListSaves(d) \/ CP!ContextEnds(d)
    BY <2>2 DEF CP!SendNotification, CP!InitializeUnset, CP!MarshalFails, CP!LockForWrite,
       CP!Write, CP!WriteFails, CP!GiveUp, CP!ListTools, CP!ListCrashes, CP!ListSaves, CP!ContextEnds
  <2>3. CASE CP!Cleanup(d)
    <3>1. d # c
      BY <2>3, <1>1 DEF CP!Cleanup, CP!Ids
    <3> QED BY <2>3, <3>1, <1>1 DEF CP!Cleanup, CP!RemoveEntry
  <2>4. CASE CP!ReceiveResponse(d)
    <3>1. d # c
      BY <2>4, <1>1 DEF CP!ReceiveResponse, Unanswered
    <3> QED BY <2>4, <3>1, <1>1 DEF CP!ReceiveResponse, CP!OwnRequest
  <2> QED BY <1>3, <2>1, <2>2, <2>3, <2>4 DEF CP!CallerStep
<1>4. ASSUME NEW l \in Loops, CP!LoopStep(l) PROVE Keeps
  <2>1. CASE CP!LoopTop(l) \/ CP!Fill(l) \/ CP!Scan(l) \/ CP!Skim(l)
             \/ CP!LoopContextEnds(l) \/ CP!HandlerReturns(l) \/ CP!ScanEOF(l) \/ CP!DeliverTimeout(l) \/ CP!DeliverPanics(l) \/ CP!Lookup(l)
    BY <2>1 DEF CP!LoopTop, CP!Fill, CP!Scan, CP!Skim, CP!NextLine, CP!LoopContextEnds,
       CP!HandlerReturns, CP!ScanEOF, CP!DeliverTimeout, CP!DeliverPanics, CP!Lookup
  <2>2. CASE CP!Deliver(l)
    BY <2>2, <1>1 DEF CP!Deliver
  <2>3. CASE CP!Delete(l)
    BY <2>3, <1>1 DEF CP!Delete, CP!DropEntry, IInv, PlacesInv, HeldInv
  <2> QED BY <1>4, <2>1, <2>2, <2>3, OnlyResponses DEF CP!LoopStep
<1> QED BY <1>3, <1>4 DEF CP!Next

LEMMA ClientCarried ==
    ASSUME IInv, CP!Next
    PROVE  CarriedInv'
<1>1. /\ loop \in [Loops -> {"off", "top", "scan", "handler", "lookup", "deliver", "delete",
                            "ended"}]
      /\ line \in [Loops -> S!Response \cup {NoOne}]
      /\ chan \in [CP!Ids -> {"none", "open", "full", "closed"}]
      /\ sent \in [CP!Ids -> S!Response \cup {NoOne}]
      /\ toClient.queue \in Seq(S!Response) /\ CarriedInv
  BY SameMessages DEF IInv, ClientInv, CP!TypeInv, CP!TypeOK, PipesInv
<1>2. CASE \E l \in Loops : TakesLine(l)
  <2>1. PICK l \in Loops : TakesLine(l)
    BY <1>2
  <2>2. \A k \in Loops : loop'[k] \in Holding => line'[k] \in S!Response
    BY <1>1, <2>1, LineTaken DEF CarriedInv, Holding
  <2> QED BY <1>1, <2>1, <2>2, LineTaken DEF CarriedInv
<1>3. CASE \E l \in Loops : CP!Deliver(l)
  BY <1>1, <1>3 DEF CarriedInv, CP!Deliver, Holding
<1>4. CASE \E l \in Loops : CP!Fill(l)
  BY <1>1, <1>4, FillMoves DEF CarriedInv
<1>5. CASE \A l \in Loops : ~Moves(l)
  BY <1>1, <1>5, ClientLoops DEF LoopsCarry, ChannelsCarry, CarriedInv
<1> QED BY <1>2, <1>3, <1>4, <1>5 DEF Moves

-----------------------------------------------------------------------------
(***************************************************************************)
(* The client, as the places see it: the write of a request makes one, and *)
(* readLoop moves the response on.                                         *)
(***************************************************************************)
LEMMA WritePlaces ==
    ASSUME IInv, UNCHANGED serverOnly, NEW c \in Callers, CP!Write(c), NEW id \in CP!Ids
    PROVE  /\ OnePlace(id)'
           /\ SomePlace(id)' <=> SomePlace(id) \/ (CP!IsRequest(c) /\ id = myId[c])
<1> DEFINE q == toServer.queue
<1>1. /\ q \in Seq(CP!FromClient) /\ toServer'.queue = Append(q, CP!Outgoing(c))
      /\ UNCHANGED <<chan, myId, loop, line, buffer, todo, out, toClient>>
      /\ \A x : InBuffer(id, x)' <=> InBuffer(id, x)
  <2>1. /\ q \in Seq(CP!FromClient) /\ toServer'.queue = Append(q, CP!Outgoing(c))
        /\ UNCHANGED <<chan, myId, loop, line, buffer, todo, out, toClient>>
    BY WiresTyped DEF IInv, ClientInv, Wires, Pipes, CP!Write, CP!Put, CP!table, CP!loops,
       CP!scanners, serverOnly
  <2> QED BY <2>1, SameBuffers
<1>2. OnePlace(id) /\ (CP!IsRequest(c) => ~SomePlace(myId[c]))
  <2>1. OnePlace(id)
    BY PlacesCount DEF IInv, PlacesInv
  <2>2. pc[c] \in Writing /\ (CP!IsRequest(c) => myId[c] # 0)
    BY DEF CP!Write, Writing, IInv, ClientInv, CP!TypeInv, CP!CallInv
  <2> QED BY <2>1, <2>2, Unwritten
<1>3. CP!Outgoing(c).kind = "request" <=> CP!IsRequest(c)
  BY StdioSystemAssumption DEF CP!Outgoing, CP!IsRequest, CP!Requests, CP!Listings
<1>4. CP!IsRequest(c) => CP!Outgoing(c).id = myId[c]
  BY DEF CP!Outgoing
<1>5. ASSUME NEW s, NEW x, InPlace(id, s, x)'
      PROVE  \/ InPlace(id, s, x)
             \/ s = "toServer" /\ x = Len(q) + 1 /\ CP!IsRequest(c) /\ id = myId[c]
  <2>1. CASE s = "toServer"
    BY <1>1, <1>3, <1>4, <1>5, <2>1, PutItem DEF InPlace
  <2>2. CASE s # "toServer"
    BY <1>1, <1>5, <2>2 DEF InPlace
  <2> QED BY <2>1, <2>2
<1>6. OnePlace(id)'
  <2> SUFFICES ASSUME NEW s, NEW x, NEW t, NEW y, InPlace(id, s, x)', InPlace(id, t, y)'
               PROVE  s = t /\ x = y
    BY DEF OnePlace
  <2> QED BY <1>2, <1>5 DEF OnePlace, SomePlace
<1>7. ASSUME NEW s, NEW x, InPlace(id, s, x) PROVE SomePlace(id)'
  <2>1. CASE s = "toServer"
    <3>1. x \in DOMAIN q
      BY <1>7, <2>1 DEF InPlace
    <3>2. x \in DOMAIN toServer'.queue /\ toServer'.queue[x] = q[x]
      BY <1>1, <3>1, KeptItem
    <3>3. InPlace(id, s, x)'
      BY <1>7, <2>1, <3>2 DEF InPlace
    <3> QED BY <3>3 DEF SomePlace
  <2>2. CASE s # "toServer"
    <3>1. InPlace(id, s, x)'
      BY <1>1, <1>7, <2>2 DEF InPlace
    <3> QED BY <3>1 DEF SomePlace
  <2> QED BY <2>1, <2>2
<1>8. ASSUME CP!IsRequest(c), id = myId[c] PROVE SomePlace(id)'
  <2>1. PICK k : k = Len(q) + 1
    OBVIOUS
  <2>2. k \in DOMAIN toServer'.queue /\ toServer'.queue[k] = CP!Outgoing(c)
    BY <1>1, <2>1, AddedItem
  <2>3. InPlace(id, "toServer", k)'
    BY <1>3, <1>4, <1>8, <2>2 DEF InPlace
  <2> QED BY <2>3 DEF SomePlace
<1> QED BY <1>5, <1>6, <1>7, <1>8 DEF SomePlace

LEMMA TakePlaces ==
    ASSUME IInv, UNCHANGED serverOnly, NEW l \in Loops, TakesLine(l), NEW id \in CP!Ids
    PROVE  OnePlace(id)' /\ (SomePlace(id) <=> SomePlace(id)')
<1> DEFINE q == buffer[l]
<1>1. /\ q \in Seq(CP!FromServer) /\ q # <<>> /\ 1 \in DOMAIN q
      /\ buffer' = [buffer EXCEPT ![l] = Tail(q)] /\ DOMAIN buffer = Loops
      /\ UNCHANGED <<chan, myId, todo, out, toServer, toClient>>
      /\ loop[l] = "scan" /\ loop'[l] # "ended"
      /\ \A k \in Loops \ {l} : loop'[k] = loop[k] /\ line'[k] = line[k]
      /\ IF q[1].kind = "response" THEN loop'[l] = "lookup" /\ line'[l] = q[1]
                                   ELSE loop'[l] \notin Given
  BY LineTaken, ReadersTyped DEF serverOnly, Given
<1>2. OnePlace(id)
  BY PlacesCount DEF IInv, PlacesInv
<1> DEFINE Was(k, i) == IF k = l THEN i + 1 ELSE i
<1>3. ASSUME NEW k \in Loops, NEW i, InBuffer(id, <<k, i>>)'
      PROVE  i \in Nat /\ i # 0 /\ InBuffer(id, <<k, Was(k, i)>>)
  <2>1. i \in DOMAIN buffer'[k] /\ loop'[k] # "ended"
        /\ buffer'[k][i].kind = "response" /\ buffer'[k][i].id = id
    BY <1>3 DEF InBuffer
  <2>2. CASE k = l
    <3>1. i \in DOMAIN Tail(q) /\ Tail(q)[i].kind = "response" /\ Tail(q)[i].id = id
      BY <1>1, <2>1, <2>2
    <3>2. i \in Nat /\ i # 0 /\ i + 1 \in DOMAIN q /\ Tail(q)[i] = q[i + 1]
      BY <1>1, <3>1, TakenItem
    <3> QED BY <1>1, <2>2, <3>1, <3>2 DEF InBuffer
  <2>3. CASE k # l
    <3>1. buffer'[k] = buffer[k] /\ buffer[k] \in Seq(CP!FromServer)
      BY <1>1, <2>3, ReadersTyped
    <3>2. i \in Nat /\ i # 0
      BY <2>1, <3>1
    <3> QED BY <1>1, <2>1, <2>3, <3>1, <3>2 DEF InBuffer
  <2> QED BY <2>2, <2>3
<1>4. ASSUME NEW s, NEW x, InPlace(id, s, x)'
      PROVE  \/ s = "buffer" /\ \E k \in Loops, i \in Nat :
                  x = <<k, i>> /\ InPlace(id, "buffer", <<k, Was(k, i)>>) /\ i # 0
             \/ s = "readLoop" /\ x = l /\ InPlace(id, "buffer", <<l, 1>>)
             \/ s = "readLoop" /\ x # l /\ InPlace(id, s, x)
             \/ s \notin {"buffer", "readLoop"} /\ InPlace(id, s, x)
  <2>1. CASE s = "buffer"
    <3>1. InBuffer(id, x)'
      BY <1>4, <2>1 DEF InPlace
    <3>2. PICK k \in Loops : \E i : x = <<k, i>>
      BY <3>1 DEF InBuffer
    <3>3. PICK i : x = <<k, i>>
      BY <3>2
    <3>4. i \in Nat /\ i # 0 /\ InBuffer(id, <<k, Was(k, i)>>)
      BY <1>3, <3>1, <3>3
    <3> QED BY <2>1, <3>3, <3>4 DEF InPlace
  <2>2. CASE s = "readLoop"
    <3>1. CASE x = l
      <4>1. q[1].kind = "response" /\ q[1].id = id
        BY <1>1, <1>4, <2>2, <3>1 DEF InPlace, Given
      <4> QED BY <1>1, <2>2, <3>1, <4>1 DEF InPlace, InBuffer
    <3>2. CASE x # l
      BY <1>1, <1>4, <2>2, <3>2 DEF InPlace
    <3> QED BY <3>1, <3>2
  <2>3. CASE s \notin {"buffer", "readLoop"}
    BY <1>1, <1>4, <2>3 DEF InPlace
  <2> QED BY <2>1, <2>2, <2>3
<1>5. OnePlace(id)'
  <2> SUFFICES ASSUME NEW s, NEW x, NEW t, NEW y, InPlace(id, s, x)', InPlace(id, t, y)'
               PROVE  s = t /\ x = y
    BY DEF OnePlace
  <2>1. CASE s = "buffer" /\ t = "buffer"
    <3>1. PICK k \in Loops, i \in Nat : x = <<k, i>> /\ InPlace(id, "buffer", <<k, Was(k, i)>>)
      BY <1>4, <2>1
    <3>2. PICK j \in Loops, n \in Nat : y = <<j, n>> /\ InPlace(id, "buffer", <<j, Was(j, n)>>)
      BY <1>4, <2>1
    <3>3. <<k, Was(k, i)>> = <<j, Was(j, n)>>
      BY <1>2, <3>1, <3>2 DEF OnePlace
    <3>4. k = j /\ i = n
      BY <3>3
    <3> QED BY <2>1, <3>1, <3>2, <3>4
  <2>2. ASSUME NEW a, NEW b, NEW z, InPlace(id, "buffer", a)', InPlace(id, b, z)', b # "buffer"
        PROVE  FALSE
    <3>1. PICK k \in Loops, i \in Nat : InPlace(id, "buffer", <<k, Was(k, i)>>) /\ i # 0
      BY <1>4, <2>2
    <3>2. CASE InPlace(id, "buffer", <<l, 1>>)
      <4>1. <<k, Was(k, i)>> = <<l, 1>>
        BY <1>2, <3>1, <3>2 DEF OnePlace
      <4> QED BY <3>1, <4>1
    <3>3. CASE InPlace(id, b, z)
      BY <1>2, <2>2, <3>1, <3>3 DEF OnePlace
    <3> QED BY <1>4, <2>2, <3>2, <3>3
  <2>3. CASE s = "buffer" /\ t # "buffer"
    BY <2>2, <2>3
  <2>4. CASE s # "buffer" /\ t = "buffer"
    BY <2>2, <2>4
  <2>5. CASE s # "buffer" /\ t # "buffer"
    <3>1. \/ s = "readLoop" /\ x = l /\ InPlace(id, "buffer", <<l, 1>>)
          \/ InPlace(id, s, x) /\ ~(s = "readLoop" /\ x = l)
      BY <1>4, <2>5
    <3>2. \/ t = "readLoop" /\ y = l /\ InPlace(id, "buffer", <<l, 1>>)
          \/ InPlace(id, t, y) /\ ~(t = "readLoop" /\ y = l)
      BY <1>4, <2>5
    <3> QED BY <1>2, <2>5, <3>1, <3>2 DEF OnePlace
  <2> QED BY <2>1, <2>3, <2>4, <2>5
<1>6. ASSUME NEW s, NEW x, InPlace(id, s, x) PROVE SomePlace(id)'
  <2>1. CASE s = "buffer"
    <3>1. PICK k \in Loops : /\ loop[k] # "ended"
                            /\ \E i \in DOMAIN buffer[k] : /\ x = <<k, i>>
                                                          /\ buffer[k][i].kind = "response"
                                                          /\ buffer[k][i].id = id
      BY <1>6, <2>1 DEF InPlace, InBuffer
    <3>2. PICK i \in DOMAIN buffer[k] : buffer[k][i].kind = "response" /\ buffer[k][i].id = id
      BY <3>1
    <3>3. CASE k # l
      <4>1. InBuffer(id, <<k, i>>)'
        BY <1>1, <3>1, <3>2, <3>3 DEF InBuffer
      <4>2. InPlace(id, "buffer", <<k, i>>)'
        BY <4>1 DEF InPlace
      <4> QED BY <4>2 DEF SomePlace
    <3>4. CASE k = l /\ i = 1
      <4>1. InPlace(id, "readLoop", l)'
        BY <1>1, <3>2, <3>4 DEF InPlace
      <4> QED BY <4>1 DEF SomePlace
    <3>5. CASE k = l /\ i # 1
      <4>1. i - 1 \in DOMAIN Tail(q) /\ Tail(q)[i - 1] = q[i]
        BY <1>1, <3>2, <3>5
      <4>2. PICK n : n = i - 1
        OBVIOUS
      <4>3. n \in DOMAIN buffer'[l] /\ buffer'[l][n].kind = "response" /\ buffer'[l][n].id = id
        BY <1>1, <3>2, <3>5, <4>1, <4>2
      <4>4. InBuffer(id, <<l, n>>)'
        BY <1>1, <4>3 DEF InBuffer
      <4>5. InPlace(id, "buffer", <<l, n>>)'
        BY <4>4 DEF InPlace
      <4> QED BY <4>5 DEF SomePlace
    <3> QED BY <3>3, <3>4, <3>5
  <2>2. CASE s = "readLoop"
    <3>1. x # l
      BY <1>1, <1>6, <2>2 DEF InPlace, Given
    <3>2. InPlace(id, s, x)'
      BY <1>1, <1>6, <2>2, <3>1 DEF InPlace
    <3> QED BY <3>2 DEF SomePlace
  <2>3. CASE s \notin {"buffer", "readLoop"}
    <3>1. InPlace(id, s, x)'
      BY <1>1, <1>6, <2>3 DEF InPlace
    <3> QED BY <3>1 DEF SomePlace
  <2> QED BY <2>1, <2>2, <2>3
<1>7. SomePlace(id)' => SomePlace(id)
  <2> SUFFICES ASSUME NEW s, NEW x, InPlace(id, s, x)' PROVE SomePlace(id)
    BY DEF SomePlace
  <2> QED BY <1>4 DEF SomePlace
<1> QED BY <1>5, <1>6, <1>7 DEF SomePlace

\* While one loop reads, no line that it completes is torn.
LEMMA NotGarbled ==
    ASSUME IInv, Steady, NEW l \in Loops, loop[l] # "off"
    PROVE  ~CP!Garbled(l)
<1>1. ~spoiled[l] /\ (begun # NoOne => loop[begun] # "off") /\ begun \in Loops \cup {NoOne}
  BY ReadersTyped DEF IInv, ReaderInv
<1>2. begun # NoOne => begun = l
  BY <1>1 DEF Steady, Sole
<1> QED BY <1>1, <1>2 DEF CP!Garbled

\* A Read moves responses to a buffer, or loses those that are torn.
LEMMA FillPlaces ==
    ASSUME IInv, UNCHANGED serverOnly, NEW l \in Loops, CP!Fill(l), NEW id \in CP!Ids
    PROVE  /\ OnePlace(id)'
           /\ SomePlace(id)' => SomePlace(id)
           /\ Steady /\ SomePlace(id) => SomePlace(id)'
<1> DEFINE q == toClient.queue
<1>1. PICK n \in 0 .. Len(q) :
         /\ buffer' = [buffer EXCEPT ![l] = CP!WholeLines(l, n)]
         /\ toClient'.queue = SubSeq(q, n + 1, Len(q))
  BY FillMoves
<1>2. /\ q \in Seq(S!Response) /\ DOMAIN buffer = Loops
      /\ UNCHANGED <<chan, myId, loop, line, todo, out, toServer>>
      /\ loop[l] = "scan" /\ buffer[l] = <<>>
  BY FillMoves, ReadersTyped DEF serverOnly
<1>3. OnePlace(id)
  BY PlacesCount DEF IInv, PlacesInv
<1>4. ASSUME NEW k \in Loops, NEW i, InBuffer(id, <<k, i>>)'
      PROVE  IF k = l THEN i \in 1 .. n /\ InPlace(id, "toClient", i)
                      ELSE InBuffer(id, <<k, i>>)
  <2>1. i \in DOMAIN buffer'[k] /\ loop'[k] # "ended"
        /\ buffer'[k][i].kind = "response" /\ buffer'[k][i].id = id
    BY <1>4 DEF InBuffer
  <2>2. CASE k = l
    <3>1. buffer'[k] = CP!WholeLines(l, n)
      BY <1>1, <1>2, <2>2
    <3>2. i \in 1 .. n /\ i \in DOMAIN q /\ CP!WholeLines(l, n)[i] = q[i]
      BY <2>1, <3>1, FilledLine
    <3> QED BY <2>1, <2>2, <3>1, <3>2 DEF InPlace
  <2>3. CASE k # l
    BY <1>1, <1>2, <2>1, <2>3 DEF InBuffer
  <2> QED BY <2>2, <2>3
<1>5. ASSUME NEW s, NEW x, InPlace(id, s, x)'
      PROVE  \/ s = "toClient" /\ x \in Nat /\ x # 0 /\ InPlace(id, "toClient", x + n)
             \/ s = "buffer" /\ \E i \in 1 .. n : x = <<l, i>> /\ InPlace(id, "toClient", i)
             \/ s # "toClient" /\ InPlace(id, s, x)
  <2>1. CASE s = "toClient"
    <3>1. x \in DOMAIN SubSeq(q, n + 1, Len(q))
          /\ SubSeq(q, n + 1, Len(q))[x].kind = "response"
          /\ SubSeq(q, n + 1, Len(q))[x].id = id
      BY <1>1, <1>5, <2>1 DEF InPlace
    <3>2. x \in Nat /\ x # 0 /\ x + n \in DOMAIN q
          /\ SubSeq(q, n + 1, Len(q))[x] = q[x + n]
      BY <1>2, <3>1, RestItem
    <3> QED BY <2>1, <3>1, <3>2 DEF InPlace
  <2>2. CASE s = "buffer"
    <3>1. InBuffer(id, x)'
      BY <1>5, <2>2 DEF InPlace
    <3>2. PICK k \in Loops : \E i : x = <<k, i>>
      BY <3>1 DEF InBuffer
    <3>3. PICK i : x = <<k, i>>
      BY <3>2
    <3> QED BY <1>4, <2>2, <3>1, <3>3 DEF InPlace
  <2>3. CASE s \notin {"toClient", "buffer"}
    BY <1>2, <1>5, <2>3 DEF InPlace
  <2> QED BY <2>1, <2>2, <2>3
<1>6. OnePlace(id)'
  <2> SUFFICES ASSUME NEW s, NEW x, NEW t, NEW y, InPlace(id, s, x)', InPlace(id, t, y)'
               PROVE  s = t /\ x = y
    BY DEF OnePlace
  <2> QED BY <1>3, <1>5 DEF OnePlace
<1>7. SomePlace(id)' => SomePlace(id)
  <2> SUFFICES ASSUME NEW s, NEW x, InPlace(id, s, x)' PROVE SomePlace(id)
    BY DEF SomePlace
  <2> QED BY <1>5 DEF SomePlace
<1>8. ASSUME Steady, NEW s, NEW x, InPlace(id, s, x) PROVE SomePlace(id)'
  <2>1. CASE s = "toClient"
    <3>1. x \in DOMAIN q /\ q[x].kind = "response" /\ q[x].id = id
      BY <1>8, <2>1 DEF InPlace
    <3>2. CASE x <= n
      <4>1. x \in 1 .. n /\ ~CP!Garbled(l)
        BY <1>2, <1>8, <3>1, <3>2, NotGarbled
      <4>2. x \in DOMAIN buffer'[l] /\ buffer'[l][x] = q[x]
        <5>1. CP!WholeLines(l, n) = [i \in 1 .. n |-> q[i]]
          BY <4>1 DEF CP!WholeLines
        <5> QED BY <1>1, <1>2, <4>1, <5>1
      <4>3. InBuffer(id, <<l, x>>)'
        BY <1>2, <3>1, <4>2 DEF InBuffer
      <4>4. InPlace(id, "buffer", <<l, x>>)'
        BY <4>3 DEF InPlace
      <4> QED BY <4>4 DEF SomePlace
    <3>3. CASE ~(x <= n)
      <4>1. x \in Nat /\ x > n
        BY <1>2, <3>1, <3>3
      <4>2. x - n \in DOMAIN SubSeq(q, n + 1, Len(q)) /\ SubSeq(q, n + 1, Len(q))[x - n] = q[x]
        BY <1>2, <3>1, <4>1, LeftItem
      <4>3. PICK k : k = x - n
        OBVIOUS
      <4>4. InPlace(id, "toClient", k)'
        BY <1>1, <3>1, <4>2, <4>3 DEF InPlace
      <4> QED BY <4>4 DEF SomePlace
    <3> QED BY <3>2, <3>3
  <2>2. CASE s = "buffer"
    <3>1. PICK k \in Loops : /\ loop[k] # "ended"
                            /\ \E i \in DOMAIN buffer[k] : /\ x = <<k, i>>
                                                          /\ buffer[k][i].kind = "response"
                                                          /\ buffer[k][i].id = id
      BY <1>8, <2>2 DEF InPlace, InBuffer
    <3>2. k # l
      BY <1>2, <3>1
    <3>3. InBuffer(id, x)'
      BY <1>1, <1>2, <3>1, <3>2 DEF InBuffer
    <3>4. InPlace(id, s, x)'
      BY <2>2, <3>3 DEF InPlace
    <3> QED BY <3>4 DEF SomePlace
  <2>3. CASE s \notin {"toClient", "buffer"}
    <3>1. InPlace(id, s, x)'
      BY <1>2, <1>8, <2>3 DEF InPlace
    <3> QED BY <3>1 DEF SomePlace
  <2> QED BY <2>1, <2>2, <2>3
<1> QED BY <1>6, <1>7, <1>8 DEF SomePlace

LEMMA DeliverPlaces ==
    ASSUME IInv, UNCHANGED serverOnly, NEW l \in Loops, CP!Deliver(l), NEW id \in CP!Ids
    PROVE  /\ OnePlace(id)'
           /\ SomePlace(id)' => SomePlace(id)
           /\ (\E c \in Callers : myId[c] = id) /\ SomePlace(id) => SomePlace(id)'
<1> DEFINE to == line[l].id
<1>1. /\ UNCHANGED <<myId, todo, out, line, toServer, toClient>>
      /\ loop[l] = "deliver" /\ loop' = [loop EXCEPT ![l] = "delete"]
      /\ chan' = [chan EXCEPT ![to] = "full"] /\ chan[to] = "open"
      /\ UNCHANGED buffer
  BY DEF CP!Deliver, CP!callers, CP!scanners, CP!pipes, serverOnly
<1>2. OnePlace(id)
  BY PlacesCount DEF IInv, PlacesInv
<1>3. DOMAIN loop = Loops /\ to \in CP!Ids /\ DOMAIN chan = CP!Ids
      /\ \A x : InBuffer(id, x)' <=> InBuffer(id, x)
  <2>1. DOMAIN loop = Loops /\ to \in CP!Ids /\ DOMAIN chan = CP!Ids
    BY <1>1 DEF IInv, ClientInv, CP!TypeInv, CP!TypeOK, CP!RoomInv, CP!HeldIds
  <2>2. \A k \in Loops : loop'[k] = "ended" <=> loop[k] = "ended"
    BY <1>1, <2>1
  <2> QED BY <1>1, <2>1, <2>2, SameBuffers
<1>4. \A c, d \in Callers : myId[c] = id /\ myId[d] = id => c = d
  BY StdioSystemAssumption DEF IInv, ClientInv, CP!TableInv, CP!IdsDistinct, CP!InFlight, CP!Ids
<1>5. ASSUME NEW s, NEW x, InPlace(id, s, x)'
      PROVE  \/ s = "channel" /\ id = to /\ InPlace(id, "readLoop", l) /\ myId[x] = id
                /\ x \in Callers
             \/ s = "readLoop" /\ x # l /\ InPlace(id, s, x)
             \/ s = "channel" /\ id # to /\ InPlace(id, s, x)
             \/ s \notin {"readLoop", "channel"} /\ InPlace(id, s, x)
  <2>1. CASE s = "channel"
    BY <1>1, <1>3, <1>5, <2>1 DEF InPlace
  <2>2. CASE s = "readLoop"
    BY <1>1, <1>3, <1>5, <2>2 DEF InPlace
  <2>3. CASE s \notin {"readLoop", "channel"}
    BY <1>1, <1>3, <1>5, <2>3 DEF InPlace
  <2> QED BY <2>1, <2>2, <2>3
<1>6. OnePlace(id)'
  <2> SUFFICES ASSUME NEW s, NEW x, NEW t, NEW y, InPlace(id, s, x)', InPlace(id, t, y)'
               PROVE  s = t /\ x = y
    BY DEF OnePlace
  <2> QED BY <1>2, <1>4, <1>5 DEF OnePlace
<1>7. ASSUME NEW c \in Callers, myId[c] = id, NEW s, NEW x, InPlace(id, s, x)
      PROVE  SomePlace(id)'
  <2>1. CASE s = "readLoop" /\ x = l
    <3>1. InPlace(id, "channel", c)'
      BY <1>1, <1>3, <1>7, <2>1 DEF InPlace
    <3> QED BY <3>1 DEF SomePlace
  <2>2. CASE ~(s = "readLoop" /\ x = l)
    <3>1. InPlace(id, s, x)'
      BY <1>1, <1>3, <1>7, <2>2 DEF InPlace
    <3> QED BY <3>1 DEF SomePlace
  <2> QED BY <2>1, <2>2
<1> QED BY <1>5, <1>6, <1>7 DEF SomePlace

\* Where one loop reads, or none reads or ends, nothing is lost.
NoLoss ==
    \/ Steady /\ Steady'
    \/ \A l \in Loops : ~CP!Fill(l) /\ (loop'[l] = "ended" => loop[l] = "ended")

LEMMA OtherPlaces ==
    ASSUME IInv, CP!Next, UNCHANGED serverOnly, NEW id \in CP!Ids,
           \A c \in Callers : ~CP!Write(c),
           \A l \in Loops : ~Moves(l)
    PROVE  /\ OnePlace(id)'
           /\ \A s, x : InPlace(id, s, x)' => InPlace(id, s, x)
           /\ NoLoss => \A c \in Callers :
                 pc[c] = "waiting" /\ pc'[c] = "waiting" /\ myId[c] = id /\ myId'[c] = id
                    /\ SomePlace(id) => SomePlace(id)'
<1>1. /\ LoopsCarry /\ ChannelsCarry /\ BuffersCarry /\ toClient'.queue = toClient.queue
      /\ UNCHANGED <<toServer, todo, out>> /\ CallsMove /\ TableKeeps
  BY ClientLoops, OnlyWrites, ClientMoves, ClientTable DEF IInv, ClientInv, serverOnly
<1>2. OnePlace(id)
  BY PlacesCount DEF IInv, PlacesInv
<1>3. ASSUME NEW s, NEW x, InPlace(id, s, x)' PROVE InPlace(id, s, x)
  <2>1. CASE s = "channel"
    <3>1. x \in Callers /\ myId'[x] = id /\ chan'[id] = "full" /\ chan[id] = "full" /\ id # 0
      BY <1>1, <1>3, <2>1, StdioSystemAssumption DEF InPlace, ChannelsCarry, CP!Ids
    <3>2. myId[x] = id
      BY <1>1, <3>1 DEF CallsMove, KeepsCall, StartsCall
    <3> QED BY <2>1, <3>1, <3>2 DEF InPlace
  <2>2. CASE s = "readLoop"
    BY <1>1, <1>3, <2>2 DEF InPlace, LoopsCarry, Holding, Given
  <2>3. CASE s = "buffer"
    <3>1. InBuffer(id, x)
      BY <1>1, <1>3, <2>3 DEF InPlace, InBuffer, BuffersCarry
    <3> QED BY <2>3, <3>1 DEF InPlace
  <2>4. CASE s \notin {"buffer", "readLoop", "channel"}
    BY <1>1, <1>3, <2>4 DEF InPlace
  <2> QED BY <2>1, <2>2, <2>3, <2>4
<1>4. OnePlace(id)'
  BY <1>2, <1>3, FewerPlaces
<1>5. ASSUME NoLoss, NEW c \in Callers, pc[c] = "waiting", pc'[c] = "waiting", myId[c] = id,
             myId'[c] = id, NEW s, NEW x, InPlace(id, s, x)
      PROVE  InPlace(id, s, x)'
  <2>1. Unanswered(c) /\ Unanswered(c)' /\ id # 0
    BY <1>5, StdioSystemAssumption DEF Unanswered, CP!Ids
  <2>2. CASE s = "channel"
    <3>1. x \in Callers /\ myId[x] = id /\ chan[id] = "full" /\ chan'[id] = "full"
      BY <1>1, <1>5, <2>1, <2>2 DEF InPlace, TableKeeps
    <3>2. x = c
      BY <1>5, <2>1, <3>1 DEF IInv, ClientInv, CP!TableInv, CP!IdsDistinct, CP!InFlight
    <3> QED BY <1>5, <2>2, <3>1, <3>2 DEF InPlace
  <2>3. CASE s = "readLoop"
    <3>1. x \in Loops /\ loop[x] \in Given /\ line[x].id = id
      BY <1>5, <2>3 DEF InPlace, Given
    <3>2. chan[id] # "full"
      <4>1. chan[id] = "full" => InPlace(id, "channel", c)
        BY <1>5 DEF InPlace
      <4> QED BY <1>2, <1>5, <2>3, <4>1 DEF OnePlace
    <3>3. id \in pending
      BY <1>5, <2>1, <3>2 DEF IInv, PlacesInv, HeldInv
    <3>4. loop'[x] \in Given /\ line'[x] = line[x]
      BY <1>1, <3>1, <3>2, <3>3 DEF LoopsCarry, Holding, Given
    <3> QED BY <2>3, <3>1, <3>4 DEF InPlace, Given
  <2>4. CASE s = "buffer"
    <3>1. \A l \in Loops : loop[l] # "ended" => loop'[l] # "ended"
      BY <1>5 DEF NoLoss, Steady
    <3>2. InBuffer(id, x)'
      BY <1>1, <1>5, <2>4, <3>1 DEF InPlace, InBuffer, BuffersCarry
    <3> QED BY <2>4, <3>2 DEF InPlace
  <2>5. CASE s \notin {"buffer", "readLoop", "channel"}
    BY <1>1, <1>5, <2>5 DEF InPlace
  <2> QED BY <2>2, <2>3, <2>4, <2>5
<1> QED BY <1>3, <1>4, <1>5 DEF SomePlace

LEMMA StillWaits ==
    ASSUME IInv, CP!Next, NEW c \in Callers, pc'[c] = "waiting"
    PROVE  /\ myId'[c] = myId[c] /\ myId[c] \in CP!Ids
           /\ pc[c] = "waiting" \/ (CP!Write(c) /\ CP!IsRequest(c))
<1> USE DEF CP!table, CP!callers, CP!loops, CP!pipes
<1> DEFINE Waits == /\ myId'[c] = myId[c] /\ myId[c] \in CP!Ids
                    /\ pc[c] = "waiting" \/ (CP!Write(c) /\ CP!IsRequest(c))
<1>1. /\ pc \in [Callers -> {"idle", "next", "write", "writing", "waiting", "cleanup", "save"}]
      /\ myId \in [Callers -> CP!Ids \cup {0}] /\ CP!CallInv
  BY DEF IInv, ClientInv, CP!TypeInv, CP!TypeOK
<1>2. ASSUME pc[c] = "waiting", myId'[c] = myId[c] PROVE Waits
  BY <1>1, <1>2 DEF CP!CallInv
<1>3. ASSUME NEW d \in Callers, NEW q, CP!Register(d, q) PROVE Waits
  BY <1>1, <1>2, <1>3 DEF CP!Register
<1>4. ASSUME NEW d \in Callers, CP!CallerStep(d) PROVE Waits
  <2>1. CASE (\E q \in Questions : CP!SendRequest(d, q)) \/ (\E l \in Loops : CP!Initialize(d, l))
             \/ CP!ListAsks(d)
    BY <2>1, <1>3 DEF CP!SendRequest, CP!Initialize, CP!ListAsks
  <2>2. CASE \/ \E n \in Notices : CP!SendNotification(d, n)
             \/ \E l \in Loops : CP!InitializeUnset(d, l)
             \/ CP!MarshalFails(d) \/ CP!LockForWrite(d) \/ CP!GiveUp(d) \/ CP!ReceiveResponse(d)
             \/ CP!ListTools(d) \/ CP!ListCrashes(d) \/ CP!ListSaves(d) \/ CP!ContextEnds(d)
    <3>1. pc[c] = "waiting" /\ myId'[c] = myId[c]
      BY <1>1, <2>2 DEF CP!SendNotification, CP!InitializeUnset, CP!MarshalFails, CP!LockForWrite,
         CP!GiveUp, CP!ReceiveResponse, CP!ListTools, CP!ListCrashes, CP!ListSaves, CP!ContextEnds
    <3> QED BY <3>1, <1>2
  <2>3. CASE CP!Write(d)
    BY <1>1, <1>2, <2>3 DEF CP!Write, CP!CallInv
  <2>4. CASE CP!WriteFails(d)
    BY <1>1, <1>2, <2>4 DEF CP!WriteFails
  <2>5. CASE CP!Cleanup(d)
    BY <1>1, <1>2, <2>5 DEF CP!Cleanup, CP!GoesOn
  <2> QED BY <1>4, <2>1, <2>2, <2>3, <2>4, <2>5 DEF CP!CallerStep
<1>5. ASSUME NEW l \in Loops, CP!LoopStep(l) PROVE Waits
  <2>1. UNCHANGED <<pc, myId>>
    BY <1>5, OnlyResponses DEF CP!LoopStep, CP!LoopContextEnds, CP!LoopTop, CP!Fill, CP!Scan,
       CP!Skim, CP!NextLine, CP!HandlerReturns, CP!ScanEOF, CP!Lookup, CP!Deliver, CP!DeliverTimeout,
       CP!DeliverPanics, CP!Delete
  <2> QED BY <1>2, <2>1
<1> QED BY <1>4, <1>5 DEF CP!Next

\* The readers are steady no more once a second loop starts or one ends.
LEMMA SteadyStays ==
    ASSUME IInv, CP!Next
    PROVE  Steady' => Steady
<1>1. loop \in [Loops -> {"off", "top", "scan", "handler", "lookup", "deliver", "delete",
                         "ended"}]
  BY ReadersTyped
<1>2. ASSUME NEW l \in Loops, NEW where, where # "off", loop' = [loop EXCEPT ![l] = where],
             loop[l] # "ended"
      PROVE  Steady' => Steady
  BY <1>1, <1>2 DEF Steady, Sole
<1>3. CASE loop' = loop
  BY <1>3 DEF Steady, Sole
<1>4. ASSUME NEW c \in Callers, CP!CallerStep(c) PROVE Steady' => Steady
  <2>1. CASE \E l \in Loops : CP!Initialize(c, l) \/ CP!InitializeUnset(c, l)
    <3>1. PICK l \in Loops : loop[l] = "off" /\ loop' = [loop EXCEPT ![l] = "top"]
      BY <2>1 DEF CP!Initialize, CP!InitializeUnset
    <3> QED BY <1>2, <3>1
  <2>2. CASE ~\E l \in Loops : CP!Initialize(c, l) \/ CP!InitializeUnset(c, l)
    <3>1. loop' = loop
      BY <1>4, <2>2 DEF CP!CallerStep, CP!SendRequest, CP!SendNotification, CP!MarshalFails,
         CP!LockForWrite, CP!Write, CP!WriteFails, CP!ReceiveResponse, CP!GiveUp, CP!Cleanup,
         CP!ListTools, CP!ListAsks, CP!ListCrashes, CP!ListSaves, CP!ContextEnds, CP!loops
    <3> QED BY <1>3, <3>1
  <2> QED BY <2>1, <2>2
<1>5. ASSUME NEW l \in Loops, CP!LoopStep(l) PROVE Steady' => Steady
  <2>1. CASE TakesLine(l)
    <3>1. \E where \in {"lookup", "handler", "top"} : loop' = [loop EXCEPT ![l] = where]
      BY <2>1, LineTaken
    <3>2. loop[l] = "scan"
      BY <2>1, LineTaken
    <3> QED BY <1>2, <3>1, <3>2
  <2>2. CASE CP!Fill(l)
    BY <1>3, <2>2, FillMoves
  <2>3. CASE CP!LoopContextEnds(l) \/ CP!DeliverPanics(l)
    BY <1>3, <2>3 DEF CP!LoopContextEnds, CP!DeliverPanics, CP!loops
  <2>4. CASE \/ CP!LoopTop(l) \/ CP!HandlerReturns(l) \/ CP!ScanEOF(l) \/ CP!Lookup(l)
             \/ CP!Deliver(l) \/ CP!DeliverTimeout(l) \/ CP!Delete(l)
    <3>1. /\ loop[l] # "ended"
          /\ \E where \in {"top", "scan", "ended", "deliver", "delete"} :
                loop' = [loop EXCEPT ![l] = where]
      BY <2>4 DEF CP!LoopTop, CP!HandlerReturns, CP!ContinueOnError, CP!ScanEOF, CP!Blocked,
         CP!Lookup, CP!ContinueOnUnknown, CP!Deliver, CP!DeliverTimeout, CP!Delete
    <3> QED BY <1>2, <3>1
  <2> QED BY <1>5, <2>1, <2>2, <2>3, <2>4, OnlyResponses DEF CP!LoopStep, TakesLine
<1> QED BY <1>4, <1>5 DEF CP!Next

LEMMA ClientPlaces ==
    ASSUME IInv, CP!Next, UNCHANGED serverOnly
    PROVE  (NotLost /\ \A id \in CP!Ids : Single(id))'
<1>1. toServer'.closed = toServer.closed
  <2>1. CASE \E c \in Callers : CP!Write(c)
    BY <2>1, WiresTyped DEF IInv, ClientInv, Wires, Pipes, CP!Write, CP!Put
  <2>2. CASE ~\E c \in Callers : CP!Write(c)
    BY <2>2, OnlyWrites
  <2> QED BY <2>1, <2>2
<1>2. ASSUME NEW id \in CP!Ids
      PROVE  /\ OnePlace(id)'
             /\ NoLoss => \A c \in Callers :
                   pc[c] = "waiting" /\ pc'[c] = "waiting" /\ myId[c] = id /\ myId'[c] = id
                      /\ SomePlace(id) => SomePlace(id)'
  <2>1. CASE \E c \in Callers : CP!Write(c)
    BY <2>1, WritePlaces
  <2>2. CASE \E l \in Loops : TakesLine(l) \/ CP!Deliver(l)
    BY <2>2, TakePlaces, DeliverPlaces
  <2>3. CASE \E l \in Loops : CP!Fill(l)
    BY <2>3, FillPlaces DEF NoLoss
  <2>4. CASE (\A c \in Callers : ~CP!Write(c)) /\ \A l \in Loops : ~Moves(l)
    BY <2>4, OtherPlaces
  <2> QED BY <2>1, <2>2, <2>3, <2>4 DEF Moves
<1>3. ASSUME NEW c \in Callers, NEW id \in CP!Ids, pc'[c] = "waiting", ~toServer'.closed,
             Steady', id = myId[c]
      PROVE  SomePlace(id)'
  <2>1. myId'[c] = id /\ (pc[c] = "waiting" \/ (CP!Write(c) /\ CP!IsRequest(c)))
    BY <1>3, StillWaits
  <2>2. CASE pc[c] = "waiting"
    <3>1. Places(id) # {} /\ NoLoss
      BY <1>1, <1>3, <2>2, SteadyStays DEF IInv, PlacesInv, NotLost, NoLoss
    <3>2. SomePlace(id)
      BY <3>1, PlacesCount
    <3> QED BY <1>2, <1>3, <2>1, <2>2, <3>1, <3>2
  <2>3. CASE CP!Write(c) /\ CP!IsRequest(c)
    BY <1>3, <2>3, WritePlaces
  <2> QED BY <2>1, <2>2, <2>3
<1>4. NotLost'
  <2> SUFFICES ASSUME NEW c \in Callers, pc'[c] = "waiting", ~toServer'.closed, Steady'
               PROVE  (Places(myId[c]) # {})'
    BY DEF NotLost
  <2>1. PICK id \in CP!Ids : id = myId[c] /\ myId'[c] = id
    BY StillWaits
  <2>2. SomePlace(id)'
    BY <1>3, <2>1
  <2>3. (Places(id) # {})'
    BY <2>2, PlacesCountNext
  <2> QED BY <2>1, <2>3
<1>5. \A id \in CP!Ids : Single(id)'
  BY <1>2, PlacesCountNext
<1> QED BY <1>4, <1>5

\* A response is dropped only if its call is over, or has one already.
LEMMA ClientHeld ==
    ASSUME IInv, CP!Next
    PROVE  HeldInv'
<1>1. CallsMove /\ TableKeeps /\ HeldInv
  BY ClientMoves, ClientTable DEF IInv, ClientInv, PlacesInv
<1>2. ASSUME NEW c \in Callers, Unanswered(c)'
      PROVE  (Unanswered(c) /\ myId'[c] = myId[c]) \/ StartsCall(c)
  BY <1>1, <1>2 DEF CallsMove, KeepsCall, Unanswered, Writing
<1>3. ASSUME NEW c \in Callers, Unanswered(c)'
      PROVE  myId'[c] \in pending' \/ chan'[myId'[c]] = "full"
  BY <1>1, <1>2, <1>3 DEF StartsCall, TableKeeps, HeldInv
<1>4. ASSUME NEW l \in Loops, loop'[l] = "delete"
      PROVE  /\ line'[l] = line[l] /\ loop[l] \in Holding
             /\ \/ loop[l] = "delete" \/ chan[line[l].id] = "full"
                \/ chan'[line[l].id] = "full"
  <2>1. /\ loop \in [Loops -> {"off", "top", "scan", "handler", "lookup", "deliver", "delete",
                              "ended"}]
        /\ line \in [Loops -> S!Response \cup {NoOne}]
        /\ chan \in [CP!Ids -> {"none", "open", "full", "closed"}]
        /\ \A k \in Loops : loop[k] = "deliver" => line[k].id \in CP!Ids
    BY SameMessages DEF IInv, ClientInv, CP!TypeInv, CP!TypeOK, CP!RoomInv, CP!HeldIds
  <2>2. CASE \E k \in Loops : TakesLine(k)
    <3>1. PICK k \in Loops : TakesLine(k)
      BY <2>2
    <3>2. loop'[k] # "delete"
      BY <3>1, LineTaken
    <3> QED BY <1>4, <3>1, <3>2, LineTaken DEF Holding
  <2>3. CASE \E k \in Loops : CP!Deliver(k)
    BY <1>4, <2>1, <2>3 DEF CP!Deliver, Holding
  <2>4. CASE \E k \in Loops : CP!Fill(k)
    BY <1>4, <2>4, FillMoves DEF Holding
  <2>5. CASE \A k \in Loops : ~Moves(k)
    BY <1>4, <2>1, <2>5, ClientLoops DEF LoopsCarry, Holding
  <2> QED BY <2>2, <2>3, <2>4, <2>5 DEF Moves
<1>5. ASSUME NEW c \in Callers, NEW l \in Loops, Unanswered(c)', loop'[l] = "delete",
             line'[l].id = myId'[c]
      PROVE  chan'[myId'[c]] = "full"
  <2>1. CASE Unanswered(c) /\ myId'[c] = myId[c]
    BY <1>1, <1>4, <1>5, <2>1 DEF TableKeeps, HeldInv
  <2>2. CASE StartsCall(c)
    <3>1. line[l] \in Responses /\ line[l].id = nextID + 1
      BY <1>4, <1>5, <2>2 DEF StartsCall, Responses, IInv, CarriedInv
    <3>2. line[l].id # 0 => line[l].id <= nextID
      BY <3>1 DEF IInv, MessagesInv, AnswerTo
    <3> QED BY <3>1, <3>2 DEF IInv, ClientInv, CP!TypeInv, CP!TypeOK
  <2> QED BY <1>2, <1>5, <2>1, <2>2
<1> QED BY <1>3, <1>5 DEF HeldInv

-----------------------------------------------------------------------------
(***************************************************************************)
(* Each side, as the other sees it.                                        *)
(***************************************************************************)
LEMMA WaitsOrNot ==
    ASSUME NEW Msg, NEW p \in Pipes(Msg), NEW q, q = AwaitData(p)
    PROVE  q = p \/ ~p.reading
  BY DEF AwaitData, Pipes

LEMMA Awaited ==
    ASSUME NEW Msg, NEW p \in Pipes(Msg)
    PROVE  AwaitData(p) = [queue |-> p.queue, reading |-> TRUE, closed |-> p.closed]
<1> DEFINE a == AwaitData(p)
           b == [queue |-> p.queue, reading |-> TRUE, closed |-> p.closed]
<1>1. a \in Pipes(Msg) /\ b \in Pipes(Msg)
  BY DEF AwaitData, Pipes
<1>2. a.queue = b.queue /\ a.reading = b.reading /\ a.closed = b.closed
  BY DEF AwaitData, Pipes
<1> HIDE DEF a, b
<1>3. a = b
  BY <1>1, <1>2 DEF Pipes
<1> QED BY <1>3 DEF a, b

\* The server reads, or sends the response to a request that has arrived.
LEMMA ServerSeen ==
    ASSUME IInv, ServerStep, Reads \/ Handles \/ Responds \/ Stays
    PROVE  CP!ServerStep \/ UNCHANGED CP!vars
<1> USE DEF clientOnly, CP!table, CP!callers, CP!loops, CP!scanners
<1>1. Wires /\ ServerInv /\ UNCHANGED clientOnly
  BY WiresTyped DEF IInv, ClientInv, ServerStep
<1>2. CASE Reads
  <2>1. CP!ServerReads(FALSE)
    BY <1>1, <1>2 DEF Reads, CP!ServerReads, Take, CP!Take
  <2> QED BY <2>1 DEF CP!ServerStep
<1>3. CASE Handles
  BY <1>1, <1>3 DEF Handles, CP!vars
<1>4. CASE Responds
  <2> DEFINE m == Head(out)
  <2>1. m \in S!Response /\ 1 \in DOMAIN out /\ out[1] = m
    BY <1>1, <1>4, OneItem, FirstItem DEF ServerInv, Responds
  <2>2. m.kind = "response" /\ m \in Responses /\ (m.id = 0 \/ m.id \in CP!Ids)
    BY <2>1 DEF Responses, S!Response, CP!Ids
  <2>3. ASSUME m.id # 0 PROVE CP!Arrived(m.id)
    <3>1. m.id <= nextID /\ \A c \in Callers : myId[c] = m.id => pc[c] \notin Writing
      BY <2>2, <2>3 DEF IInv, MessagesInv, AnswerTo
    <3>2. OnePlace(m.id) /\ InPlace(m.id, "out", 1)
      BY <2>1, <2>2, <2>3, PlacesCount DEF IInv, PlacesInv, InPlace
    <3>3. ASSUME NEW i \in DOMAIN toServer.queue, toServer.queue[i].kind = "request",
                 toServer.queue[i].id = m.id
          PROVE  FALSE
      <4>1. InPlace(m.id, "toServer", i)
        BY <3>3 DEF InPlace
      <4> QED BY <3>2, <4>1 DEF OnePlace
    <3> QED BY <3>1, <3>3 DEF CP!Arrived, Writing
  <2>4. CP!ServerSends(m) /\ m \in CP!FromServer
    BY <1>1, <1>4, <2>1, <2>2, <2>3, SameMessages DEF Responds, CP!ServerSends, Room, CP!Room,
       Put, CP!Put, CP!FromServer
  <2> QED BY <2>4 DEF CP!ServerStep
<1>5. CASE Stays
  <2>1. CASE toServer' = toServer
    BY <1>1, <1>5, <2>1 DEF Stays, CP!vars
  <2>2. CASE toServer' = AwaitData(toServer) /\ ~toServer.reading
    <3>1. CP!ServerWaits
      BY <1>1, <1>5, <2>2 DEF Stays, CP!ServerWaits, AwaitData, CP!AwaitData
    <3> QED BY <3>1 DEF CP!ServerStep
  <2> QED BY <1>1, <1>5, <2>1, <2>2, WaitsOrNot DEF Stays, Wires
<1> QED BY <1>2, <1>3, <1>4, <1>5

\* The client writes, or reads.
LEMMA ClientSeen ==
    ASSUME IInv, CP!Next, UNCHANGED serverOnly
    PROVE  S!ClientStep \/ UNCHANGED S!serverVars
<1> USE DEF CP!table, CP!callers, CP!loops, CP!pipes, serverOnly, S!work, S!stopping
<1>1. Wires
  BY WiresTyped DEF IInv, ClientInv
<1>2. ASSUME UNCHANGED <<toServer, toClient>> PROVE UNCHANGED S!serverVars
  BY <1>2 DEF S!serverVars
<1>3. ASSUME NEW c \in Callers, CP!CallerStep(c) PROVE S!ClientStep \/ UNCHANGED S!serverVars
  <2>1. CASE CP!Write(c)
    <3>1. CP!Outgoing(c) \in S!Incoming
      BY <2>1, CP!OutgoingType, ConstantsFit, SameMessages DEF IInv, ClientInv, CP!Write,
         S!Incoming
    <3>2. S!ClientSends(CP!Outgoing(c))
      BY <2>1 DEF CP!Write, S!ClientSends, CP!Room, S!Room, CP!Put, S!Put
    <3> QED BY <3>1, <3>2 DEF S!ClientStep
  <2>2. CASE ~CP!Write(c)
    <3>1. UNCHANGED <<toServer, toClient>>
      BY <1>3, <2>2 DEF CP!CallerStep, CP!SendRequest, CP!SendNotification, CP!Initialize,
         CP!InitializeUnset, CP!MarshalFails, CP!LockForWrite, CP!WriteFails,
         CP!ReceiveResponse, CP!GiveUp, CP!Cleanup, CP!ListTools, CP!ListAsks, CP!ListCrashes, CP!ListSaves, CP!ContextEnds
    <3> QED BY <1>2, <3>1
  <2> QED BY <2>1, <2>2
<1>4. ASSUME NEW l \in Loops, CP!LoopStep(l) PROVE S!ClientStep \/ UNCHANGED S!serverVars
  <2>1. CASE CP!Fill(l)
    <3> DEFINE others == CP!OthersBlocked(l)
    <3>1. PICK n \in 0 .. Len(toClient.queue) :
             toClient' = CP!TakeFirst(toClient, n, n = 0 \/ others)
      BY <2>1, Zenon DEF CP!Fill
    <3>2. UNCHANGED toServer
      BY <2>1, FillMoves
    <3>3. CASE n = 0
      <4>1. SubSeq(toClient.queue, 1, Len(toClient.queue)) = toClient.queue
        BY ReadersTyped
      <4>2. toClient' = AwaitData(toClient)
        <5>1. SubSeq(toClient.queue, n + 1, Len(toClient.queue)) = toClient.queue
          BY <3>3, <4>1
        <5>2. toClient' = [queue |-> toClient.queue, reading |-> TRUE,
                           closed |-> toClient.closed]
          BY <3>1, <3>3, <5>1 DEF CP!TakeFirst
        <5> QED BY <1>1, <5>2, Awaited DEF Wires
      <4>3. CASE toClient' = toClient
        BY <1>2, <3>2, <4>3
      <4>4. CASE ~toClient.reading
        <5>1. S!ClientWaits
          BY <3>2, <4>2, <4>4 DEF S!ClientWaits, AwaitData, S!AwaitData
        <5> QED BY <5>1 DEF S!ClientStep
      <4> QED BY <1>1, <4>2, <4>3, <4>4, WaitsOrNot DEF Wires
    <3>4. CASE n # 0
      <4>1. n \in 1 .. Len(toClient.queue) /\ others \in BOOLEAN
        BY <3>4, ReadersTyped DEF CP!OthersBlocked
      <4>2. toClient' = CP!TakeFirst(toClient, n, others)
        BY <3>1, <3>4, <4>1
      <4> HIDE DEF others
      <4>3. S!ClientReads(n, others)
        BY <3>2, <4>1, <4>2 DEF CP!TakeFirst, S!TakeFirst, S!ClientReads
      <4> QED BY <4>1, <4>3 DEF S!ClientStep
    <3> QED BY <3>3, <3>4
  <2>2. CASE CP!LoopTop(l)
    <3>1. UNCHANGED toServer /\ (toClient' = toClient \/ toClient' = AwaitData(toClient))
      BY <2>2 DEF CP!LoopTop, AwaitData, CP!AwaitData
    <3>2. CASE toClient' = toClient
      BY <1>2, <3>1, <3>2
    <3>3. CASE toClient' = AwaitData(toClient) /\ ~toClient.reading
      <4>1. S!ClientWaits
        BY <3>1, <3>3 DEF S!ClientWaits, AwaitData, S!AwaitData
      <4> QED BY <4>1 DEF S!ClientStep
    <3> QED BY <1>1, <3>1, <3>2, <3>3, WaitsOrNot DEF Wires
  <2>3. CASE ~CP!Fill(l) /\ ~CP!LoopTop(l)
    <3>1. UNCHANGED <<toServer, toClient>>
      BY <1>4, <2>3, OnlyResponses DEF CP!LoopStep, CP!LoopContextEnds, CP!Scan, CP!Skim,
         CP!NextLine, CP!HandlerReturns, CP!ScanEOF, CP!Lookup, CP!Deliver, CP!DeliverTimeout, CP!DeliverPanics, CP!Delete
    <3> QED BY <1>2, <3>1
  <2> QED BY <2>1, <2>2, <2>3
<1> QED BY <1>3, <1>4 DEF CP!Next

-----------------------------------------------------------------------------
(***************************************************************************)
(* The invariant is inductive.                                             *)
(***************************************************************************)
LEMMA InitIInv == Init => IInv
<1> SUFFICES ASSUME Init PROVE IInv
  OBVIOUS
<1>1. CP!Init /\ S!ServerInit /\ welcomed = FALSE
  BY SameClient DEF Init
<1>2. ClientInv
  BY <1>1, CP!InitTyped, CP!InitTable, CP!InitRoom, ConstantsFit DEF ClientInv
<1>3. ServerInv /\ todo = <<>> /\ out = <<>>
  <2>1. \A T : <<>> \in Seq(T)
    OBVIOUS
  <2> QED BY <1>1, <2>1 DEF ServerInv, S!ServerInit
<1>4. /\ PipesInv /\ toServer.queue = <<>> /\ toClient.queue = <<>>
      /\ \A c \in Callers : myId[c] = 0 /\ got[c] = NoOne /\ pc[c] = "idle"
                            /\ job[c] = "request"
      /\ \A l \in Loops : loop[l] = "off" /\ buffer[l] = <<>> /\ ~spoiled[l]
      /\ begun = NoOne
      /\ \A id \in CP!Ids : chan[id] = "none"
  <2>1. \A T : <<>> \in Seq(T)
    OBVIOUS
  <2> QED BY <1>1, <2>1 DEF PipesInv, CP!Init, CP!EmptyPipe
<1>5. Requests = {} /\ Responses = {}
  BY <1>3, <1>4 DEF Requests, Responses, Holding
<1>6. MessagesInv /\ CarriedInv
  BY <1>4, <1>5 DEF MessagesInv, CarriedInv, Holding
<1>7. InitializedAfterWelcome
  BY <1>4 DEF InitializedAfterWelcome
<1>8. ASSUME NEW id \in CP!Ids PROVE Single(id)
  <2>1. \A s, x : ~InPlace(id, s, x)
    BY <1>3, <1>4 DEF InPlace, InBuffer
  <2> QED BY <2>1, PlacesCount DEF OnePlace
<1>9. PlacesInv
  BY <1>4, <1>8 DEF PlacesInv, HeldInv, NotLost, Unanswered
<1>10. ReaderInv
  BY <1>4 DEF ReaderInv
<1> QED BY <1>1, <1>2, <1>3, <1>4, <1>6, <1>7, <1>9, <1>10 DEF IInv

LEMMA SteadySame ==
    ASSUME UNCHANGED loop
    PROVE  Steady' = Steady
  BY DEF Steady, Sole

\* A step that moves no message.
LEMMA QuietStep ==
    ASSUME IInv, UNCHANGED <<clientOnly, serverOnly, welcomed>>,
           toServer'.queue = toServer.queue, toClient'.queue = toClient.queue,
           toServer.closed => toServer'.closed
    PROVE  /\ ServerInv' /\ MessagesInv' /\ CarriedInv' /\ InitializedAfterWelcome'
           /\ ReaderInv' /\ PlacesInv'
<1> USE DEF clientOnly, serverOnly
<1>1. CallsMove
  BY IdleClient
<1>2. Requests' = Requests /\ Responses' = Responses
  BY DEF Requests, Responses
<1>3. MessagesInv'
  <2>1. \A m \in Requests' : AskedBy(m)'
    BY <1>1, <1>2, AskedStays DEF Requests, IInv, MessagesInv
  <2>2. \A m \in Responses' : AnswerTo(m)'
    BY <1>1, <1>2, AnswerStays DEF Responses, IInv, MessagesInv
  <2> QED BY <2>1, <2>2 DEF IInv, MessagesInv
<1>4. ServerInv' /\ CarriedInv' /\ InitializedAfterWelcome' /\ HeldInv'
  BY DEF IInv, ServerInv, CarriedInv, InitializedAfterWelcome, PlacesInv, HeldInv, Unanswered
<1>5. \A id : Places(id)' = Places(id)
  BY DEF Places, At
<1>6. NotLost' /\ \A id \in CP!Ids : Single(id)'
  BY <1>5, SteadySame DEF IInv, PlacesInv, NotLost, Single
<1>7. ReaderInv'
  BY SteadySame DEF IInv, ReaderInv
<1> QED BY <1>3, <1>4, <1>6, <1>7 DEF PlacesInv

LEMMA ClientInvStep ==
    ASSUME ClientInv, [CP!Next \/ CP!ServerStep]_(CP!vars)
    PROVE  ClientInv'
  BY CP!StepTyped, CP!StepTable, CP!StepRoom, ConstantsFit DEF ClientInv

\* A line is torn only by a second loop.
LEMMA ClientReaders ==
    ASSUME IInv, CP!Next
    PROVE  ReaderInv'
<1>1. /\ loop \in [Loops -> {"off", "top", "scan", "handler", "lookup", "deliver", "delete",
                            "ended"}]
      /\ begun \in Loops \cup {NoOne} /\ spoiled \in [Loops -> BOOLEAN] /\ ReaderInv
  BY ReadersTyped DEF IInv
<1>2. Steady' => Steady
  BY SteadyStays
<1>3. \A k \in Loops : loop[k] # "off" => loop'[k] # "off"
  <2>1. ASSUME NEW c \in Callers, CP!CallerStep(c), NEW k \in Loops, loop[k] # "off"
        PROVE  loop'[k] # "off"
    <3>1. loop' = loop \/ \E l \in Loops : loop' = [loop EXCEPT ![l] = "top"]
      BY <2>1 DEF CP!CallerStep, CP!SendRequest, CP!Initialize, CP!InitializeUnset,
         CP!SendNotification, CP!MarshalFails, CP!LockForWrite, CP!Write, CP!WriteFails,
         CP!ReceiveResponse, CP!GiveUp, CP!Cleanup, CP!ListTools, CP!ListAsks, CP!ListCrashes,
         CP!ListSaves, CP!ContextEnds, CP!loops
    <3> QED BY <1>1, <2>1, <3>1
  <2>2. ASSUME NEW l \in Loops, CP!LoopStep(l), NEW k \in Loops, loop[k] # "off"
        PROVE  loop'[k] # "off"
    <3>1. CASE TakesLine(l)
      <4>1. \E where \in {"lookup", "handler", "top"} : loop' = [loop EXCEPT ![l] = where]
        BY <3>1, LineTaken
      <4> QED BY <1>1, <2>2, <4>1
    <3>2. CASE CP!Fill(l)
      BY <2>2, <3>2, FillMoves
    <3>3. CASE ~TakesLine(l) /\ ~CP!Fill(l)
      <4>1. \/ loop' = loop
            \/ \E where \in {"top", "scan", "ended", "deliver", "delete"} :
                  loop' = [loop EXCEPT ![l] = where]
        BY <2>2, <3>3, OnlyResponses DEF CP!LoopStep, TakesLine, CP!LoopContextEnds, CP!LoopTop,
           CP!HandlerReturns, CP!ContinueOnError, CP!ScanEOF, CP!Lookup, CP!ContinueOnUnknown,
           CP!Deliver, CP!DeliverTimeout, CP!DeliverPanics, CP!Delete, CP!loops
      <4> QED BY <1>1, <2>2, <4>1
    <3> QED BY <3>1, <3>2, <3>3
  <2> QED BY <2>1, <2>2 DEF CP!Next
<1>4. CASE \E l \in Loops : CP!Fill(l)
  <2>1. PICK l \in Loops : CP!Fill(l)
    BY <1>4
  <2>2. /\ begun' \in {l, NoOne} /\ loop[l] = "scan" /\ loop' = loop
        /\ \E n \in BOOLEAN : spoiled' = [CP!Spoils(l) EXCEPT ![l] = n /\ CP!Garbled(l)]
    BY <2>1, FillMoves
  <2>3. ASSUME Steady', NEW k \in Loops PROVE ~spoiled'[k]
    <3>1. Steady /\ ~CP!Garbled(l)
      BY <1>2, <2>1, <2>2, <2>3, NotGarbled
    <3>2. k # l => begun # k
      BY <2>3, <3>1, StdioSystemAssumption DEF CP!Garbled
    <3>3. ~spoiled[k]
      BY <1>1, <3>1 DEF ReaderInv
    <3>4. PICK n \in BOOLEAN : spoiled' = [CP!Spoils(l) EXCEPT ![l] = n /\ CP!Garbled(l)]
      BY <2>2
    <3>5. CASE k = l
      <4>1. spoiled'[k] = (n /\ CP!Garbled(l))
        BY <3>4, <3>5 DEF CP!Spoils
      <4> QED BY <3>1, <4>1
    <3>6. CASE k # l
      <4>1. spoiled'[k] = (spoiled[k] \/ (k # l /\ begun = k))
        BY <3>4, <3>6 DEF CP!Spoils
      <4> QED BY <3>2, <3>3, <3>6, <4>1
    <3> QED BY <3>5, <3>6
  <2> QED BY <2>2, <2>3 DEF ReaderInv
<1>5. CASE \A l \in Loops : ~CP!Fill(l)
  <2>1. UNCHANGED <<begun, spoiled>>
    <3>1. ASSUME NEW l \in Loops, CP!LoopStep(l) PROVE UNCHANGED <<begun, spoiled>>
      BY <1>5, <3>1, OnlyResponses DEF CP!LoopStep, CP!LoopContextEnds, CP!LoopTop, CP!Scan,
         CP!Skim, CP!NextLine, CP!HandlerReturns, CP!ScanEOF, CP!Lookup, CP!Deliver,
         CP!DeliverTimeout, CP!DeliverPanics, CP!Delete, CP!loops, CP!scanners
    <3>2. ASSUME NEW c \in Callers, CP!CallerStep(c) PROVE UNCHANGED <<begun, spoiled>>
      BY <3>2 DEF CP!CallerStep, CP!SendRequest, CP!Initialize, CP!InitializeUnset,
         CP!SendNotification, CP!MarshalFails, CP!LockForWrite, CP!Write, CP!WriteFails,
         CP!ReceiveResponse, CP!GiveUp, CP!Cleanup, CP!ListTools, CP!ListAsks, CP!ListCrashes,
         CP!ListSaves, CP!ContextEnds, CP!loops, CP!scanners
    <3> QED BY <3>1, <3>2 DEF CP!Next
  <2> QED BY <1>1, <1>2, <1>3, <2>1 DEF ReaderInv
<1> QED BY <1>4, <1>5

LEMMA ClientStepKeeps ==
    ASSUME IInv, ClientStep
    PROVE  IInv'
<1>1. CP!Next /\ UNCHANGED serverOnly /\ UNCHANGED welcomed
  BY SameClient DEF ClientStep
<1>2. ClientInv'
  BY <1>1, ClientInvStep DEF IInv
<1>3. ServerInv'
  BY <1>1 DEF IInv, ServerInv, serverOnly
<1>4. /\ toClient'.closed = toClient.closed /\ toServer'.closed = toServer.closed
      /\ toClient'.queue \in Seq(S!Response)
  <2>1. Wires /\ toClient.queue \in Seq(S!Response)
    BY WiresTyped DEF IInv, ClientInv, PipesInv
  <2>2. toServer'.closed = toServer.closed
    <3>1. CASE \E c \in Callers : CP!Write(c)
      BY <2>1, <3>1 DEF CP!Write, CP!Put, Wires, Pipes
    <3>2. CASE ~\E c \in Callers : CP!Write(c)
      BY <1>1, <3>2, OnlyWrites
    <3> QED BY <3>1, <3>2
  <2>3. \/ toClient' = toClient \/ toClient' = CP!AwaitData(toClient)
        \/ /\ \E n \in 0 .. Len(toClient.queue) :
                 toClient'.queue = SubSeq(toClient.queue, n + 1, Len(toClient.queue))
           /\ toClient'.closed = toClient.closed
    <3>1. CASE \E l \in Loops : CP!Fill(l)
      BY <3>1, FillMoves
    <3>2. CASE \E l \in Loops : CP!LoopTop(l)
      BY <3>2 DEF CP!LoopTop
    <3>3. CASE \A l \in Loops : ~CP!Fill(l) /\ ~CP!LoopTop(l)
      <4>1. ASSUME NEW c \in Callers, CP!CallerStep(c) PROVE toClient' = toClient
        BY <4>1 DEF CP!CallerStep, CP!SendRequest, CP!SendNotification, CP!Initialize,
           CP!InitializeUnset, CP!MarshalFails, CP!LockForWrite, CP!Write, CP!WriteFails,
           CP!ReceiveResponse, CP!GiveUp, CP!Cleanup, CP!ListTools, CP!ListAsks,
           CP!ListCrashes, CP!ListSaves, CP!ContextEnds, CP!pipes
      <4>2. ASSUME NEW l \in Loops, CP!LoopStep(l) PROVE toClient' = toClient
        BY <3>3, <4>2, OnlyResponses DEF CP!LoopStep, CP!Scan, CP!Skim, CP!NextLine,
           CP!LoopContextEnds, CP!HandlerReturns, CP!ScanEOF, CP!Lookup, CP!Deliver,
           CP!DeliverTimeout, CP!DeliverPanics, CP!Delete, CP!pipes
      <4> QED BY <1>1, <4>1, <4>2 DEF CP!Next
    <3> QED BY <3>1, <3>2, <3>3
  <2>4. toClient'.closed = toClient.closed /\ toClient'.queue \in Seq(S!Response)
    <3>1. CASE toClient' = toClient \/ toClient' = CP!AwaitData(toClient)
      BY <2>1, <3>1 DEF CP!AwaitData, Wires, Pipes
    <3>2. ASSUME NEW n \in 0 .. Len(toClient.queue)
          PROVE  SubSeq(toClient.queue, n + 1, Len(toClient.queue)) \in Seq(S!Response)
      BY <2>1, <3>2
    <3> QED BY <2>3, <3>1, <3>2
  <2> QED BY <2>2, <2>4
<1>6. PipesInv'
  BY <1>1, <1>4 DEF IInv, PipesInv, serverOnly
<1>7. PlacesInv'
  BY <1>1, ClientPlaces, ClientHeld DEF PlacesInv
<1> QED
  BY <1>1, <1>2, <1>3, <1>6, <1>7, ClientMessages, ClientCarried, ClientWelcomed,
     ClientReaders DEF IInv

LEMMA ServerStepKeeps ==
    ASSUME IInv, ServerStep
    PROVE  IInv'
<1>1. Wires /\ S!ServerNext /\ UNCHANGED clientOnly /\ ServerInv /\ PipesInv
  BY WiresTyped DEF IInv, ClientInv, ServerStep
<1>2. (Reads \/ Handles \/ Responds \/ Stays) /\ ServerInv'
  BY <1>1, ServerMoves
<1>3. ClientInv'
  BY <1>2, ServerSeen, ClientInvStep DEF IInv
<1>4. PipesInv' /\ toServer'.closed = toServer.closed
  <2>1. toServer'.closed = toServer.closed /\ toClient'.closed = toClient.closed
    BY <1>1, <1>2 DEF Reads, Handles, Responds, Stays, Take, Put, AwaitData, Wires, Pipes
  <2>2. toClient'.queue \in Seq(S!Response)
    <3>1. CASE Responds
      <4>1. Head(out) \in S!Response
        BY <1>1, <3>1, OneItem DEF ServerInv, Responds
      <4> QED BY <1>1, <3>1, <4>1 DEF Responds, Put, Wires, Pipes, PipesInv
    <3>2. CASE ~Responds
      BY <1>1, <1>2, <3>2 DEF Reads, Handles, Stays, PipesInv
    <3> QED BY <3>1, <3>2
  <2>3. srv = "ended" => srv' = "ended"
    BY <1>1 DEF S!ServerNext, S!LoopNext, S!Top, S!Decode, S!DecodeBroken, S!DecodeEOF,
       S!HandleRequest, S!Write, S!WriteFails, S!StopCalled, S!StopReturns, S!ContextEnds
  <2> QED BY <1>1, <2>1, <2>2, <2>3 DEF PipesInv
<1>5. CarriedInv' /\ HeldInv'
  BY <1>1 DEF IInv, CarriedInv, PlacesInv, HeldInv, Unanswered, clientOnly
<1>6. ASSUME NEW id \in CP!Ids PROVE Single(id)'
  BY <1>2, <1>6, ServerPlaces, PlacesCountNext
<1>7. NotLost'
  <2> SUFFICES ASSUME NEW c \in Callers, pc'[c] = "waiting", ~toServer'.closed, Steady'
               PROVE  (Places(myId[c]) # {})'
    BY DEF NotLost
  <2>1. PICK id \in CP!Ids : id = myId[c] /\ myId'[c] = id /\ pc[c] = "waiting" /\ Steady
    BY <1>1, SteadySame DEF clientOnly, IInv, ClientInv, CP!TypeInv, CP!TypeOK, CP!CallInv
  <2>2. SomePlace(id)
    BY <1>4, <2>1, PlacesCount DEF IInv, PlacesInv, NotLost
  <2>3. SomePlace(id)'
    BY <1>2, <2>2, ServerPlaces
  <2>4. (Places(id) # {})'
    BY <2>3, PlacesCountNext
  <2> QED BY <2>1, <2>4
<1>8. MessagesInv' /\ InitializedAfterWelcome'
  BY <1>2, ServerMessages
<1>9. welcomed' \in BOOLEAN
  BY DEF ServerStep
<1>10. ReaderInv'
  BY <1>1, SteadySame DEF clientOnly, IInv, ReaderInv
<1> QED BY <1>2, <1>3, <1>4, <1>5, <1>6, <1>7, <1>8, <1>9, <1>10 DEF IInv, PlacesInv

LEMMA ExitKeeps ==
    ASSUME IInv, ServerExits
    PROVE  IInv'
<1>1. Wires /\ CP!ServerExits
  BY WiresTyped DEF IInv, ClientInv, ServerExits, CP!ServerExits, Shut, CP!Shut, clientOnly,
     CP!table, CP!callers, CP!loops, CP!scanners
<1>2. ClientInv'
  BY <1>1, ClientInvStep DEF IInv, CP!ServerStep
<1>3. /\ toServer'.queue = toServer.queue /\ toClient'.queue = toClient.queue
      /\ toServer'.closed /\ toClient'.closed
  BY <1>1 DEF ServerExits, Shut, Wires, Pipes
<1>4. PipesInv'
  BY <1>3 DEF IInv, PipesInv, ServerExits, serverOnly
<1>5. /\ ServerInv' /\ MessagesInv' /\ CarriedInv' /\ InitializedAfterWelcome'
      /\ ReaderInv' /\ PlacesInv'
  BY <1>3, QuietStep DEF ServerExits
<1> QED BY <1>2, <1>4, <1>5 DEF IInv, ServerExits

LEMMA IInvStep == IInv /\ [Next]_sysVars => IInv'
<1> SUFFICES ASSUME IInv, [Next]_sysVars PROVE IInv'
  OBVIOUS
<1>1. CASE UNCHANGED sysVars
  <2>1. UNCHANGED CP!vars
    BY <1>1 DEF sysVars, clientOnly, CP!vars
  <2>2. ClientInv'
    BY <2>1, ClientInvStep DEF IInv
  <2>3. PipesInv'
    BY <1>1 DEF IInv, PipesInv, sysVars, serverOnly
  <2>4. /\ ServerInv' /\ MessagesInv' /\ CarriedInv' /\ InitializedAfterWelcome'
        /\ ReaderInv' /\ PlacesInv'
    BY <1>1, QuietStep DEF sysVars
  <2> QED BY <1>1, <2>2, <2>3, <2>4 DEF IInv, sysVars
<1> QED BY <1>1, ClientStepKeeps, ServerStepKeeps, ExitKeeps DEF Next

\* The inductive invariant of the system.
THEOREM SystemInvariant == Spec => []IInv
<1> QED BY InitIInv, IInvStep, PTL DEF Spec

-----------------------------------------------------------------------------
\* The client runs as StdioClient says it may with any server, so all that is
\* proved of that module is true in the system (client stdio.go:99-416 with
\* server stdio.go:69-251).
THEOREM ClientRunsOpen == Spec => C!OpenSpec
<1>1. Init => C!Init
  BY DEF Init
<1>2. IInv /\ [Next]_sysVars => [C!Next \/ C!ServerStep]_(C!vars)
  <2> SUFFICES ASSUME IInv, [Next]_sysVars PROVE C!Next \/ C!ServerStep \/ UNCHANGED C!vars
    OBVIOUS
  <2>1. CASE ClientStep
    BY <2>1 DEF ClientStep
  <2>2. CASE ServerStep
    <3>1. Reads \/ Handles \/ Responds \/ Stays
      BY <2>2, ServerMoves, WiresTyped DEF ServerStep, IInv, ClientInv
    <3>2. CP!ServerStep \/ UNCHANGED CP!vars
      BY <2>2, <3>1, ServerSeen
    <3>3. C!vars' = CP!vars' /\ C!vars = CP!vars
      BY DEF C!vars, CP!vars
    <3> QED BY <3>2, <3>3, SameClient
  <2>3. CASE ServerExits
    <3>1. C!ServerExits
      BY <2>3 DEF ServerExits, C!ServerExits, Shut, C!Shut, clientOnly, C!table, C!callers,
         C!loops, C!scanners
    <3> QED BY <3>1 DEF C!ServerStep
  <2>4. CASE UNCHANGED sysVars
    BY <2>4 DEF sysVars, clientOnly, C!vars
  <2> QED BY <2>1, <2>2, <2>3, <2>4 DEF Next
<1> QED BY <1>1, <1>2, SystemInvariant, PTL DEF Spec, C!OpenSpec

\* The server runs as StdioServer says it may with any client, so all that is
\* proved of that module is true in the system.
THEOREM ServerRunsOpen == Spec => S!OpenSpec
<1>1. Init => S!OpenInit
  BY SameClient DEF Init, S!OpenInit, CP!Init, CP!EmptyPipe, S!EmptyPipe
<1>2. IInv /\ [Next]_sysVars => [S!ServerNext \/ S!ClientStep]_(S!serverVars)
  <2> SUFFICES ASSUME IInv, [Next]_sysVars
               PROVE  S!ServerNext \/ S!ClientStep \/ UNCHANGED S!serverVars
    OBVIOUS
  <2>1. CASE ClientStep
    BY <2>1, ClientSeen, SameClient DEF ClientStep
  <2>2. CASE ServerStep
    BY <2>2 DEF ServerStep
  <2>3. CASE ServerExits
    <3>1. S!ClientCloses
      BY <2>3 DEF ServerExits, S!ClientCloses, Shut, S!Shut, serverOnly, S!work, S!stopping
    <3> QED BY <3>1 DEF S!ClientStep
  <2>4. CASE UNCHANGED sysVars
    BY <2>4 DEF sysVars, serverOnly, S!serverVars
  <2> QED BY <2>1, <2>2, <2>3, <2>4 DEF Next
<1> QED BY <1>1, <1>2, SystemInvariant, PTL DEF Spec, S!OpenSpec

\* Whatever calls overlap, time out and leave late responses behind, a call
\* gets an answer to its own question (client stdio.go:362-416 with 99-189,
\* server stdio.go:69-251).
THEOREM QuestionsGetTheirAnswers == Spec => []AnswersMyQuestion
<1>1. IInv => AnswersMyQuestion
  <2> SUFFICES ASSUME IInv, NEW c \in Callers, got[c] # NoOne
               PROVE  got[c].id = myId[c] /\ got[c].reply \in S!ReplyTo(ask[c])
    BY DEF AnswersMyQuestion
  <2>1. got[c] \in S!Response /\ got[c].id = myId[c] /\ myId[c] # 0
    BY SameMessages DEF IInv, ClientInv, CP!TypeInv, CP!TypeOK, CP!CallInv, CP!TableInv,
       CP!OwnResponse
  <2>2. got[c] \in Responses
    BY <2>1 DEF Responses
  <2> QED BY <2>1, <2>2 DEF IInv, MessagesInv, AnswerTo
<1> QED BY <1>1, SystemInvariant, PTL

\* The server is told that the client is initialized only after it has accepted
\* an initialize request (client stdio.go:204-235, server stdio.go:112-170).
THEOREM WelcomeComesFirst == Spec => []InitializedAfterWelcome
<1>1. IInv => InitializedAfterWelcome
  BY DEF IInv
<1> QED BY <1>1, SystemInvariant, PTL

\* However many loops read, a request or its response is in at most one place on
\* its way from the write of the caller and back to its select: none is handled
\* or delivered twice.  It is in one as long as the caller waits, the server has
\* not exited and the only readLoop goes on; nothing is said of what a second
\* Initialize tears or what an ended loop had buffered (client stdio.go:99-189
\* and 362-416, server stdio.go:69-251).
THEOREM NothingIsLostOrDoubled == Spec => []ExactlyOnce
<1>1. IInv => ExactlyOnce
  <2> SUFFICES ASSUME IInv PROVE ExactlyOnce
    OBVIOUS
  <2>1. ASSUME NEW id \in CP!Ids
        PROVE  Places(id) = {} \/ Cardinality(Places(id)) = 1
    <3>1. ASSUME NEW p \in Places(id) PROVE Cardinality(Places(id)) = 1
      <4>1. Places(id) = {p}
        BY <3>1 DEF IInv, PlacesInv, Single
      <4> QED BY <4>1, FS_Singleton
    <3> QED BY <3>1
  <2>2. Cardinality({}) = 0
    BY FS_EmptySet
  <2>3. \A id \in CP!Ids : Cardinality(Places(id)) <= 1
    <3> SUFFICES ASSUME NEW id \in CP!Ids PROVE Cardinality(Places(id)) <= 1
      OBVIOUS
    <3> QED BY <2>1, <2>2
  <2>4. ASSUME NEW c \in Callers, pc[c] = "waiting", ~toServer.closed, Steady
        PROVE  Cardinality(Places(myId[c])) = 1
    <3>1. myId[c] \in CP!Ids /\ Places(myId[c]) # {}
      BY <2>4 DEF IInv, ClientInv, CP!TypeInv, CP!TypeOK, CP!CallInv, PlacesInv, NotLost
    <3> QED BY <2>1, <3>1
  <2>5. C!Ids = CP!Ids
    BY DEF C!Ids, CP!Ids
  <2> QED BY <2>3, <2>4, <2>5 DEF ExactlyOnce
<1> QED BY <1>1, SystemInvariant, PTL

-----------------------------------------------------------------------------
(***************************************************************************)
(* What it takes to kill the client.                                       *)
(***************************************************************************)
NobodyGivesUp == \A c \in Callers : ~expired[c]

\* One ListTools at a time is about to read or write the remembered method.
OneAtATime ==
    \A c, d \in Callers : c # d /\ pc[c] \in {"next", "save"} => pc[d] \notin {"next", "save"}

\* What is under way belongs to a call that waits for it, and so no loop finds a
\* channel that its call closes before the send.
WaitedFor(id) == \E c \in Callers : pc[c] = "waiting" /\ myId[c] = id
NothingIsLate == \A id \in CP!Ids : SomePlace(id) => WaitedFor(id)
SendsOnOpen == \A l \in Loops : loop[l] = "deliver" => chan[line[l].id] # "closed"

AliveInv == ~panicked /\ NothingIsLate /\ SendsOnOpen

\* A call leaves its select only with a response, or when its context ends.
LEMMA GoesOnWaiting ==
    ASSUME IInv, CP!Next, NEW c \in Callers, pc[c] = "waiting"
    PROVE  \/ pc'[c] = "waiting" /\ myId'[c] = myId[c]
           \/ CP!ReceiveResponse(c) \/ CP!GiveUp(c)
<1> USE DEF CP!table, CP!callers, CP!loops, CP!scanners, CP!pipes
<1> DEFINE Waits == pc'[c] = "waiting" /\ myId'[c] = myId[c]
<1>1. DOMAIN pc = Callers /\ DOMAIN myId = Callers
  BY DEF IInv, ClientInv, CP!TypeInv, CP!TypeOK
<1>2. ASSUME NEW d \in Callers, CP!CallerStep(d), ~CP!ReceiveResponse(c), ~CP!GiveUp(c)
      PROVE  Waits
  <2>1. CASE (\E q \in Questions : CP!SendRequest(d, q)) \/ (\E l \in Loops : CP!Initialize(d, l))
             \/ CP!ListAsks(d)
    BY <1>1, <2>1 DEF CP!SendRequest, CP!Initialize, CP!ListAsks, CP!Register
  <2>2. CASE \/ \E n \in Notices : CP!SendNotification(d, n)
             \/ \E l \in Loops : CP!InitializeUnset(d, l)
             \/ CP!MarshalFails(d) \/ CP!LockForWrite(d) \/ CP!Write(d) \/ CP!WriteFails(d)
             \/ CP!ReceiveResponse(d) \/ CP!GiveUp(d)
             \/ CP!ListTools(d) \/ CP!ListCrashes(d) \/ CP!ListSaves(d) \/ CP!ContextEnds(d)
    BY <1>1, <1>2, <2>2 DEF CP!SendNotification, CP!InitializeUnset, CP!MarshalFails,
       CP!LockForWrite, CP!Write, CP!WriteFails, CP!ReceiveResponse, CP!GiveUp, CP!ListTools, CP!ListCrashes,
       CP!ListSaves, CP!ContextEnds
  <2>3. CASE CP!Cleanup(d)
    BY <1>1, <2>3 DEF CP!Cleanup, CP!GoesOn
  <2> QED BY <1>2, <2>1, <2>2, <2>3 DEF CP!CallerStep
<1>3. ASSUME NEW l \in Loops, CP!LoopStep(l) PROVE Waits
  <2>1. UNCHANGED <<pc, myId>>
    BY <1>3, OnlyResponses DEF CP!LoopStep, CP!LoopContextEnds, CP!LoopTop, CP!Fill, CP!Scan,
       CP!Skim, CP!NextLine, CP!HandlerReturns, CP!ScanEOF, CP!Lookup, CP!Deliver, CP!DeliverTimeout,
       CP!DeliverPanics, CP!Delete
  <2> QED BY <2>1
<1> QED BY <1>2, <1>3 DEF CP!Next

LEMMA ClientLate ==
    ASSUME IInv, NothingIsLate, NobodyGivesUp, CP!Next, UNCHANGED serverOnly
    PROVE  NothingIsLate'
<1> SUFFICES ASSUME NEW id \in CP!Ids, SomePlace(id)'
             PROVE  \E c \in Callers : pc'[c] = "waiting" /\ myId'[c] = id
  BY DEF NothingIsLate, WaitedFor
<1>1. CASE \E c \in Callers : CP!Write(c) /\ CP!IsRequest(c) /\ myId[c] = id
  <2>1. PICK c \in Callers : CP!Write(c) /\ CP!IsRequest(c) /\ myId[c] = id
    BY <1>1
  <2>2. pc' = [pc EXCEPT ![c] = "waiting"] /\ myId' = myId /\ DOMAIN pc = Callers
    BY <2>1 DEF CP!Write, IInv, ClientInv, CP!TypeInv, CP!TypeOK
  <2> QED BY <2>1, <2>2
<1>2. CASE SomePlace(id)
  <2>1. PICK c \in Callers : pc[c] = "waiting" /\ myId[c] = id
    BY <1>2 DEF NothingIsLate, WaitedFor
  <2>2. CASE CP!ReceiveResponse(c)
    <3>1. /\ UNCHANGED <<loop, myId>>
          /\ chan[id] = "full" /\ chan' = [chan EXCEPT ![id] = "open"]
          /\ DOMAIN pc = Callers /\ DOMAIN chan = CP!Ids /\ DOMAIN loop = Loops
          /\ pc' = [pc EXCEPT ![c] = "cleanup"]
      BY <2>1, <2>2 DEF CP!ReceiveResponse, CP!OwnRequest, CP!loops, IInv, ClientInv,
         CP!TypeInv, CP!TypeOK
    <3>2. \A d \in Callers : ~CP!Write(d)
      BY <2>1, <3>1 DEF CP!Write
    <3>3. \A l \in Loops : ~Moves(l)
      <4>1. UNCHANGED <<loop, buffer, begun>>
        BY <2>2 DEF CP!ReceiveResponse, CP!loops, CP!scanners
      <4> QED BY <3>1, <4>1, LineTaken, FillChanges DEF Moves, CP!Deliver
    <3>4. \A s, x : InPlace(id, s, x)' => InPlace(id, s, x)
      BY <3>2, <3>3, OtherPlaces
    <3>5. OnePlace(id) /\ InPlace(id, "channel", c)
      BY <2>1, <3>1, PlacesCount DEF IInv, PlacesInv, InPlace
    <3>6. \A x : ~InPlace(id, "channel", x)'
      BY <3>1 DEF InPlace
    <3> QED BY <3>4, <3>5, <3>6 DEF OnePlace, SomePlace
  <2>3. CASE CP!GiveUp(c)
    BY <2>3 DEF CP!GiveUp, NobodyGivesUp
  <2> QED BY <2>1, <2>2, <2>3, GoesOnWaiting
<1>3. SomePlace(id) \/ \E c \in Callers : CP!Write(c) /\ CP!IsRequest(c) /\ myId[c] = id
  <2>1. CASE \E c \in Callers : CP!Write(c)
    BY <2>1, WritePlaces
  <2>2. CASE \E l \in Loops : Moves(l)
    BY <2>2, TakePlaces, DeliverPlaces, FillPlaces DEF Moves
  <2>3. CASE (\A c \in Callers : ~CP!Write(c)) /\ \A l \in Loops : ~Moves(l)
    <3>1. \A s, x : InPlace(id, s, x)' => InPlace(id, s, x)
      BY <2>3, OtherPlaces
    <3> QED BY <3>1 DEF SomePlace
  <2> QED BY <2>1, <2>2, <2>3
<1> QED BY <1>1, <1>2, <1>3

\* The rest of the system moves what is under way, and brings nothing to a call
\* that does not wait.
LEMMA LateStep ==
    IInv /\ NothingIsLate /\ NobodyGivesUp /\ [Next]_sysVars => NothingIsLate'
<1> SUFFICES ASSUME IInv, NothingIsLate, NobodyGivesUp, [Next]_sysVars
             PROVE  NothingIsLate'
  OBVIOUS
<1>1. CASE ClientStep
  BY <1>1, SameClient, ClientLate DEF ClientStep
<1>2. ASSUME UNCHANGED clientOnly, \A id \in CP!Ids : SomePlace(id)' => SomePlace(id)
      PROVE  NothingIsLate'
  BY <1>2 DEF clientOnly, NothingIsLate, WaitedFor
<1>3. CASE ServerStep
  <2>1. Reads \/ Handles \/ Responds \/ Stays
    BY <1>3, ServerMoves, WiresTyped DEF ServerStep, IInv, ClientInv
  <2> QED BY <1>2, <1>3, <2>1, ServerPlaces DEF ServerStep
<1>4. CASE ServerExits \/ UNCHANGED sysVars
  <2>1. UNCHANGED <<clientOnly, serverOnly>> /\ toServer'.queue = toServer.queue
        /\ toClient'.queue = toClient.queue
    BY <1>4, WiresTyped DEF IInv, ClientInv, Wires, Pipes, ServerExits, Shut, sysVars
  <2>2. \A id, s, x : InPlace(id, s, x)' => InPlace(id, s, x)
    BY <2>1 DEF InPlace, InBuffer, clientOnly, serverOnly
  <2> QED BY <1>2, <2>1, <2>2 DEF SomePlace
<1> QED BY <1>1, <1>3, <1>4 DEF Next

LEMMA InitLate == Init => NothingIsLate
<1> SUFFICES ASSUME Init, NEW id \in CP!Ids, NEW s, NEW x, InPlace(id, s, x) PROVE FALSE
  BY DEF NothingIsLate, SomePlace
<1>1. /\ toServer.queue = <<>> /\ toClient.queue = <<>> /\ todo = <<>> /\ out = <<>>
      /\ loop = [l \in Loops |-> "off"] /\ chan = [i \in CP!Ids |-> "none"]
      /\ buffer = [l \in Loops |-> <<>>]
  BY SameClient DEF Init, CP!Init, S!ServerInit, CP!EmptyPipe
<1> QED BY <1>1 DEF InPlace, InBuffer

LEMMA ClientSends ==
    ASSUME IInv, AliveInv, CP!Next
    PROVE  SendsOnOpen'
<1> USE DEF CP!table, CP!callers, CP!loops, CP!scanners, CP!pipes
<1>1. /\ loop \in [Loops -> {"off", "top", "scan", "handler", "lookup", "deliver", "delete",
                            "ended"}]
      /\ line \in [Loops -> S!Response \cup {NoOne}]
      /\ chan \in [CP!Ids -> {"none", "open", "full", "closed"}]
      /\ \A l \in Loops : loop[l] = "deliver" => line[l].id \in CP!Ids
      /\ SendsOnOpen /\ NothingIsLate
  BY SameMessages DEF IInv, ClientInv, CP!TypeInv, CP!TypeOK, CP!RoomInv, CP!HeldIds, AliveInv
<1>2. ASSUME NEW c \in Callers, NEW q, CP!Register(c, q), line' = line,
             \A l \in Loops : loop'[l] = "deliver" => loop[l] = "deliver"
      PROVE  SendsOnOpen'
  BY <1>1, <1>2 DEF CP!Register, SendsOnOpen
<1>3. ASSUME NEW c \in Callers, CP!CallerStep(c) PROVE SendsOnOpen'
  <2>1. CASE \E q \in Questions : CP!SendRequest(c, q)
    BY <2>1, <1>2 DEF CP!SendRequest
  <2>2. CASE \E l \in Loops : CP!Initialize(c, l)
    BY <2>2, <1>1, <1>2 DEF CP!Initialize
  <2>3. CASE CP!ListAsks(c)
    BY <2>3, <1>2 DEF CP!ListAsks
  <2>4. CASE \/ \E n \in Notices : CP!SendNotification(c, n)
             \/ CP!MarshalFails(c) \/ CP!LockForWrite(c) \/ CP!Write(c) \/ CP!WriteFails(c) \/ CP!GiveUp(c)
             \/ CP!ListTools(c) \/ CP!ListCrashes(c) \/ CP!ListSaves(c) \/ CP!ContextEnds(c)
    BY <2>4, <1>1 DEF SendsOnOpen, CP!SendNotification, CP!MarshalFails, CP!LockForWrite, CP!Write,
       CP!WriteFails, CP!GiveUp, CP!ListTools, CP!ListCrashes, CP!ListSaves, CP!ContextEnds
  <2>5. CASE \E l \in Loops : CP!InitializeUnset(c, l)
    BY <2>5, <1>1 DEF SendsOnOpen, CP!InitializeUnset
  <2>6. CASE CP!ReceiveResponse(c)
    BY <2>6, <1>1 DEF SendsOnOpen, CP!ReceiveResponse
  <2>7. CASE CP!Cleanup(c)
    <3>1. ASSUME NEW l \in Loops, loop[l] = "deliver" PROVE line[l].id # myId[c]
      <4>1. ~SomePlace(myId[c])
        <5>1. pc[c] = "cleanup" /\ myId[c] \in CP!Ids /\ myId[c] # 0
          BY <2>7, StdioSystemAssumption DEF CP!Cleanup, CP!Ids, IInv, ClientInv, CP!TypeInv,
             CP!TypeOK, CP!CallInv
        <5>2. ~WaitedFor(myId[c])
          BY <5>1 DEF WaitedFor, IInv, ClientInv, CP!TableInv, CP!IdsDistinct, CP!InFlight
        <5> QED BY <1>1, <5>1, <5>2 DEF NothingIsLate
      <4>2. line[l].id = myId[c] => InPlace(myId[c], "readLoop", l)
        BY <3>1 DEF InPlace
      <4> QED BY <4>1, <4>2 DEF SomePlace
    <3> QED BY <2>7, <1>1, <3>1 DEF SendsOnOpen, CP!Cleanup, CP!RemoveEntry
  <2> QED BY <1>3, <2>1, <2>2, <2>3, <2>4, <2>5, <2>6, <2>7 DEF CP!CallerStep
<1>4. ASSUME NEW l \in Loops, CP!LoopStep(l) PROVE SendsOnOpen'
  <2>1. CASE CP!Lookup(l)
    <3>1. line[l].id \in pending => chan[line[l].id] # "closed"
      BY DEF IInv, ClientInv, CP!TableInv, CP!PendingOpen
    <3> QED BY <2>1, <1>1, <3>1 DEF SendsOnOpen, CP!Lookup, CP!ContinueOnUnknown
  <2>2. CASE CP!Deliver(l)
    BY <2>2, <1>1 DEF SendsOnOpen, CP!Deliver
  <2>3. CASE CP!LoopTop(l) \/ CP!Delete(l)
    BY <2>3, <1>1 DEF SendsOnOpen, CP!LoopTop, CP!Delete
  <2>5. CASE TakesLine(l)
    <3>1. \A k \in Loops : loop'[k] = "deliver" => loop[k] = "deliver" /\ line'[k] = line[k]
      BY <2>5, LineTaken
    <3>2. chan' = chan
      BY <2>5, LineTaken
    <3> QED BY <1>1, <3>1, <3>2 DEF SendsOnOpen
  <2>6. CASE CP!Fill(l)
    BY <2>6, <1>1, FillMoves DEF SendsOnOpen
  <2>4. CASE CP!LoopContextEnds(l) \/ CP!HandlerReturns(l) \/ CP!ScanEOF(l)
             \/ CP!DeliverTimeout(l) \/ CP!DeliverPanics(l)
    BY <2>4, <1>1 DEF SendsOnOpen, CP!LoopContextEnds, CP!HandlerReturns, CP!ContinueOnError,
       CP!ScanEOF, CP!DeliverTimeout, CP!DeliverPanics
  <2> QED BY <1>4, <2>1, <2>2, <2>3, <2>4, <2>5, <2>6, OnlyResponses DEF CP!LoopStep, TakesLine
<1> QED BY <1>3, <1>4 DEF CP!Next

LEMMA ClientLives ==
    ASSUME IInv, AliveInv, OneAtATime, CP!Next
    PROVE  ~panicked'
<1> USE DEF CP!table, CP!callers, CP!loops, CP!scanners, CP!pipes
<1>1. ASSUME NEW c \in Callers, CP!ListCrashes(c) PROVE FALSE
  <2>1. pc[c] = "next" /\ CP!Sees(c) # {cached}
    BY <1>1 DEF CP!ListCrashes, CP!Torn
  <2>2. \A d \in Callers \ {c} : pc[d] \notin {"next", "save"}
    BY <2>1 DEF OneAtATime
  <2>3. CP!Saving \ {c} = {} /\ CP!Clearing \ {c} = {}
    BY <2>2 DEF CP!Saving, CP!Clearing
  <2>4. CP!Sees(c) = {cached}
    BY <2>3 DEF CP!Sees
  <2> QED BY <2>1, <2>4
<1>2. ASSUME NEW l \in Loops, CP!DeliverPanics(l) PROVE FALSE
  BY <1>2 DEF CP!DeliverPanics, AliveInv, SendsOnOpen
<1>3. ASSUME NEW c \in Callers, CP!CallerStep(c) PROVE panicked' = panicked
  BY <1>1, <1>3 DEF CP!CallerStep, CP!SendRequest, CP!SendNotification, CP!Initialize,
     CP!InitializeUnset, CP!MarshalFails, CP!LockForWrite, CP!Write, CP!WriteFails,
     CP!ReceiveResponse, CP!GiveUp, CP!Cleanup, CP!ListTools, CP!ListAsks, CP!ListSaves, CP!ContextEnds
<1>4. ASSUME NEW l \in Loops, CP!LoopStep(l) PROVE panicked' = panicked
  BY <1>2, <1>4, OnlyResponses DEF CP!LoopStep, CP!LoopContextEnds, CP!LoopTop, CP!Fill, CP!Scan,
     CP!Skim, CP!NextLine, CP!HandlerReturns, CP!ScanEOF, CP!Lookup, CP!Deliver, CP!DeliverTimeout,
     CP!Delete
<1> QED BY <1>3, <1>4 DEF CP!Next, AliveInv

LEMMA AliveStep ==
    IInv /\ AliveInv /\ NobodyGivesUp /\ OneAtATime /\ [Next]_sysVars => AliveInv'
<1> SUFFICES ASSUME IInv, AliveInv, NobodyGivesUp, OneAtATime, [Next]_sysVars
             PROVE  AliveInv'
  OBVIOUS
<1>1. NothingIsLate'
  BY LateStep DEF AliveInv
<1>2. CASE ClientStep
  BY <1>1, <1>2, SameClient, ClientSends, ClientLives DEF ClientStep, AliveInv
<1>3. CASE UNCHANGED clientOnly
  BY <1>1, <1>3 DEF clientOnly, AliveInv, SendsOnOpen
<1> QED BY <1>2, <1>3 DEF Next, ServerStep, ServerExits, sysVars

\* The client may die (the run client_panic), but only of two things: a call whose
\* context ends, and ListTools calls that overlap.  While neither happens, every
\* send of readLoop finds an open channel, however many loops there are, also when
\* the server exits (client stdio.go:159-189, 237-282 and 362-416).
THEOREM TwoWaysToPanic == Spec /\ [](NobodyGivesUp /\ OneAtATime) => []C!NoPanic
<1>1. Init => AliveInv
  <2> SUFFICES ASSUME Init PROVE AliveInv
    OBVIOUS
  <2>1. CP!Init
    BY SameClient DEF Init
  <2> QED BY <2>1, InitLate DEF CP!Init, AliveInv, SendsOnOpen
<1>2. AliveInv => C!NoPanic
  BY DEF AliveInv, C!NoPanic
<1> QED BY <1>1, <1>2, AliveStep, SystemInvariant, PTL DEF Spec

-----------------------------------------------------------------------------
(***************************************************************************)
(* What it takes to block everybody.                                       *)
(***************************************************************************)
NobodyNotifies == \A c \in Callers : job[c] \notin Notices

\* Without such a notification each response answers a request.
RequestsOnly ==
    /\ \A i \in DOMAIN toServer.queue : toServer.queue[i].kind \notin Notices
    /\ \A i \in DOMAIN todo : todo[i].kind \notin Notices
    /\ \A m \in Responses : m.id # 0

LEMMA OnlyRequestsStep ==
    IInv /\ RequestsOnly /\ NobodyNotifies /\ [Next]_sysVars => RequestsOnly'
<1> SUFFICES ASSUME IInv, RequestsOnly, NobodyNotifies, [Next]_sysVars
             PROVE  RequestsOnly'
  OBVIOUS
<1> DEFINE q == toServer.queue
<1>1. Wires /\ ServerInv /\ q \in Seq(CP!FromClient) /\ toClient.queue \in Seq(S!Response)
  BY WiresTyped DEF IInv, ClientInv, Wires, Pipes, PipesInv
<1>2. CASE ClientStep
  <2>1. CP!Next /\ UNCHANGED serverOnly /\ todo' = todo
    BY <1>2, SameClient DEF ClientStep, serverOnly
  <2>2. \A m \in Responses' : m.id # 0
    BY <2>1, ClientResponses DEF RequestsOnly
  <2>3. ASSUME NEW c \in Callers, CP!Write(c), NEW i \in DOMAIN toServer'.queue
        PROVE  toServer'.queue[i].kind \notin Notices
    <3>1. toServer'.queue = Append(q, CP!Outgoing(c))
      BY <1>1, <2>3 DEF Wires, Pipes, CP!Write, CP!Put
    <3>2. CP!Outgoing(c).kind \notin Notices
      BY StdioSystemAssumption DEF NobodyNotifies, CP!Outgoing
    <3> QED BY <1>1, <3>1, <3>2, PutItem DEF RequestsOnly
  <2>4. UNCHANGED toServer \/ \E c \in Callers : CP!Write(c)
    BY <2>1, OnlyWrites
  <2> QED BY <2>1, <2>2, <2>3, <2>4 DEF RequestsOnly
<1>3. CASE ServerStep
  <2>1. (Reads \/ Handles \/ Responds \/ Stays) /\ UNCHANGED clientOnly
    BY <1>1, <1>3, ServerMoves DEF ServerStep, IInv
  <2>2. ASSUME NEW m \in Responses' PROVE m.id # 0
    <3>1. CASE m \in Responses
      BY <3>1 DEF RequestsOnly
    <3>2. CASE Handles /\ out' = <<m>>
      <4> DEFINE r == Head(todo)
      <4>1. r \in S!Single /\ 1 \in DOMAIN todo /\ r = todo[1]
        BY <1>1, <3>2, OneItem, FirstItem DEF ServerInv, Handles
      <4>2. r.kind # "initialized"
        BY <3>2 DEF Handles, S!Responses, S!NoResponse
      <4>3. r.kind = "request" /\ r.id # 0
        BY <4>1, <4>2, StdioSystemAssumption DEF RequestsOnly, S!Single
      <4> QED BY <3>2, <4>1, <4>3, ResponsesOf DEF Handles
    <3> QED BY <1>1, <2>1, <3>1, <3>2, ServerResponses
  <2>3. CASE Reads
    <3>1. q # <<>> /\ toServer'.queue = Tail(q) /\ todo' = <<Head(q)>>
      BY <2>3 DEF Reads, Take
    <3>2. \A i \in DOMAIN toServer'.queue : toServer'.queue[i].kind \notin Notices
      BY <1>1, <3>1, TakenItem DEF RequestsOnly
    <3>3. \A i \in DOMAIN todo' : todo'[i].kind \notin Notices
      BY <1>1, <3>1, FirstItem DEF RequestsOnly
    <3> QED BY <2>2, <3>2, <3>3 DEF RequestsOnly
  <2>4. CASE Handles \/ Responds \/ Stays
    <3>1. toServer'.queue = q /\ (todo' = todo \/ todo' = <<>>)
      BY <1>1, <2>4 DEF Handles, Responds, Stays, AwaitData, Wires, Pipes
    <3> QED BY <2>2, <3>1 DEF RequestsOnly
  <2> QED BY <2>1, <2>3, <2>4
<1>4. CASE ServerExits \/ UNCHANGED sysVars
  <2>1. UNCHANGED <<clientOnly, serverOnly>> /\ toServer'.queue = q
        /\ toClient'.queue = toClient.queue
    BY <1>1, <1>4 DEF Wires, Pipes, ServerExits, Shut, sysVars
  <2>2. Responses' = Responses
    BY <2>1 DEF Responses, clientOnly, serverOnly
  <2> QED BY <2>1, <2>2 DEF RequestsOnly, serverOnly
<1> QED BY <1>2, <1>3, <1>4 DEF Next

\* In a gridlock the pipe to the client is full and the server holds one more
\* response: a different call waits for each, and none of these is the writer.
LEMMA AllWait ==
    ASSUME IInv, NothingIsLate, RequestsOnly, Gridlock,
           IsFiniteSet(Callers), Cardinality(Callers) <= Cap + 1
    PROVE  FALSE
<1> DEFINE q == toClient.queue
           full == 1 .. Cap + 1
           Item(i) == IF i <= Cap THEN q[i] ELSE out[1]
           Box(i) == IF i <= Cap THEN "toClient" ELSE "out"
           At1(i) == IF i <= Cap THEN i ELSE 1
<1>1. PICK w \in Callers : pc[w] = "writing"
  BY DEF Gridlock
<1>2. Cap \in Nat /\ q \in Seq(S!Response) /\ Len(q) >= Cap
      /\ out \in Seq(S!Response) /\ Len(out) = 1
  BY StdioSystemAssumption DEF Gridlock, Room, IInv, PipesInv, ServerInv
<1>3. ASSUME NEW i \in full
      PROVE  /\ Item(i).id \in CP!Ids
             /\ InPlace(Item(i).id, Box(i), At1(i))
  <2>1. CASE i <= Cap
    <3>1. i \in DOMAIN q /\ q[i] \in S!Response
      BY <1>2, <2>1
    <3>2. q[i] \in Responses
      BY <3>1 DEF Responses
    <3> QED BY <2>1, <3>1, <3>2 DEF InPlace, RequestsOnly, S!Response, CP!Ids
  <2>2. CASE ~(i <= Cap)
    <3>1. 1 \in DOMAIN out /\ out[1] \in S!Response
      BY <1>2, OneItem, FirstItem
    <3>2. out[1] \in Responses
      BY <3>1 DEF Responses
    <3> QED BY <2>2, <3>1, <3>2 DEF InPlace, RequestsOnly, S!Response, CP!Ids
  <2> QED BY <2>1, <2>2
<1> DEFINE others == Callers \ {w}
           waits == [i \in full |-> CHOOSE c \in others : myId[c] = Item(i).id]
<1>4. ASSUME NEW i \in full
      PROVE  waits[i] \in others /\ myId[waits[i]] = Item(i).id
  <2>1. WaitedFor(Item(i).id)
    BY <1>3 DEF NothingIsLate, SomePlace
  <2>2. \E c \in others : myId[c] = Item(i).id
    BY <1>1, <2>1 DEF WaitedFor
  <2> QED BY <2>2
<1>5. ASSUME NEW i \in full, NEW j \in full, Item(i).id = Item(j).id
      PROVE  i = j
  <2>1. OnePlace(Item(i).id)
    BY <1>3, PlacesCount DEF IInv, PlacesInv
  <2>2. Box(i) = Box(j) /\ At1(i) = At1(j)
    BY <1>3, <1>5, <2>1 DEF OnePlace
  <2> QED BY <1>2, <2>2
<1>6. IsFiniteSet(full) /\ IsFiniteSet(others) /\ Cardinality(others) < Cardinality(full)
  <2>1. IsFiniteSet(full) /\ Cardinality(full) = Cap + 1
    BY <1>2, FS_Interval
  <2>2. IsFiniteSet(others) /\ Cardinality(others) = Cardinality(Callers) - 1
    BY FS_RemoveElement
  <2>3. Cardinality(Callers) \in Nat
    BY FS_CardinalityType
  <2> QED BY <1>2, <2>1, <2>2, <2>3
<1>7. waits \in [full -> others]
  BY <1>4
<1>8. \E i, j \in full : i # j /\ waits[i] = waits[j]
  <2> HIDE DEF full, others, waits
  <2> QED BY <1>6, <1>7, FS_PigeonHole
<1> QED BY <1>4, <1>5, <1>8

\* The gridlock (the run system_gridlock, two callers of an io.Pipe) needs more
\* callers than the pipe to the client has room for messages, and one more; or a
\* call that gives up, or a notification that the server answers.
THEOREM GridlockNeedsCallers ==
    ASSUME IsFiniteSet(Callers), Cardinality(Callers) <= Cap + 1
    PROVE  Spec /\ [](NobodyGivesUp /\ NobodyNotifies) => []NoGridlock
<1>1. Init => RequestsOnly
  <2> SUFFICES ASSUME Init PROVE RequestsOnly
    OBVIOUS
  <2>1. /\ toServer.queue = <<>> /\ toClient.queue = <<>> /\ todo = <<>> /\ out = <<>>
        /\ loop = [l \in Loops |-> "off"] /\ chan = [i \in CP!Ids |-> "none"]
        /\ got = [c \in Callers |-> NoOne] /\ buffer = [l \in Loops |-> <<>>]
    BY SameClient DEF Init, CP!Init, S!ServerInit, CP!EmptyPipe
  <2> QED BY <2>1 DEF RequestsOnly, Responses, Holding
<1>2. IInv /\ NothingIsLate /\ RequestsOnly => NoGridlock
  BY AllWait DEF NoGridlock
<1> QED BY <1>1, <1>2, InitLate, LateStep, OnlyRequestsStep, SystemInvariant, PTL DEF Spec

-----------------------------------------------------------------------------
(***************************************************************************)
(* The system implements RequestReply.  First the answers: one that a call *)
(* waits for stays as it is when the client hands it on, and goes when the *)
(* call no longer waits.                                                   *)
(***************************************************************************)
LEMMA HandedOn ==
    ASSUME IInv, CP!Next, UNCHANGED serverOnly, NEW m \in S!Response,
           NEW c \in Callers, pc[c] = "waiting", pc'[c] = "waiting", myId[c] = m.id
    PROVE  /\ UnderWay(m)' => UnderWay(m)
           /\ NoLoss /\ UnderWay(m) => UnderWay(m)'
<1> DEFINE q == toClient.queue
<1>1. /\ loop \in [Loops -> {"off", "top", "scan", "handler", "lookup", "deliver", "delete",
                            "ended"}]
      /\ line \in [Loops -> S!Response \cup {NoOne}]
      /\ chan \in [CP!Ids -> {"none", "open", "full", "closed"}]
      /\ sent \in [CP!Ids -> S!Response \cup {NoOne}]
      /\ q \in Seq(S!Response) /\ out' = out /\ m.kind = "response"
      /\ buffer \in [Loops -> Seq(CP!FromServer)]
  BY SameMessages, ReadersTyped DEF IInv, ClientInv, CP!TypeInv, CP!TypeOK, PipesInv,
     serverOnly, S!Response
<1>2. myId'[c] = m.id /\ m.id \in CP!Ids /\ m.id # 0
  BY StillWaits, StdioSystemAssumption DEF CP!Ids
<1>3. ASSUME NEW d \in Callers, CP!Write(d) PROVE UnderWay(m)' <=> UnderWay(m)
  <2>1. UNCHANGED <<chan, sent, loop, line, buffer, toClient, out>>
    BY <1>1, <1>3 DEF CP!Write, CP!table, CP!loops, CP!scanners
  <2> QED BY <2>1 DEF UnderWay
<1>4. ASSUME NEW l \in Loops, TakesLine(l) PROVE UnderWay(m)' <=> UnderWay(m)
  <2> DEFINE b == buffer[l]
  <2>1. /\ UNCHANGED <<chan, sent, toClient>> /\ loop[l] = "scan" /\ b # <<>>
        /\ b \in Seq(CP!FromServer) /\ buffer' = [buffer EXCEPT ![l] = Tail(b)]
        /\ loop'[l] \in {"lookup", "handler", "top"}
        /\ (loop'[l] = "lookup" /\ line'[l] = m) <=> b[1] = m
        /\ \A k \in Loops \ {l} : loop'[k] = loop[k] /\ line'[k] = line[k]
    BY <1>1, <1>4, LineTaken
  <2>2. (\E i \in DOMAIN b : b[i] = m) <=> b[1] = m \/ \E i \in DOMAIN Tail(b) : Tail(b)[i] = m
    <3>1. ASSUME NEW i \in DOMAIN b, b[i] = m
          PROVE  b[1] = m \/ \E j \in DOMAIN Tail(b) : Tail(b)[j] = m
      <4>1. CASE i = 1
        BY <3>1, <4>1
      <4>2. CASE i # 1
        <5>1. i - 1 \in DOMAIN Tail(b) /\ Tail(b)[i - 1] = b[i]
          BY <2>1, <4>2
        <5> QED BY <3>1, <5>1
      <4> QED BY <4>1, <4>2
    <3>2. ASSUME NEW j \in DOMAIN Tail(b), Tail(b)[j] = m
          PROVE  \E i \in DOMAIN b : b[i] = m
      BY <2>1, <3>2, TakenItem
    <3>3. 1 \in DOMAIN b
      BY <2>1, FirstItem
    <3> QED BY <3>1, <3>2, <3>3
  <2> DEFINE Buffered(k) == loop[k] # "ended" /\ \E i \in DOMAIN buffer[k] : buffer[k][i] = m
             Held(k) == loop[k] \in {"lookup", "deliver"} /\ line[k] = m
  <2>3. \A k \in Loops \ {l} : (Buffered(k)' <=> Buffered(k)) /\ (Held(k)' <=> Held(k))
    BY <1>1, <2>1
  <2>4. Buffered(l) <=> Buffered(l)' \/ Held(l)'
    <3>1. buffer'[l] = Tail(b) /\ loop'[l] # "ended" /\ loop'[l] # "deliver"
      BY <1>1, <2>1
    <3> QED BY <2>1, <2>2, <3>1
  <2>5. ~Held(l)
    BY <2>1
  <2>6. (\E k \in Loops : Buffered(k) \/ Held(k)) <=> \E k \in Loops : Buffered(k)' \/ Held(k)'
    <3> HIDE DEF Buffered, Held
    <3> QED BY <2>3, <2>4, <2>5
  <2> QED BY <1>1, <2>1, <2>6 DEF UnderWay
<1>5. ASSUME NEW l \in Loops, CP!Deliver(l) PROVE UnderWay(m)' <=> UnderWay(m)
  <2> DEFINE to == line[l].id
  <2>1. /\ UNCHANGED <<line, buffer, toClient>> /\ loop[l] = "deliver"
        /\ loop' = [loop EXCEPT ![l] = "delete"] /\ chan[to] = "open" /\ to \in CP!Ids
        /\ chan' = [chan EXCEPT ![to] = "full"] /\ sent' = [sent EXCEPT ![to] = line[l]]
    BY <1>5 DEF CP!Deliver, CP!pipes, CP!scanners, IInv, ClientInv, CP!RoomInv, CP!HeldIds
  <2>2. line[l] = m \/ (\E k \in Loops \ {l} : loop[k] \in {"lookup", "deliver"} /\ line[k] = m)
           <=> \E k \in Loops : loop[k] \in {"lookup", "deliver"} /\ line[k] = m
    BY <1>1, <2>1
  <2>3. (\E k \in Loops \ {l} : loop[k] \in {"lookup", "deliver"} /\ line[k] = m)
           <=> \E k \in Loops : loop'[k] \in {"lookup", "deliver"} /\ line'[k] = m
    BY <1>1, <2>1
  <2>4. (chan'[m.id] = "full" /\ sent'[m.id] = m)
           <=> line[l] = m \/ (chan[m.id] = "full" /\ sent[m.id] = m)
    BY <1>1, <1>2, <2>1
  <2>5. \A k \in Loops : loop'[k] = "ended" <=> loop[k] = "ended"
    BY <1>1, <2>1
  <2> QED BY <1>1, <2>1, <2>2, <2>3, <2>4, <2>5 DEF UnderWay
<1>7. ASSUME NEW l \in Loops, CP!Fill(l)
      PROVE  (UnderWay(m)' => UnderWay(m)) /\ (NoLoss /\ UnderWay(m) => UnderWay(m)')
  <2>1. PICK n \in 0 .. Len(q) :
           /\ buffer' = [buffer EXCEPT ![l] = CP!WholeLines(l, n)]
           /\ toClient'.queue = SubSeq(q, n + 1, Len(q))
    BY <1>7, FillMoves
  <2>2. loop[l] = "scan" /\ buffer[l] = <<>> /\ UNCHANGED <<chan, sent, loop, line>>
    BY <1>7, FillMoves
  <2>3. ASSUME NEW k \in Loops, loop'[k] # "ended", NEW i \in DOMAIN buffer'[k],
               buffer'[k][i] = m
        PROVE  UnderWay(m)
    <3>1. CASE k = l
      <4>1. buffer'[k] = CP!WholeLines(l, n)
        BY <1>1, <2>1, <3>1
      <4>2. i \in DOMAIN q /\ q[i] = m
        BY <1>1, <2>3, <4>1, FilledLine
      <4> QED BY <4>2 DEF UnderWay
    <3>2. CASE k # l
      BY <1>1, <2>1, <2>2, <2>3, <3>2 DEF UnderWay
    <3> QED BY <3>1, <3>2
  <2>4. ASSUME NEW i \in DOMAIN toClient'.queue, toClient'.queue[i] = m
        PROVE  UnderWay(m)
    <3>1. i + n \in DOMAIN q /\ SubSeq(q, n + 1, Len(q))[i] = q[i + n]
      BY <1>1, <2>1, RestItem
    <3>2. PICK k \in DOMAIN q : q[k] = m
      BY <2>1, <2>4, <3>1
    <3> QED BY <3>2 DEF UnderWay
  <2>5. UnderWay(m)' => UnderWay(m)
    BY <1>1, <2>2, <2>3, <2>4 DEF UnderWay
  <2>6. ASSUME NoLoss, NEW i \in DOMAIN q, q[i] = m PROVE UnderWay(m)'
    <3>1. Steady /\ ~CP!Garbled(l)
      BY <1>7, <2>2, <2>6, NotGarbled DEF NoLoss
    <3>2. CASE i <= n
      <4>1. i \in 1 .. n
        BY <1>1, <3>2
      <4>2. CP!WholeLines(l, n) = [j \in 1 .. n |-> q[j]]
        BY <3>1 DEF CP!WholeLines
      <4>3. i \in DOMAIN buffer'[l] /\ buffer'[l][i] = q[i]
        BY <1>1, <2>1, <4>1, <4>2
      <4> QED BY <2>2, <2>6, <4>3 DEF UnderWay
    <3>3. CASE ~(i <= n)
      <4>1. i \in Nat /\ i > n
        BY <1>1, <3>3
      <4>2. PICK k \in DOMAIN SubSeq(q, n + 1, Len(q)) : SubSeq(q, n + 1, Len(q))[k] = q[i]
        BY <1>1, <4>1, LeftItem
      <4> QED BY <2>1, <2>6, <4>2 DEF UnderWay
    <3> QED BY <3>2, <3>3
  <2>7. ASSUME NEW k \in Loops, loop[k] # "ended", NEW i \in DOMAIN buffer[k], buffer[k][i] = m
        PROVE  UnderWay(m)'
    <3>1. k # l
      BY <2>2, <2>7
    <3> QED BY <1>1, <2>1, <2>2, <2>7, <3>1 DEF UnderWay
  <2>8. NoLoss /\ UnderWay(m) => UnderWay(m)'
    BY <1>1, <2>2, <2>6, <2>7 DEF UnderWay
  <2> QED BY <2>5, <2>8
<1>6. CASE \A l \in Loops : ~Moves(l)
  <2>1. LoopsCarry /\ ChannelsCarry /\ BuffersCarry /\ toClient'.queue = q /\ TableKeeps
    BY <1>6, ClientLoops, ClientTable
  <2>2. OnePlace(m.id) /\ HeldInv
    BY <1>2, PlacesCount DEF IInv, PlacesInv
  <2>3. Unanswered(c) /\ Unanswered(c)' /\ myId'[c] = myId[c]
    BY <1>2 DEF Unanswered
  <2>4. ASSUME NEW l \in Loops, loop[l] \in Given, line[l] = m
        PROVE  loop'[l] \in Given /\ line'[l] = m
    <3>1. InPlace(m.id, "readLoop", l)
      BY <2>4 DEF InPlace, Given
    <3>2. chan[m.id] # "full"
      <4>1. chan[m.id] = "full" => InPlace(m.id, "channel", c)
        BY DEF InPlace
      <4> QED BY <2>2, <3>1, <4>1 DEF OnePlace
    <3>3. m.id \in pending
      BY <2>2, <2>3, <3>2 DEF HeldInv
    <3> QED BY <2>1, <2>4, <3>2, <3>3 DEF LoopsCarry, Holding, Given
  <2>5. ASSUME NEW l \in Loops, loop'[l] \in Given, line'[l] = m
        PROVE  loop[l] \in Given /\ line[l] = m
    BY <2>1, <2>5 DEF LoopsCarry, Holding, Given
  <2>6. (chan'[m.id] = "full" /\ sent'[m.id] = m) <=> (chan[m.id] = "full" /\ sent[m.id] = m)
    BY <1>2, <2>1, <2>3 DEF ChannelsCarry, TableKeeps
  <2>7. \A l \in Loops : loop'[l] # "ended" => loop[l] # "ended"
    BY <2>1 DEF BuffersCarry
  <2>8. NoLoss => \A l \in Loops : loop[l] # "ended" => loop'[l] # "ended"
    BY DEF NoLoss, Steady
  <2>9. UnderWay(m)' => UnderWay(m)
    BY <1>1, <2>1, <2>5, <2>6, <2>7 DEF UnderWay, Given, BuffersCarry
  <2>10. NoLoss /\ UnderWay(m) => UnderWay(m)'
    BY <1>1, <2>1, <2>4, <2>6, <2>8 DEF UnderWay, Given, BuffersCarry
  <2> QED BY <2>9, <2>10
<1> QED BY <1>3, <1>4, <1>5, <1>6, <1>7 DEF Moves

\* There is no answer to a request that is not yet written.
LEMMA NoAnswerYet ==
    ASSUME IInv, NEW c \in Callers, pc[c] \in Writing, NEW m \in S!Response, myId[c] = m.id,
           m.id # 0
    PROVE  ~UnderWay(m)
<1> SUFFICES ASSUME UnderWay(m) PROVE SomePlace(m.id)
  BY Unwritten
<1>1. m.kind = "response"
  BY DEF S!Response
<1>2. ASSUME NEW i \in DOMAIN out, out[i] = m PROVE InPlace(m.id, "out", i)
  BY <1>1, <1>2 DEF InPlace
<1>3. ASSUME NEW i \in DOMAIN toClient.queue, toClient.queue[i] = m
      PROVE  InPlace(m.id, "toClient", i)
  BY <1>1, <1>3 DEF InPlace
<1>4. ASSUME NEW l \in Loops, loop[l] \in {"lookup", "deliver"}, line[l] = m
      PROVE  InPlace(m.id, "readLoop", l)
  BY <1>4 DEF InPlace
<1>5. ASSUME chan[m.id] = "full" PROVE InPlace(m.id, "channel", c)
  BY <1>5 DEF InPlace
<1>6. ASSUME NEW l \in Loops, loop[l] # "ended", NEW i \in DOMAIN buffer[l], buffer[l][i] = m
      PROVE  InPlace(m.id, "buffer", <<l, i>>)
  BY <1>1, <1>6 DEF InPlace, InBuffer
<1> QED BY <1>2, <1>3, <1>4, <1>5, <1>6 DEF UnderWay, SomePlace

LEMMA AnswersLeft ==
    ASSUME IInv, CP!Next, UNCHANGED serverOnly
    PROVE  LET left == {m \in Answers : \E c \in Callers : pc'[c] = "waiting"
                                                            /\ myId[c] = m.id}
           IN  Answers' \subseteq left /\ (NoLoss => Answers' = left)
<1> DEFINE Left == {m \in Answers : \E c \in Callers : pc'[c] = "waiting" /\ myId[c] = m.id}
<1>1. ASSUME NEW c \in Callers, pc'[c] = "waiting", NEW m \in S!Response, myId[c] = m.id
      PROVE  /\ myId'[c] = m.id /\ (UnderWay(m)' => UnderWay(m))
             /\ NoLoss /\ UnderWay(m) => UnderWay(m)'
             /\ UnderWay(m) => pc[c] = "waiting"
  <2>1. myId'[c] = m.id /\ m.id \in CP!Ids /\ m.id # 0
        /\ (pc[c] = "waiting" \/ (CP!Write(c) /\ CP!IsRequest(c)))
    BY <1>1, StillWaits, StdioSystemAssumption DEF CP!Ids
  <2>2. CASE pc[c] = "waiting"
    BY <1>1, <2>1, <2>2, HandedOn
  <2>3. CASE CP!Write(c)
    <3>1. ~UnderWay(m)
      BY <1>1, <2>1, <2>3, NoAnswerYet DEF CP!Write, Writing
    <3>2. UNCHANGED <<chan, sent, loop, line, buffer, toClient, out>>
      BY <2>3 DEF CP!Write, CP!table, CP!loops, CP!scanners, serverOnly
    <3>3. UnderWay(m)' <=> UnderWay(m)
      BY <3>2 DEF UnderWay
    <3> QED BY <2>1, <3>1, <3>3
  <2> QED BY <2>1, <2>2, <2>3
<1>2. ASSUME NEW m \in Answers' PROVE m \in Left
  <2>1. PICK c \in Callers : pc'[c] = "waiting" /\ myId'[c] = m.id /\ UnderWay(m)'
    BY DEF Answers
  <2>2. m \in S!Response /\ myId[c] = m.id
    BY <2>1, StillWaits DEF Answers
  <2> QED BY <1>1, <2>1, <2>2 DEF Answers
<1>3. ASSUME NoLoss, NEW m \in Left PROVE m \in Answers'
  BY <1>1, <1>3 DEF Answers
<1> QED BY <1>2, <1>3

\* A step that leaves the readers alone loses nothing.
LEMMA NoneLost ==
    ASSUME IInv, UNCHANGED <<buffer, begun>>,
           \A l \in Loops : loop'[l] = "ended" => loop[l] = "ended"
    PROVE  NoLoss
  BY FillChanges DEF NoLoss

\* A call that nobody has a request of is idle, and so on.
LEMMA StageOf ==
    ASSUME IInv, NEW c \in Callers
    PROVE  /\ Stage(c) = "sent" <=> pc[c] = "waiting"
           /\ Stage(c) = "made" <=> pc[c] \in Writing /\ myId[c] # 0
           /\ Stage(c) = "over" <=> pc[c] = "cleanup"
           /\ Stage(c) = "idle" <=> myId[c] = 0
           /\ Stage(c) # "idle" => myId[c] \in CP!Ids /\ myId[c] # 0
<1>1. /\ pc[c] \in {"idle", "next", "write", "writing", "waiting", "cleanup", "save"}
      /\ myId[c] \in CP!Ids \cup {0} /\ 0 \notin CP!Ids
      /\ pc[c] \in {"idle", "next", "save"} => myId[c] = 0
      /\ pc[c] \in {"waiting", "cleanup"} => myId[c] # 0
  BY StdioSystemAssumption DEF IInv, ClientInv, CP!TypeInv, CP!TypeOK, CP!CallInv, CP!Ids
<1>2. CASE myId[c] = 0
  BY <1>1, <1>2 DEF Stage
<1>3. CASE myId[c] # 0 /\ pc[c] \in {"write", "writing"}
  BY <1>1, <1>3 DEF Stage, Writing
<1>4. CASE myId[c] # 0 /\ pc[c] = "waiting"
  BY <1>1, <1>4 DEF Stage, Writing
<1>5. CASE myId[c] # 0 /\ pc[c] = "cleanup"
  BY <1>1, <1>5 DEF Stage, Writing
<1> QED BY <1>1, <1>2, <1>3, <1>4, <1>5

LEMMA StageStays ==
    ASSUME NEW c \in Callers, UNCHANGED <<myId[c], pc[c], ask[c]>>
    PROVE  UNCHANGED <<Stage(c), RequestOf(c)>>
  BY DEF Stage, RequestOf

\* The calls of which the client knows no more, or no less, after a step.
Silent == /\ UNCHANGED <<nextID, got, toServer, todo, welcomed>>
          /\ \A c \in Callers : UNCHANGED <<Stage(c), RequestOf(c)>>
          /\ Answers' = Answers
          /\ Steady' = Steady

LEMMA SilentStep ==
    ASSUME Silent
    PROVE  UNCHANGED R!rrVars
  BY DEF Silent, R!rrVars

LEMMA Waiting ==
    ASSUME IInv, CP!Next, UNCHANGED serverOnly, NoLoss,
           \A c \in Callers : pc[c] = "waiting" => pc'[c] = "waiting"
    PROVE  Answers' = Answers
  BY AnswersLeft DEF Answers

LEMMA NoLongerWaiting ==
    ASSUME IInv, CP!Next, UNCHANGED serverOnly, NoLoss, NEW c \in Callers,
           pc[c] = "waiting", pc' = [pc EXCEPT ![c] = "cleanup"]
    PROVE  Answers' = {a \in Answers : a.id # myId[c]}
<1>1. DOMAIN pc = Callers /\ myId[c] # 0 /\ \A d \in Callers \ {c} : myId[d] # myId[c]
  BY DEF IInv, ClientInv, CP!TypeInv, CP!TypeOK, CP!CallInv, CP!TableInv, CP!IdsDistinct,
     CP!InFlight
<1>2. \A d \in Callers : pc'[d] = "waiting" <=> d # c /\ pc[d] = "waiting"
  BY <1>1
<1>3. \A a \in Answers : (\E d \in Callers : pc'[d] = "waiting" /\ myId[d] = a.id)
                            <=> a.id # myId[c]
  BY <1>1, <1>2 DEF Answers
<1> QED BY <1>3, AnswersLeft

LEMMA Joined ==
    ASSUME NEW A, NEW s \in Seq(A), NEW t \in Seq(A), NEW e \in A
    PROVE  s \o Append(t, e) = Append(s \o t, e)
  OBVIOUS

\* A call that registers makes a request.
LEMMA RegisterMakes ==
    ASSUME IInv, CP!Next, UNCHANGED serverOnly, UNCHANGED <<got, toServer, welcomed>>,
           NEW c \in Callers, NEW q \in Asks, pc[c] \in {"idle", "next"}, CP!Register(c, q),
           UNCHANGED <<buffer, begun>>, \A l \in Loops : loop'[l] = "ended" => loop[l] = "ended",
           UNCHANGED loop \/ q = InitQuestion
    PROVE  R!Next
<1>1. /\ nextID' = nextID + 1 /\ nextID \in Nat /\ myId[c] = 0
      /\ myId' = [myId EXCEPT ![c] = nextID + 1] /\ pc' = [pc EXCEPT ![c] = "write"]
      /\ ask' = [ask EXCEPT ![c] = q]
      /\ DOMAIN myId = Callers /\ DOMAIN pc = Callers /\ DOMAIN ask = Callers
  BY DEF CP!Register, CP!AtomicAdd, IInv, ClientInv, CP!TypeInv, CP!TypeOK, CP!CallInv
<1>2. Stage(c) = "idle"
  BY <1>1 DEF Stage
<1>3. Stage(c)' = "made"
      /\ RequestOf(c)' = [kind |-> "request", id |-> nextID', ask |-> q]
  BY <1>1 DEF Stage, RequestOf
<1>4. \A d \in Callers \ {c} : Stage(d)' = Stage(d) /\ RequestOf(d)' = RequestOf(d)
  BY <1>1, StageStays
<1>5. Answers' = Answers
  BY <1>1, NoneLost, Waiting
<1>6. Steady' = Steady \/ (q = InitQuestion /\ Steady' = FALSE)
  <2>1. CASE UNCHANGED loop
    BY <2>1, SteadySame
  <2>2. CASE q = InitQuestion
    <3>1. Steady' => Steady
      BY SteadyStays
    <3> QED BY <2>2, <3>1 DEF Steady
  <2> QED BY <2>1, <2>2
<1>7. R!Make(c, q)
  BY <1>1, <1>2, <1>3, <1>4, <1>5, <1>6 DEF R!Make, serverOnly
<1> QED BY <1>7 DEF R!Next

\* The write of a request sends it, that of a notification tells the server.
LEMMA WriteSends ==
    ASSUME IInv, CP!Next, UNCHANGED serverOnly, UNCHANGED welcomed,
           NEW c \in Callers, CP!Write(c)
    PROVE  R!Next
<1> DEFINE m == CP!Outgoing(c)
           q == toServer.queue
<1>1. /\ toServer'.queue = Append(q, m) /\ toServer'.closed = toServer.closed
      /\ ~toServer.closed /\ q \in Seq(S!Single) /\ todo \in Seq(S!Single) /\ m \in S!Single
      /\ UNCHANGED <<todo, nextID, myId, got>> /\ pc[c] = "writing"
      /\ DOMAIN pc = Callers
  <2>1. Wires /\ todo \in Seq(S!Single) /\ pc[c] = "writing" /\ DOMAIN pc = Callers
    BY WiresTyped DEF IInv, ClientInv, ServerInv, CP!Write, CP!TypeInv, CP!TypeOK
  <2>2. m \in S!Single
    BY <2>1, CP!OutgoingType, ConstantsFit, SameMessages DEF IInv, ClientInv
  <2> QED
    BY <2>1, <2>2, SameMessages DEF CP!Write, CP!Put, CP!Room, CP!table, serverOnly, Wires, Pipes
<1>2. (todo \o q)' = Append(todo \o q, m)
  BY <1>1, Joined
<1>3. Answers' = Answers /\ Steady' = Steady
  <2>1. UNCHANGED <<loop, buffer, begun>>
    BY DEF CP!Write, CP!loops, CP!scanners
  <2> QED BY <1>1, <2>1, NoneLost, SteadySame, Waiting DEF CP!Write
<1>4. CASE CP!IsRequest(c)
  <2>1. pc' = [pc EXCEPT ![c] = "waiting"] /\ UNCHANGED ask /\ myId[c] # 0
    BY <1>4 DEF CP!Write, IInv, ClientInv, CP!TypeInv, CP!CallInv
  <2>2. Stage(c) = "made" /\ Stage(c)' = "sent"
    BY <1>1, <2>1 DEF Stage
  <2>3. RequestOf(c)' = RequestOf(c) /\ m = RequestOf(c)
    BY <1>1, <1>4, <2>1 DEF RequestOf, CP!Outgoing
  <2>4. \A d \in Callers \ {c} : Stage(d)' = Stage(d) /\ RequestOf(d)' = RequestOf(d)
    BY <1>1, <2>1, StageStays
  <2>5. R!Send(c)
    BY <1>1, <1>2, <1>3, <2>2, <2>3, <2>4 DEF R!Send
  <2> QED BY <2>5 DEF R!Next
<1>5. CASE ~CP!IsRequest(c)
  <2>1. m = [kind |-> job[c]] /\ pc' = [pc EXCEPT ![c] = "idle"] /\ CP!ForgetCall(c)
        /\ myId[c] = 0
    BY <1>5 DEF CP!Outgoing, CP!Write, IInv, ClientInv, CP!TypeInv, CP!CallInv
  <2>2. job[c] \in {"initialized"} \cup Notices
    BY <1>5 DEF IInv, ClientInv, CP!TypeInv, CP!TypeOK, CP!Jobs, CP!IsRequest
  <2>3. job[c] = "initialized" => welcomed
    BY DEF IInv, InitializedAfterWelcome
  <2>4. \A d \in Callers : Stage(d)' = Stage(d) /\ RequestOf(d)' = RequestOf(d)
    <3>1. UNCHANGED <<Stage(c), RequestOf(c)>>
      BY <1>1, <2>1 DEF Stage, RequestOf
    <3>2. \A d \in Callers \ {c} : ask'[d] = ask[d] /\ pc'[d] = pc[d]
      BY <1>1, <2>1 DEF CP!ForgetCall, IInv, ClientInv, CP!TypeInv, CP!TypeOK
    <3> QED BY <1>1, <3>1, <3>2, StageStays
  <2>5. R!Notify(job[c])
    BY <1>1, <1>2, <1>3, <2>1, <2>3, <2>4 DEF R!Notify
  <2> QED BY <2>2, <2>5 DEF R!Next
<1> QED BY <1>4, <1>5

\* A request that cannot be marshalled or written fails; a notification is
\* forgotten.
LEMMA FailureEnds ==
    ASSUME IInv, CP!Next, UNCHANGED serverOnly, UNCHANGED welcomed,
           NEW c \in Callers, CP!MarshalFails(c) \/ CP!WriteFails(c)
    PROVE  R!Next \/ UNCHANGED R!rrVars
<1>1. /\ UNCHANGED <<todo, toServer, nextID, myId, got>> /\ pc[c] \in Writing
      /\ DOMAIN pc = Callers /\ UNCHANGED <<loop, buffer, begun>>
  BY DEF CP!MarshalFails, CP!WriteFails, CP!table, CP!loops, CP!scanners, CP!pipes, serverOnly,
     Writing, IInv, ClientInv, CP!TypeInv, CP!TypeOK
<1>2. Answers' = Answers /\ Steady' = Steady
  <2>1. \A d \in Callers : pc[d] = "waiting" => pc'[d] = "waiting"
    BY <1>1 DEF CP!MarshalFails, CP!WriteFails, Writing
  <2> QED BY <1>1, <2>1, NoneLost, SteadySame, Waiting
<1>3. CASE CP!IsRequest(c)
  <2>1. pc' = [pc EXCEPT ![c] = "cleanup"] /\ UNCHANGED ask /\ myId[c] # 0
    BY <1>3 DEF CP!MarshalFails, CP!WriteFails, CP!IsRequest, IInv, ClientInv, CP!TypeInv,
       CP!CallInv
  <2>2. Stage(c) = "made" /\ Stage(c)' = "over" /\ RequestOf(c)' = RequestOf(c)
    BY <1>1, <2>1 DEF Stage, RequestOf, Writing
  <2>3. \A d \in Callers \ {c} : Stage(d)' = Stage(d) /\ RequestOf(d)' = RequestOf(d)
    BY <1>1, <2>1, StageStays
  <2>4. R!Fail(c)
    BY <1>1, <1>2, <2>2, <2>3 DEF R!Fail
  <2> QED BY <2>4 DEF R!Next
<1>4. CASE ~CP!IsRequest(c)
  <2>1. pc' = [pc EXCEPT ![c] = "idle"] /\ CP!ForgetCall(c) /\ myId[c] = 0
    BY <1>4 DEF CP!MarshalFails, CP!WriteFails, CP!IsRequest, CP!Requests, IInv, ClientInv, CP!TypeInv, CP!CallInv
  <2>2. UNCHANGED <<Stage(c), RequestOf(c)>>
    BY <1>1, <2>1 DEF Stage, RequestOf
  <2>3. \A d \in Callers \ {c} : ask'[d] = ask[d] /\ pc'[d] = pc[d]
    BY <1>1, <2>1 DEF CP!ForgetCall, IInv, ClientInv, CP!TypeInv, CP!TypeOK
  <2>4. \A d \in Callers : UNCHANGED <<Stage(d), RequestOf(d)>>
    BY <1>1, <2>2, <2>3, StageStays
  <2> QED BY <1>1, <1>2, <2>4, SilentStep DEF Silent
<1> QED BY <1>3, <1>4

\* The select of a call: it receives its answer, or gives up.
LEMMA SelectEnds ==
    ASSUME IInv, CP!Next, UNCHANGED serverOnly, UNCHANGED welcomed,
           NEW c \in Callers, CP!ReceiveResponse(c) \/ CP!GiveUp(c)
    PROVE  R!Next
<1>1. /\ UNCHANGED <<todo, toServer, nextID, myId, ask>> /\ pc[c] = "waiting"
      /\ DOMAIN pc = Callers /\ pc' = [pc EXCEPT ![c] = "cleanup"]
      /\ myId[c] # 0 /\ myId[c] \in CP!Ids /\ UNCHANGED <<loop, buffer, begun>>
  BY StageOf
     DEF CP!ReceiveResponse, CP!GiveUp, CP!table, CP!loops, CP!scanners, CP!pipes, serverOnly,
     IInv, ClientInv, CP!TypeInv, CP!TypeOK
<1>2. Answers' = {a \in Answers : a.id # myId[c]} /\ Steady' = Steady
  BY <1>1, NoneLost, SteadySame, NoLongerWaiting
<1>3. Stage(c) = "sent" /\ Stage(c)' = "over" /\ RequestOf(c)' = RequestOf(c)
      /\ RequestOf(c).id = myId[c]
  BY <1>1 DEF Stage, RequestOf
<1>4. \A d \in Callers \ {c} : Stage(d)' = Stage(d) /\ RequestOf(d)' = RequestOf(d)
  BY <1>1, StageStays
<1>5. R!StopsWaiting(c)
  BY <1>2, <1>3, <1>4 DEF R!StopsWaiting
<1>6. CASE CP!ReceiveResponse(c)
  <2> DEFINE a == sent[myId[c]]
  <2>1. chan[myId[c]] = "full" /\ got' = [got EXCEPT ![c] = a]
    BY <1>6 DEF CP!ReceiveResponse, CP!OwnRequest
  <2>2. a \in S!Response /\ a.id = myId[c]
    BY <1>1, <2>1 DEF IInv, CarriedInv, ClientInv, CP!TableInv, CP!SentInv
  <2>3. a \in Answers
    BY <1>1, <2>1, <2>2 DEF Answers, UnderWay
  <2>4. R!Receive(c, a)
    BY <1>1, <1>2, <1>3, <1>4, <1>5, <2>1, <2>2 DEF R!Receive
  <2> QED BY <2>3, <2>4 DEF R!Next
<1>7. CASE CP!GiveUp(c)
  <2>1. R!GiveUp(c)
    BY <1>1, <1>2, <1>3, <1>4, <1>5, <1>7 DEF R!GiveUp, CP!GiveUp
  <2> QED BY <2>1 DEF R!Next
<1> QED BY <1>6, <1>7

\* The deferred function of SendRequest: the call returns.
LEMMA CleanupReturns ==
    ASSUME IInv, CP!Next, UNCHANGED serverOnly, UNCHANGED welcomed,
           NEW c \in Callers, CP!Cleanup(c)
    PROVE  R!Next
<1>1. /\ UNCHANGED <<todo, toServer, nextID>> /\ pc[c] = "cleanup"
      /\ DOMAIN pc = Callers /\ DOMAIN myId = Callers /\ DOMAIN ask = Callers /\ myId[c] # 0
      /\ myId' = [myId EXCEPT ![c] = 0] /\ got' = [got EXCEPT ![c] = NoOne]
      /\ UNCHANGED <<loop, buffer, begun>>
  BY DEF CP!Cleanup, CP!loops, CP!scanners, CP!pipes, serverOnly, IInv, ClientInv, CP!TypeInv, CP!TypeOK, CP!CallInv
<1>2. \A d \in Callers \ {c} : ask'[d] = ask[d] /\ pc'[d] = pc[d] /\ myId'[d] = myId[d]
  BY <1>1 DEF CP!Cleanup, CP!GoesOn, CP!ForgetCall
<1>3. Stage(c) = "over" /\ Stage(c)' = "idle" /\ RequestOf(c)' = NoOne
  BY <1>1 DEF Stage, RequestOf
<1>4. \A d \in Callers \ {c} : Stage(d)' = Stage(d) /\ RequestOf(d)' = RequestOf(d)
  BY <1>2, StageStays
<1>5. Answers' = Answers /\ Steady' = Steady
  BY <1>1, <1>2, NoneLost, SteadySame, Waiting
<1>6. R!Return(c)
  BY <1>1, <1>3, <1>4, <1>5 DEF R!Return
<1> QED BY <1>6 DEF R!Next

\* All other steps of the client are its own affair, unless they disturb the
\* reading.
LEMMA OwnAffair ==
    ASSUME IInv, CP!Next, UNCHANGED serverOnly, UNCHANGED welcomed,
           UNCHANGED <<nextID, got, myId, toServer>>,
           \A c \in Callers : \/ UNCHANGED <<pc[c], ask[c]>>
                              \/ myId[c] = 0
                              \/ pc[c] = "write" /\ pc'[c] = "writing" /\ ask'[c] = ask[c]
    PROVE  R!Next \/ UNCHANGED R!rrVars
<1>1. ASSUME NEW c \in Callers
      PROVE  /\ UNCHANGED <<Stage(c), RequestOf(c)>>
             /\ pc[c] = "waiting" => pc'[c] = "waiting"
  <2>1. CASE UNCHANGED <<pc[c], ask[c]>>
    BY <2>1, StageStays
  <2>2. CASE myId[c] = 0
    BY <2>2 DEF Stage, RequestOf, IInv, ClientInv, CP!TypeInv, CP!CallInv
  <2>3. CASE pc[c] = "write" /\ pc'[c] = "writing" /\ ask'[c] = ask[c] /\ myId[c] # 0
    BY <2>3 DEF Stage, RequestOf
  <2> QED BY <2>1, <2>2, <2>3
<1>2. CASE Steady'
  <2>1. Steady' = Steady /\ NoLoss
    <3>1. Steady
      BY <1>2, SteadyStays
    <3> QED BY <1>2, <3>1 DEF NoLoss, Steady
  <2>2. Answers' = Answers
    BY <1>1, <2>1, Waiting
  <2> QED BY <1>1, <2>1, <2>2, SilentStep DEF Silent, serverOnly
<1>3. CASE ~Steady'
  <2>1. Answers' \in SUBSET Answers /\ Steady' = FALSE
    BY <1>3, AnswersLeft DEF Steady
  <2>2. R!Disturb
    BY <1>1, <2>1 DEF R!Disturb, serverOnly
  <2> QED BY <2>2 DEF R!Next
<1> QED BY <1>2, <1>3

LEMMA CallerRefines ==
    ASSUME IInv, CP!Next, UNCHANGED serverOnly, UNCHANGED welcomed,
           NEW c \in Callers, CP!CallerStep(c)
    PROVE  R!Next \/ UNCHANGED R!rrVars
<1> USE DEF CP!table, CP!callers, CP!loops, CP!scanners, CP!pipes
<1>1. /\ DOMAIN pc = Callers /\ DOMAIN ask = Callers /\ CP!CallInv /\ CP!TypeOK
  BY DEF IInv, ClientInv, CP!TypeInv, CP!TypeOK
<1>2. CASE \E q \in Questions : CP!SendRequest(c, q)
  BY <1>2, RegisterMakes DEF CP!SendRequest, Asks
<1>3. CASE \E l \in Loops : CP!Initialize(c, l)
  <2>1. PICK l \in Loops : CP!Initialize(c, l)
    BY <1>3
  <2>2. \A k \in Loops : loop'[k] = "ended" => loop[k] = "ended"
    BY <1>1, <2>1 DEF CP!Initialize, CP!TypeOK
  <2> QED BY <2>1, <2>2, RegisterMakes DEF CP!Initialize, Asks
<1>4. CASE CP!ListAsks(c)
  <2>1. PICK q \in CP!Asked(c) : CP!Register(c, q)
    BY <1>4 DEF CP!ListAsks
  <2>2. q \in Asks
    BY <1>1, CP!AskedType, ConstantsFit DEF CP!Asks, Asks
  <2> QED BY <1>4, <2>1, <2>2, RegisterMakes DEF CP!ListAsks
<1>5. CASE CP!LockForWrite(c)
  BY <1>1, <1>5, OwnAffair DEF CP!LockForWrite
<1>6. CASE \/ \E n \in Notices : CP!SendNotification(c, n)
           \/ CP!ListTools(c)
  <2>1. myId[c] = 0
    BY <1>1, <1>6 DEF CP!SendNotification, CP!ListTools, CP!CallInv
  <2> QED BY <1>1, <1>6, <2>1, OwnAffair DEF CP!SendNotification, CP!ListTools
<1>7. CASE CP!ListSaves(c)
  <2>1. myId[c] = 0
    BY <1>1, <1>7 DEF CP!ListSaves, CP!CallInv
  <2>2. \A d \in Callers \ {c} : UNCHANGED <<pc[d], ask[d]>>
    BY <1>1, <1>7 DEF CP!ListSaves, CP!ForgetCall
  <2> QED BY <1>7, <2>1, <2>2, OwnAffair DEF CP!ListSaves
<1>8. CASE (\E l \in Loops : CP!InitializeUnset(c, l)) \/ CP!ListCrashes(c)
           \/ CP!ContextEnds(c)
  BY <1>8, OwnAffair DEF CP!InitializeUnset, CP!ListCrashes, CP!ContextEnds
<1> QED
  BY <1>2, <1>3, <1>4, <1>5, <1>6, <1>7, <1>8, WriteSends, FailureEnds, SelectEnds,
     CleanupReturns DEF CP!CallerStep

LEMMA LoopRefines ==
    ASSUME IInv, CP!Next, UNCHANGED serverOnly, UNCHANGED welcomed,
           NEW l \in Loops, CP!LoopStep(l)
    PROVE  R!Next \/ UNCHANGED R!rrVars
<1>1. UNCHANGED <<nextID, pc, ask, myId, got, toServer>>
  BY OnlyResponses DEF CP!LoopStep, CP!LoopContextEnds, CP!LoopTop, CP!Fill, CP!Scan, CP!Skim,
     CP!NextLine,
     CP!HandlerReturns, CP!ScanEOF, CP!Lookup, CP!Deliver, CP!DeliverTimeout,
     CP!DeliverPanics, CP!Delete, CP!table, CP!callers, CP!pipes
<1> QED BY <1>1, OwnAffair

-----------------------------------------------------------------------------
(* The server.                                                             *)

\* The calls see nothing of a step of the server, but what it does to their
\* requests and answers.
LEMMA ServerUnseen ==
    ASSUME UNCHANGED clientOnly
    PROVE  /\ UNCHANGED <<nextID, got>>
           /\ [c \in Callers |-> Stage(c)]' = [c \in Callers |-> Stage(c)]
           /\ [c \in Callers |-> RequestOf(c)]' = [c \in Callers |-> RequestOf(c)]
           /\ Steady' = Steady
<1>1. \A c \in Callers : UNCHANGED <<Stage(c), RequestOf(c)>>
  BY StageStays DEF clientOnly
<1> QED BY <1>1, SteadySame DEF clientOnly

LEMMA SameAnswers ==
    ASSUME UNCHANGED clientOnly,
           \A m \in S!Response : UnderWay(m)' <=> UnderWay(m)
    PROVE  Answers' = Answers
  BY DEF Answers, clientOnly

LEMMA FirstOfTwo ==
    ASSUME NEW A, NEW s \in Seq(A), Len(s) = 1, NEW t \in Seq(A)
    PROVE  s \o t # <<>> /\ Head(s \o t) = Head(s) /\ Tail(s \o t) = t
<1>1. PICK e \in A : s = <<e>>
  BY OneItem
<1>2. Tail(<<e>> \o t) = t
  OBVIOUS
<1> QED BY <1>1, <1>2

LEMMA FirstMoves ==
    ASSUME NEW A, NEW t \in Seq(A), t # <<>>
    PROVE  <<Head(t)>> \o Tail(t) = <<>> \o t
  OBVIOUS

LEMMA QueuesTyped ==
    ASSUME IInv
    PROVE  /\ toServer.queue \in Seq(S!Single) /\ todo \in Seq(S!Single)
           /\ toClient.queue \in Seq(S!Response) /\ out \in Seq(S!Response)
           /\ toServer.closed \in BOOLEAN
  BY WiresTyped, SameMessages DEF IInv, ClientInv, Wires, Pipes, ServerInv, PipesInv

\* What is handled is carried out; its answer is kept for the call that waits.
LEMMA HandledRequest ==
    ASSUME IInv, ServerStep, Handles, Head(todo).kind = "request"
    PROVE  R!Next
<1> DEFINE m == Head(todo)
           q == toServer.queue
<1>1. /\ q \in Seq(S!Single) /\ todo \in Seq(S!Single) /\ Len(todo) = 1 /\ out = <<>>
      /\ ~toServer.closed /\ srv = "handle" /\ todo' = <<>>
      /\ UNCHANGED <<toServer, toClient>> /\ UNCHANGED clientOnly
  BY QueuesTyped DEF IInv, ServerInv, PipesInv, Handles, ServerStep
<1>2. m \in S!Single /\ todo \o q # <<>> /\ Head(todo \o q) = m /\ Tail(todo \o q) = q
  BY <1>1, OneItem, FirstOfTwo
<1>3. (todo \o q)' = q
  BY <1>1
<1>4. PICK a \in S!Response : out' = <<a>> /\ a.id = m.id /\ a.reply \in S!ReplyTo(m.ask)
  BY <1>2, ResponsesOf DEF Handles
<1> DEFINE r == a.reply
<1>5. a = R!Answer(m, r)
  BY <1>4 DEF R!Answer, S!Response
<1>6. R!Awaited(m) <=> \E c \in Callers : pc[c] = "waiting" /\ myId[c] = m.id
  <2>1. m \in CP!Request /\ m.id # 0
    BY <1>2, SameMessages, StdioSystemAssumption DEF CP!Request, CP!Ids
  <2>2. m \in Requests
    BY <1>1, <2>1, OneItem, FirstItem DEF Requests
  <2>3. AskedBy(m)
    BY <2>2 DEF IInv, MessagesInv
  <2>4. ASSUME NEW c \in Callers
        PROVE  Stage(c) = "sent" /\ RequestOf(c) = m <=> pc[c] = "waiting" /\ myId[c] = m.id
    <3>1. pc[c] = "waiting" /\ myId[c] = m.id => RequestOf(c) = m
      BY <2>1, <2>3 DEF AskedBy, RequestOf, CP!Request
    <3>2. Stage(c) = "sent" <=> pc[c] = "waiting"
      BY StageOf
    <3>3. Stage(c) = "sent" /\ RequestOf(c) = m => myId[c] = m.id
      BY StageOf DEF RequestOf
    <3> QED BY <3>1, <3>2, <3>3
  <2> QED BY <2>4 DEF R!Awaited
<1>7. Answers' = Answers \cup {b \in {a} : R!Awaited(m)}
  <2>1. ASSUME NEW b \in S!Response PROVE UnderWay(b)' <=> UnderWay(b) \/ b = a
    BY <1>1, <1>4 DEF UnderWay, clientOnly
  <2> QED BY <1>1, <1>4, <1>6, <2>1 DEF Answers, clientOnly
<1>8. welcomed' = (welcomed \/ (m.ask = InitQuestion /\ r = "result"))
  <2>1. Accepts <=> m.ask = InitQuestion /\ r = "result"
    BY <1>1, <1>4 DEF Accepts
  <2> QED BY <2>1 DEF ServerStep
<1>9. R!CarryOut
  BY <1>1, <1>2, <1>3, <1>4, <1>5, <1>7, <1>8, ServerUnseen DEF R!CarryOut
<1> QED BY <1>9 DEF R!Next

LEMMA HandledNotice ==
    ASSUME IInv, ServerStep, Handles, Head(todo).kind # "request"
    PROVE  R!Next
<1> DEFINE m == Head(todo)
           q == toServer.queue
<1>1. /\ q \in Seq(S!Single) /\ todo \in Seq(S!Single) /\ Len(todo) = 1 /\ out = <<>>
      /\ ~toServer.closed /\ srv = "handle" /\ todo' = <<>>
      /\ UNCHANGED <<toServer, toClient>> /\ UNCHANGED clientOnly
  BY QueuesTyped DEF IInv, ServerInv, PipesInv, Handles, ServerStep
<1>2. m \in S!Single /\ todo \o q # <<>> /\ Head(todo \o q) = m /\ Tail(todo \o q) = q
  BY <1>1, OneItem, FirstOfTwo
<1>3. (todo \o q)' = q
  BY <1>1
<1>4. out' = <<>> \/ \E a \in S!Response : out' = <<a>> /\ a.id = 0
  BY <1>2, ResponsesOf DEF Handles
<1>5. Answers' = Answers
  <2>1. ASSUME NEW b \in S!Response, b.id # 0 PROVE UnderWay(b)' <=> UnderWay(b)
    BY <1>1, <1>4, <2>1 DEF UnderWay, clientOnly
  <2>2. \A c \in Callers : pc[c] = "waiting" => myId[c] # 0
    BY DEF IInv, ClientInv, CP!TypeInv, CP!CallInv
  <2> QED BY <1>1, <2>1, <2>2 DEF Answers, clientOnly
<1>6. welcomed' = welcomed
  <2>1. ~Accepts
    BY DEF Accepts
  <2>2. welcomed \in BOOLEAN
    BY DEF IInv
  <2> QED BY <2>1, <2>2 DEF ServerStep
<1>7. R!TakeNotice
  BY <1>1, <1>2, <1>3, <1>5, <1>6, ServerUnseen DEF R!TakeNotice
<1> QED BY <1>7 DEF R!Next

\* Nothing of the request or the answer changes when the server takes a message
\* from the pipe, or puts one into it.
LEMMA MovedOn ==
    ASSUME IInv, ServerStep, Reads \/ Responds \/ Stays
    PROVE  UNCHANGED R!rrVars
<1> DEFINE q == toServer.queue
           t == toClient.queue
<1>1. /\ q \in Seq(S!Single) /\ todo \in Seq(S!Single) /\ t \in Seq(S!Response)
      /\ out \in Seq(S!Response) /\ UNCHANGED clientOnly
      /\ Wires /\ ServerInv /\ welcomed \in BOOLEAN
  BY QueuesTyped, WiresTyped DEF IInv, ClientInv, ServerStep
<1>2. (todo \o q)' = todo \o q
  <2>1. CASE Reads
    <3>1. todo = <<>> /\ todo' = <<Head(q)>> /\ q # <<>> /\ toServer'.queue = Tail(q)
      BY <1>1, <2>1 DEF ServerInv, Reads, Take
    <3> QED BY <1>1, <3>1, FirstMoves
  <2>2. CASE Responds \/ Stays
    <3>1. todo' = todo /\ toServer'.queue = q
      BY <1>1, <2>2 DEF Responds, Stays, AwaitData, Wires, Pipes
    <3> QED BY <3>1
  <2> QED BY <2>1, <2>2
<1>3. toServer'.closed = toServer.closed
  BY <1>1 DEF Reads, Responds, Stays, Take, AwaitData, Wires, Pipes
<1>4. ASSUME NEW m \in S!Response PROVE UnderWay(m)' <=> UnderWay(m)
  <2>1. CASE Reads \/ Stays
    <3>1. UNCHANGED <<out, toClient>>
      BY <2>1 DEF Reads, Stays
    <3> QED BY <1>1, <3>1 DEF UnderWay, clientOnly
  <2>2. CASE Responds
    <3> DEFINE a == Head(out)
    <3>1. out' = <<>> /\ toClient'.queue = Append(t, a) /\ DOMAIN out = {1} /\ out[1] = a
      <4>1. Len(out) = 1
        BY <1>1, <2>2 DEF ServerInv, Responds
      <4>2. DOMAIN out = {1} /\ out[1] = a
        BY <1>1, <4>1, OneItem
      <4> QED BY <1>1, <2>2, <4>2 DEF Responds, Put, Wires, Pipes
    <3>2. (\E i \in DOMAIN toClient'.queue : toClient'.queue[i] = m)
             <=> m = a \/ \E i \in DOMAIN t : t[i] = m
      <4>1. ASSUME NEW i \in DOMAIN toClient'.queue, toClient'.queue[i] = m
            PROVE  m = a \/ \E j \in DOMAIN t : t[j] = m
        <5>1. i \in DOMAIN Append(t, a) /\ Append(t, a)[i] = m
          BY <3>1, <4>1
        <5> QED BY <1>1, <5>1, PutItem
      <4>2. ASSUME NEW j \in DOMAIN t, t[j] = m
            PROVE  \E i \in DOMAIN toClient'.queue : toClient'.queue[i] = m
        <5>1. j \in DOMAIN Append(t, a) /\ Append(t, a)[j] = m
          BY <1>1, <4>2, KeptItem
        <5> QED BY <3>1, <5>1
      <4>3. m = a => \E i \in DOMAIN toClient'.queue : toClient'.queue[i] = m
        <5>1. Len(t) + 1 \in DOMAIN Append(t, a) /\ Append(t, a)[Len(t) + 1] = a
          BY <1>1, AddedItem
        <5> QED BY <3>1, <5>1
      <4> QED BY <4>1, <4>2, <4>3
    <3> QED BY <1>1, <3>1, <3>2 DEF UnderWay, clientOnly
  <2> QED BY <2>1, <2>2
<1>5. Answers' = Answers
  BY <1>1, <1>4, SameAnswers
<1>6. welcomed' = welcomed
  <2>1. ~Accepts
    BY DEF Accepts, Reads, Responds, Stays
  <2> QED BY <1>1, <2>1 DEF ServerStep
<1> QED BY <1>1, <1>2, <1>3, <1>5, <1>6, ServerUnseen DEF R!rrVars

LEMMA ExitSeen ==
    ASSUME IInv, ServerExits
    PROVE  R!Exit
<1>1. /\ toServer'.queue = toServer.queue /\ toServer'.closed
      /\ toClient'.queue = toClient.queue
      /\ UNCHANGED <<clientOnly, todo, out, welcomed>>
  BY WiresTyped DEF IInv, ClientInv, ServerExits, Shut, Wires, Pipes, serverOnly
<1>2. \A m \in S!Response : UnderWay(m)' <=> UnderWay(m)
  BY <1>1 DEF UnderWay, clientOnly
<1>3. Answers' = Answers
  BY <1>1, <1>2, SameAnswers
<1> QED BY <1>1, <1>3, ServerUnseen DEF R!Exit

LEMMA StepRefines == IInv /\ [Next]_sysVars => [R!Next]_(R!rrVars)
<1> SUFFICES ASSUME IInv, [Next]_sysVars PROVE R!Next \/ UNCHANGED R!rrVars
  OBVIOUS
<1>1. CASE ClientStep
  <2>1. CP!Next /\ UNCHANGED serverOnly /\ UNCHANGED welcomed
    BY <1>1, SameClient DEF ClientStep
  <2> QED BY <2>1, CallerRefines, LoopRefines DEF CP!Next
<1>2. CASE ServerStep
  <2>1. Reads \/ Handles \/ Responds \/ Stays
    BY <1>2, ServerMoves, WiresTyped DEF ServerStep, IInv, ClientInv
  <2> QED BY <1>2, <2>1, HandledRequest, HandledNotice, MovedOn
<1>3. CASE ServerExits
  BY <1>3, ExitSeen DEF R!Next
<1>4. CASE UNCHANGED sysVars
  <2>1. \A m : UnderWay(m)' <=> UnderWay(m)
    BY <1>4 DEF sysVars, clientOnly, serverOnly, UnderWay
  <2>2. Answers' = Answers
    BY <1>4, <2>1, SameAnswers DEF sysVars
  <2> QED BY <1>4, <2>2, ServerUnseen DEF sysVars, serverOnly, R!rrVars
<1> QED BY <1>1, <1>2, <1>3, <1>4 DEF Next

LEMMA InitRefines == Init => R!Init
<1> SUFFICES ASSUME Init PROVE R!Init
  OBVIOUS
<1>1. CP!Init /\ S!ServerInit /\ welcomed = FALSE
  BY SameClient DEF Init
<1>2. /\ nextID = 1 /\ got = [c \in Callers |-> NoOne] /\ todo = <<>>
      /\ toServer.queue = <<>> /\ ~toServer.closed
      /\ \A c \in Callers : myId[c] = 0 /\ pc[c] = "idle"
      /\ \A l \in Loops : loop[l] = "off"
  BY <1>1 DEF CP!Init, S!ServerInit, CP!EmptyPipe
<1>3. \A c \in Callers : Stage(c) = "idle" /\ RequestOf(c) = NoOne
  BY <1>2 DEF Stage, RequestOf
<1>4. Answers = {}
  BY <1>2 DEF Answers
<1>5. todo \o toServer.queue = <<>>
  BY <1>2
<1>6. Steady = TRUE
  BY <1>2 DEF Steady, Sole
<1> QED BY <1>1, <1>2, <1>3, <1>4, <1>5, <1>6 DEF R!Init

\* The client and the server together do what RequestReply promises: whatever
\* calls overlap, time out or find the server gone, and however many loops read,
\* what was sent is carried out once and in order, the answer reaches nobody but
\* the call that asked, and late answers disturb nobody.  An answer is lost only
\* if its call gives up, or once a second readLoop was started or one has ended
\* (client stdio.go:99-416, server stdio.go:69-251).
THEOREM SystemImplementsRequestReply == Spec => ImplementsRequestReply
<1> QED
  BY InitRefines, StepRefines, SystemInvariant, PTL DEF Spec, ImplementsRequestReply, R!Spec
=============================================================================
