---------------------------- MODULE StdioClient -----------------------------
(***************************************************************************)
(* pkg/client/stdio/stdio.go: concurrent callers of SendRequest,           *)
(* SendNotification, Initialize and ListTools, and the goroutines that run *)
(* readLoop, over one pair of pipes.                                       *)
(*                                                                         *)
(* c.mu guards pendingRequests and is also held across the write to stdin; *)
(* it is free between two steps except during such a write, so mu names    *)
(* only the caller that is writing.  readLoop takes the response channel   *)
(* from the map under c.mu and sends to it after the unlock: Lookup and    *)
(* Deliver are two steps.  A send on a closed channel panics and ends the  *)
(* process: no action is enabled any more.                                 *)
(*                                                                         *)
(* Each readLoop has a bufio.Scanner of its own: one Read takes as many    *)
(* bytes as there are, so lines wait in the buffer of the loop that read   *)
(* them, and a line may be torn between the Reads of two loops, neither of *)
(* which then has a message.                                               *)
(*                                                                         *)
(* ListTools reads and writes c.listToolsMethod without a lock.  A read    *)
(* that races with a write sees the old value, the new one, or the pointer *)
(* of one with the length of the other: a method nobody has, or a crash.   *)
(*                                                                         *)
(* Request ids are bounded by MaxId.  What the server does is left to the  *)
(* module that composes this one or closes it.                             *)
(***************************************************************************)
EXTENDS Integers, FiniteSets, Pipe

CONSTANTS
    Callers,     \* goroutines that use the client
    Loops,       \* goroutines that may run readLoop
    MaxId,       \* bound on request ids
    Cap,         \* capacity of the pipes
    Questions,   \* what a user's request asks: a method with its parameters
    InitQuestion,\* the initialize request
    ListNew,     \* the request for tools/list
    ListOld,     \* the request for mcp/list_tools
    Unknown,     \* a request without a method, or for one that nobody has
    Replies,     \* "result" and the error codes of the server
    Lines,       \* the other lines it sends: "handled", "overlong" or "other"
    Notices,     \* notifications a user of the client sends
    NoOne        \* no caller, no readLoop, no message

ASSUME StdioClientAssumption ==
    /\ MaxId \in Nat
    /\ Cap \in Nat
    /\ IsFiniteSet(Loops)
    /\ NoOne \notin Callers \cup Loops
    /\ NoOne \notin {ListNew, ListOld}
    /\ "result" \in Replies
    /\ Lines \subseteq {"handled", "overlong", "other"}
    /\ Notices \cap {"request", "initialize", "listCached", "listRetry", "listNew", "listOld"} = {}

VARIABLES
    nextID,      \* atomic counter of request ids
    pending,     \* ids in the pendingRequests map
    chan,        \* response channel of each id: "none", "open", "full", "closed"
    mu,          \* the caller that holds c.mu across a write, or NoOne
    pc,          \* progress of each caller
    job,         \* what the call is: see Jobs
    ask,         \* what its current request asks
    myId,        \* id of its current request, 0 if it has none
    myLoop,      \* the readLoop its Initialize started
    expired,     \* the context of the call has ended
    got,         \* the response its request received
    negotiated,  \* c.protocolVersion is set
    cached,      \* c.listToolsMethod, as the request it makes, or NoOne
    loop,        \* progress of each readLoop
    line,        \* the response that readLoop is working on
    loopCtxDone, \* the context Initialize passed to that readLoop has ended
    buffer,      \* the whole lines in the Scanner of each readLoop
    begun,       \* the readLoop that has read the first bytes of the pipe, or NoOne
    spoiled,     \* the line that its Scanner has begun will not be a message
    sent,        \* the response in the channel of each id
    panicked,    \* the process has died: a send on a closed channel, a torn string
    toServer,    \* c.stdin
    toClient     \* c.stdout

table == <<nextID, pending, chan, sent>>
callers == <<pc, job, ask, myId, myLoop, expired, got, negotiated, cached>>
scanners == <<buffer, begun, spoiled>>
loops == <<loop, line, loopCtxDone, scanners>>
pipes == <<toServer, toClient>>
vars == <<nextID, pending, chan, mu, pc, job, ask, myId, myLoop, expired, got,
          negotiated, cached, loop, line, loopCtxDone, buffer, begun, spoiled, sent, panicked,
          toServer, toClient>>

Ids == 2 .. MaxId

\* The requests that ListTools may make: with the remembered method, with
\* tools/list after that one or at once, and with mcp/list_tools.
Listings == {"listCached", "listRetry", "listNew", "listOld"}
Requests == {"request", "initialize"} \cup Listings
Jobs == Requests \cup {"initialized"} \cup Notices
Asks == Questions \cup {InitQuestion, ListNew, ListOld, Unknown}

\* To the server: a request, or a notification, which has no id.
Request == [kind : {"request"}, id : Ids, ask : Asks]
Notification == [kind : {"initialized"} \cup Notices]
FromClient == Request \cup Notification

\* From the server: a response (its id may be none of the client's), a
\* notification that has a handler, a line of more than a megabyte, or any
\* other line (another notification, or text that does not parse).
Response == [kind : {"response"}, id : Ids \cup {0}, reply : Replies]
Other == [kind : {"handled", "overlong", "other"}]
FromServer == Response \cup Other

TypeOK ==
    /\ nextID \in Nat \ {0}
    /\ pending \in SUBSET Ids
    /\ chan \in [Ids -> {"none", "open", "full", "closed"}]
    /\ mu \in Callers \cup {NoOne}
    /\ pc \in [Callers -> {"idle", "next", "write", "writing", "waiting", "cleanup", "save"}]
    /\ job \in [Callers -> Jobs]
    /\ ask \in [Callers -> Asks]
    /\ myId \in [Callers -> Ids \cup {0}]
    /\ myLoop \in [Callers -> Loops \cup {NoOne}]
    /\ expired \in [Callers -> BOOLEAN]
    /\ got \in [Callers -> Response \cup {NoOne}]
    /\ negotiated \in BOOLEAN
    /\ cached \in Asks \cup {NoOne}
    /\ loop \in [Loops -> {"off", "top", "scan", "handler", "lookup", "deliver", "delete",
                          "ended"}]
    /\ line \in [Loops -> Response \cup {NoOne}]
    /\ loopCtxDone \in [Loops -> BOOLEAN]
    /\ buffer \in [Loops -> Seq(FromServer)]
    /\ begun \in Loops \cup {NoOne}
    /\ spoiled \in [Loops -> BOOLEAN]
    /\ sent \in [Ids -> Response \cup {NoOne}]
    /\ panicked \in BOOLEAN
    /\ toServer \in Pipes(FromClient)
    /\ toClient \in Pipes(FromServer)

Init ==
    /\ nextID = 1
    /\ pending = {}
    /\ chan = [id \in Ids |-> "none"]
    /\ mu = NoOne
    /\ pc = [c \in Callers |-> "idle"]
    /\ job = [c \in Callers |-> "request"]
    /\ ask = [c \in Callers |-> InitQuestion]
    /\ myId = [c \in Callers |-> 0]
    /\ myLoop = [c \in Callers |-> NoOne]
    /\ expired = [c \in Callers |-> FALSE]
    /\ got = [c \in Callers |-> NoOne]
    /\ negotiated = FALSE
    /\ cached = NoOne
    /\ loop = [l \in Loops |-> "off"]
    /\ line = [l \in Loops |-> NoOne]
    /\ loopCtxDone = [l \in Loops |-> FALSE]
    /\ buffer = [l \in Loops |-> <<>>]
    /\ begun = NoOne
    /\ spoiled = [l \in Loops |-> FALSE]
    /\ sent = [id \in Ids |-> NoOne]
    /\ panicked = FALSE
    /\ toServer = EmptyPipe
    /\ toClient = EmptyPipe

-----------------------------------------------------------------------------
(* Callers.                                                                *)

LostAdd == nextID
AtomicAdd == nextID + 1

\* SendRequest: a fresh id, and its channel in the map (under c.mu).  The counter
\* goes up before the lock: until the insertion nobody else knows the id.
Register(c, q) ==
    /\ mu = NoOne
    /\ nextID < MaxId
    /\ nextID' = AtomicAdd
    /\ myId' = [myId EXCEPT ![c] = nextID + 1]
    /\ pending' = pending \cup {nextID + 1}
    /\ chan' = [chan EXCEPT ![nextID + 1] = "open"]
    /\ sent' = sent
    /\ ask' = [ask EXCEPT ![c] = q]
    /\ pc' = [pc EXCEPT ![c] = "write"]

\* A call of SendRequest with method and parameters q.
SendRequest(c, q) ==
    /\ pc[c] = "idle"
    /\ job' = [job EXCEPT ![c] = "request"]
    /\ expired' = [expired EXCEPT ![c] = FALSE]
    /\ Register(c, q)
    /\ UNCHANGED <<mu, myLoop, got, negotiated, cached, loops, panicked, pipes>>

\* A call of SendNotification or SendProgress: no id, no channel.
SendNotification(c, n) ==
    /\ pc[c] = "idle"
    /\ pc' = [pc EXCEPT ![c] = "write"]
    /\ job' = [job EXCEPT ![c] = n]
    /\ expired' = [expired EXCEPT ![c] = FALSE]
    /\ UNCHANGED <<table, mu, ask, myId, myLoop, got, negotiated, cached, loops, panicked,
                   pipes>>

\* Initialize starts a readLoop before it looks at the parameters ...
Initialize(c, l) ==
    /\ pc[c] = "idle"
    /\ loop[l] = "off"
    /\ loop' = [loop EXCEPT ![l] = "top"]
    /\ job' = [job EXCEPT ![c] = "initialize"]
    /\ myLoop' = [myLoop EXCEPT ![c] = l]
    /\ expired' = [expired EXCEPT ![c] = FALSE]
    /\ Register(c, InitQuestion)
    /\ UNCHANGED <<mu, got, negotiated, cached, line, loopCtxDone, scanners, panicked, pipes>>

\* ... and leaves it running if they are not set.
InitializeUnset(c, l) ==
    /\ pc[c] = "idle"
    /\ loop[l] = "off"
    /\ loop' = [loop EXCEPT ![l] = "top"]
    /\ UNCHANGED <<table, mu, callers, line, loopCtxDone, scanners, panicked, pipes>>

\* The parameters of a user's request do not marshal: the call fails.
MarshalFails(c) ==
    /\ pc[c] = "write"
    /\ job[c] = "request"
    /\ pc' = [pc EXCEPT ![c] = "cleanup"]
    /\ UNCHANGED <<table, mu, job, ask, myId, myLoop, expired, got, negotiated, cached, loops,
                   panicked, pipes>>

\* c.mu.Lock before the write.
LockForWrite(c) ==
    /\ pc[c] = "write"
    /\ mu = NoOne
    /\ mu' = c
    /\ pc' = [pc EXCEPT ![c] = "writing"]
    /\ UNCHANGED <<table, job, ask, myId, myLoop, expired, got, negotiated, cached, loops,
                   panicked, pipes>>

IsRequest(c) == job[c] \in Requests

Outgoing(c) ==
    IF IsRequest(c) THEN [kind |-> "request", id |-> myId[c], ask |-> ask[c]]
    ELSE [kind |-> job[c]]

\* The locals of a call that returns.
ForgetCall(c) ==
    /\ job' = [job EXCEPT ![c] = "request"]
    /\ ask' = [ask EXCEPT ![c] = InitQuestion]
    /\ myLoop' = [myLoop EXCEPT ![c] = NoOne]
    /\ expired' = [expired EXCEPT ![c] = FALSE]

\* The write completes and c.mu is free: a request waits, a notification is done.
Write(c) ==
    /\ pc[c] = "writing"
    /\ Room(toServer, Cap)
    /\ toServer' = Put(toServer, Outgoing(c))
    /\ mu' = NoOne
    /\ IF IsRequest(c)
       THEN /\ pc' = [pc EXCEPT ![c] = "waiting"]
            /\ UNCHANGED <<job, ask, myLoop, expired>>
       ELSE /\ pc' = [pc EXCEPT ![c] = "idle"]
            /\ ForgetCall(c)
    /\ UNCHANGED <<table, myId, got, negotiated, cached, loops, panicked, toClient>>

\* The server is gone: the write fails, and the call with it.
WriteFails(c) ==
    /\ pc[c] = "writing"
    /\ toServer.closed
    /\ mu' = NoOne
    /\ IF IsRequest(c)
       THEN /\ pc' = [pc EXCEPT ![c] = "cleanup"]
            /\ UNCHANGED <<job, ask, myLoop, expired>>
       ELSE /\ pc' = [pc EXCEPT ![c] = "idle"]
            /\ ForgetCall(c)
    /\ UNCHANGED <<table, myId, got, negotiated, cached, loops, panicked, pipes>>

LatestRequest(c) == nextID
OwnRequest(c) == myId[c]

\* The select of SendRequest: a response in the channel ...
ReceiveResponse(c) ==
    /\ pc[c] = "waiting"
    /\ chan[OwnRequest(c)] = "full"
    /\ got' = [got EXCEPT ![c] = sent[OwnRequest(c)]]
    /\ chan' = [chan EXCEPT ![OwnRequest(c)] = "open"]
    /\ sent' = [sent EXCEPT ![OwnRequest(c)] = NoOne]
    /\ pc' = [pc EXCEPT ![c] = "cleanup"]
    /\ UNCHANGED <<nextID, pending, mu, job, ask, myId, myLoop, expired, negotiated, cached,
                   loops, panicked, pipes>>

\* ... or the end of the context.
GiveUp(c) ==
    /\ pc[c] = "waiting"
    /\ expired[c]
    /\ pc' = [pc EXCEPT ![c] = "cleanup"]
    /\ UNCHANGED <<table, mu, job, ask, myId, myLoop, expired, got, negotiated, cached, loops,
                   panicked, pipes>>

CloseOnly(c) ==
    /\ pending' = pending
    /\ chan' = [chan EXCEPT ![myId[c]] = "closed"]
    /\ sent' = [sent EXCEPT ![myId[c]] = NoOne]

\* The deferred function of SendRequest, under c.mu: the entry is deleted and
\* the channel closed.
RemoveEntry(c) ==
    /\ pending' = pending \ {myId[c]}
    /\ chan' = [chan EXCEPT ![myId[c]] = "closed"]
    /\ sent' = [sent EXCEPT ![myId[c]] = NoOne]

Answered(c) == got[c] # NoOne
Succeeded(c) == got[c] # NoOne /\ got[c].reply = "result"

\* What ListTools goes on to when its request finds no method.
Fallback == [listCached |-> "listRetry", listRetry |-> "listOld", listNew |-> "listOld"]
FallsBack(c) ==
    job[c] \in DOMAIN Fallback /\ got[c] # NoOne /\ got[c].reply = "MethodNotFound"

Welcomed(c) == job[c] = "initialize" /\ Succeeded(c)
Listed(c) == job[c] \in {"listRetry", "listNew", "listOld"} /\ Succeeded(c)

GoesOn(c, where, as) ==
    /\ pc' = [pc EXCEPT ![c] = where]
    /\ job' = [job EXCEPT ![c] = as]
    /\ UNCHANGED <<ask, myLoop, expired>>

\* SendRequest returns.  An Initialize that succeeded stores the version and
\* goes on to notifications/initialized, unless the result does not parse;
\* ListTools goes on to its next method, or to remember the one that worked;
\* every other call is over.
Cleanup(c) ==
    /\ pc[c] = "cleanup"
    /\ mu = NoOne
    /\ RemoveEntry(c)
    /\ myId' = [myId EXCEPT ![c] = 0]
    /\ got' = [got EXCEPT ![c] = NoOne]
    /\ \/ Welcomed(c) /\ GoesOn(c, "write", "initialized")
       \/ Listed(c) /\ GoesOn(c, "save", job[c])
       \/ FallsBack(c) /\ GoesOn(c, "next", Fallback[job[c]])
       \/ /\ ~(Listed(c) \/ FallsBack(c))
          /\ pc' = [pc EXCEPT ![c] = "idle"]
          /\ ForgetCall(c)
    /\ negotiated' = (negotiated \/ job'[c] = "initialized")
    /\ UNCHANGED <<nextID, mu, cached, loops, panicked, pipes>>

\* The context of a call ends, and with it that of the readLoop it started.
ContextEnds(c) ==
    /\ pc[c] # "idle" /\ ~expired[c]
    /\ expired' = [expired EXCEPT ![c] = TRUE]
    /\ loopCtxDone' = [l \in Loops |-> loopCtxDone[l] \/ myLoop[c] = l]
    /\ UNCHANGED <<table, mu, pc, job, ask, myId, myLoop, got, negotiated, cached, loop, line,
                   scanners, panicked, pipes>>

-----------------------------------------------------------------------------
(* ListTools.                                                              *)

\* The callers that are about to set c.listToolsMethod, or to clear it.
Saving == {d \in Callers : pc[d] = "save"}
Clearing == {d \in Callers : pc[d] = "next" /\ job[d] = "listRetry"}

\* What a read of c.listToolsMethod may return, a torn value apart.
Sees(c) ==
    {cached} \cup {ask[d] : d \in Saving \ {c}}
             \cup {NoOne : d \in Clearing \ {c}}
Torn(c) == Sees(c) # {cached}

\* ListTools finds a remembered method, or none.
ListTools(c) ==
    /\ pc[c] = "idle"
    /\ pc' = [pc EXCEPT ![c] = "next"]
    /\ \E m \in Sees(c) :
          job' = [job EXCEPT ![c] = IF m = NoOne THEN "listNew" ELSE "listCached"]
    /\ expired' = [expired EXCEPT ![c] = FALSE]
    /\ UNCHANGED <<table, mu, ask, myId, myLoop, got, negotiated, cached, loops, panicked,
                   pipes>>

\* The remembered method is read once more to be asked for.
Asked(c) ==
    CASE job[c] = "listOld" -> {ListOld}
      [] job[c] \in {"listNew", "listRetry"} -> {ListNew}
      [] OTHER -> {IF m = NoOne THEN Unknown ELSE m : m \in Sees(c)}
                  \cup (IF Torn(c) THEN {Unknown} ELSE {})

\* The next request of ListTools; before the one that follows the remembered
\* method, that method is forgotten.
ListAsks(c) ==
    /\ pc[c] = "next"
    /\ \E q \in Asked(c) : Register(c, q)
    /\ cached' = IF job[c] = "listRetry" THEN NoOne ELSE cached
    /\ UNCHANGED <<mu, job, myLoop, expired, got, negotiated, loops, panicked, pipes>>

\* The pointer of the empty string with the length of another.
ListCrashes(c) ==
    /\ pc[c] = "next" /\ job[c] = "listCached"
    /\ Torn(c) /\ NoOne \in Sees(c)
    /\ panicked' = TRUE
    /\ UNCHANGED <<table, mu, callers, loops, pipes>>

\* The method that worked is remembered, and ListTools returns.
ListSaves(c) ==
    /\ pc[c] = "save"
    /\ cached' = ask[c]
    /\ pc' = [pc EXCEPT ![c] = "idle"]
    /\ ForgetCall(c)
    /\ UNCHANGED <<table, mu, myId, got, negotiated, loops, panicked, pipes>>

-----------------------------------------------------------------------------
(* readLoop.                                                               *)

\* The context of an Initialize that has returned ends (its caller cancels).
LoopContextEnds(l) ==
    /\ loop[l] \notin {"off", "ended"}
    /\ ~loopCtxDone[l]
    /\ \A c \in Callers : myLoop[c] # l
    /\ loopCtxDone' = [loopCtxDone EXCEPT ![l] = TRUE]
    /\ UNCHANGED <<table, mu, callers, loop, line, scanners, panicked, pipes>>

Blocked(l) == loop[l] = "scan" /\ buffer[l] = <<>>
OthersBlocked(l) == \E k \in Loops \ {l} : Blocked(k)

\* The top of the loop: it ends with its context, whatever its buffer holds; or it
\* goes on to Scan, which blocks in a Read if the buffer holds no line.
LoopTop(l) ==
    /\ loop[l] = "top"
    /\ IF loopCtxDone[l]
       THEN /\ loop' = [loop EXCEPT ![l] = "ended"]
            /\ UNCHANGED toClient
       ELSE /\ loop' = [loop EXCEPT ![l] = "scan"]
            /\ toClient' = IF buffer[l] = <<>> THEN AwaitData(toClient) ELSE toClient
    /\ UNCHANGED <<table, mu, callers, line, loopCtxDone, scanners, panicked, toServer>>

\* A part of the first line that l completes has gone to another loop, or another
\* line has run into it: it does not parse.
Garbled(l) == spoiled[l] \/ begun \notin {NoOne, l}

Garbage == [kind |-> "other"]
WholeLines(l, n) ==
    [i \in 1 .. n |-> IF i = 1 /\ Garbled(l) THEN Garbage ELSE toClient.queue[i]]

\* What it has begun ends with bytes that another loop takes.
Spoils(l) == [k \in Loops |-> spoiled[k] \/ (k # l /\ begun = k)]

\* A Read returns the rest of n lines, and may tear the one after them, which is
\* then begun.  It has room for every line that is not overlong.
Fill(l) ==
    /\ Blocked(l)
    /\ \E n \in 0 .. Len(toClient.queue), tears \in BOOLEAN :
          /\ n > 0 \/ (tears /\ begun # l)
          /\ tears => n < Len(toClient.queue)
          /\ \A i \in 1 .. n : toClient.queue[i].kind = "overlong" => WholeLines(l, n)[i] = Garbage
          /\ buffer' = [buffer EXCEPT ![l] = WholeLines(l, n)]
          /\ toClient' = TakeFirst(toClient, n, n = 0 \/ OthersBlocked(l))
          /\ begun' = IF tears THEN l ELSE NoOne
          /\ spoiled' = [Spoils(l) EXCEPT ![l] = n = 0 /\ Garbled(l)]
    /\ UNCHANGED <<table, mu, callers, loop, line, loopCtxDone, panicked, toServer>>

AnyLine(m) == TRUE
HasID(m) == m.kind = "response"

\* The first line of its buffer leaves it.
NextLine(l) ==
    /\ loop[l] = "scan"
    /\ buffer[l] # <<>>
    /\ buffer' = [buffer EXCEPT ![l] = Tail(@)]
    /\ UNCHANGED <<table, mu, callers, loopCtxDone, begun, spoiled, panicked, pipes>>

\* Scan returns a response ...
Scan(l) ==
    /\ NextLine(l)
    /\ HasID(Head(buffer[l]))
    /\ line' = [line EXCEPT ![l] = Head(buffer[l])]
    /\ loop' = [loop EXCEPT ![l] = "lookup"]

\* ... or another line, which goes to the handler of the user, to a channel
\* that nobody receives from, or nowhere.
Skim(l) ==
    /\ NextLine(l)
    /\ LET m == Head(buffer[l]) IN
       /\ ~HasID(m)
       /\ loop' = [loop EXCEPT ![l] = IF m.kind = "handled" THEN "handler" ELSE "top"]
    /\ UNCHANGED line

ReturnOnError == "ended"
ContinueOnError == "top"

\* The handler returns, with an error or not.  It runs in readLoop: nothing is
\* read before that.
HandlerReturns(l) ==
    /\ loop[l] = "handler"
    /\ loop' = [loop EXCEPT ![l] = ContinueOnError]
    /\ UNCHANGED <<table, mu, callers, line, loopCtxDone, scanners, panicked, pipes>>

\* The line is longer than the buffer of Scan, which returns false.  The rest
\* of the line stays in the pipe, and may be as long.
ScanTooLong(l) ==
    /\ Blocked(l)
    /\ toClient.queue # <<>>
    /\ Head(toClient.queue).kind = "overlong"
    /\ \E rest \in {"overlong", "other"} :
          toClient' = [queue |-> <<[kind |-> rest]>> \o Tail(toClient.queue),
                       reading |-> OthersBlocked(l),
                       closed |-> toClient.closed]
    /\ begun' = NoOne
    /\ spoiled' = Spoils(l)
    /\ loop' = [loop EXCEPT ![l] = "ended"]
    /\ UNCHANGED <<table, mu, callers, line, loopCtxDone, buffer, panicked, toServer>>

\* Scan returns false: the loop ends and tells nobody.
ScanEOF(l) ==
    /\ Blocked(l)
    /\ AtEOF(toClient)
    /\ loop' = [loop EXCEPT ![l] = "ended"]
    /\ UNCHANGED <<table, mu, callers, line, loopCtxDone, scanners, panicked, pipes>>

ReturnOnUnknown == "ended"
ContinueOnUnknown == "top"

\* The channel is looked up under c.mu; a response nobody waits for is dropped.
Lookup(l) ==
    /\ loop[l] = "lookup"
    /\ mu = NoOne
    /\ IF line[l].id \in pending
       THEN /\ loop' = [loop EXCEPT ![l] = "deliver"]
            /\ line' = line
       ELSE /\ loop' = [loop EXCEPT ![l] = ContinueOnUnknown]
            /\ line' = [line EXCEPT ![l] = NoOne]
    /\ UNCHANGED <<table, mu, callers, loopCtxDone, scanners, panicked, pipes>>

\* The send to the channel, which has room for one response.
Deliver(l) ==
    /\ loop[l] = "deliver"
    /\ chan[line[l].id] = "open"
    /\ chan' = [chan EXCEPT ![line[l].id] = "full"]
    /\ sent' = [sent EXCEPT ![line[l].id] = line[l]]
    /\ loop' = [loop EXCEPT ![l] = "delete"]
    /\ UNCHANGED <<nextID, pending, mu, callers, line, loopCtxDone, scanners, panicked, pipes>>

\* The channel is full: after 100 ms the response is dropped.
DeliverTimeout(l) ==
    /\ loop[l] = "deliver"
    /\ chan[line[l].id] = "full"
    /\ loop' = [loop EXCEPT ![l] = "delete"]
    /\ UNCHANGED <<table, mu, callers, line, loopCtxDone, scanners, panicked, pipes>>

\* The channel was closed since the lookup: the send panics.
DeliverPanics(l) ==
    /\ loop[l] = "deliver"
    /\ chan[line[l].id] = "closed"
    /\ panicked' = TRUE
    /\ UNCHANGED <<table, mu, callers, loops, pipes>>

KeepEntry(id) == pending
DropEntry(id) == pending \ {id}

\* The entry is deleted, again under c.mu.
Delete(l) ==
    /\ loop[l] = "delete"
    /\ mu = NoOne
    /\ pending' = DropEntry(line[l].id)
    /\ loop' = [loop EXCEPT ![l] = "top"]
    /\ line' = [line EXCEPT ![l] = NoOne]
    /\ UNCHANGED <<nextID, chan, sent, mu, callers, loopCtxDone, scanners, panicked, pipes>>

-----------------------------------------------------------------------------
CallerStep(c) ==
    \/ \E q \in Questions : SendRequest(c, q)
    \/ \E n \in Notices : SendNotification(c, n)
    \/ \E l \in Loops : Initialize(c, l) \/ InitializeUnset(c, l)
    \/ MarshalFails(c) \/ LockForWrite(c) \/ Write(c) \/ WriteFails(c)
    \/ ReceiveResponse(c) \/ GiveUp(c) \/ Cleanup(c)
    \/ ListTools(c) \/ ListAsks(c) \/ ListCrashes(c) \/ ListSaves(c)
    \/ ContextEnds(c)

LoopStep(l) ==
    \/ LoopContextEnds(l) \/ LoopTop(l) \/ Fill(l)
    \/ Scan(l) \/ Skim(l) \/ HandlerReturns(l) \/ ScanTooLong(l) \/ ScanEOF(l)
    \/ Lookup(l) \/ Deliver(l) \/ DeliverTimeout(l) \/ DeliverPanics(l) \/ Delete(l)

Next ==
    /\ ~panicked
    /\ \/ \E c \in Callers : CallerStep(c)
       \/ \E l \in Loops : LoopStep(l)

\* Goroutines that can run do run, handlers return.  Nothing makes a context
\* end.
CallerRuns(c) ==
    /\ ~panicked
    /\ \/ LockForWrite(c) \/ Write(c) \/ WriteFails(c)
       \/ ReceiveResponse(c) \/ GiveUp(c) \/ Cleanup(c)
       \/ ListAsks(c) \/ ListSaves(c)

LoopRuns(l) ==
    /\ ~panicked
    /\ \/ LoopTop(l) \/ Fill(l)
       \/ Scan(l) \/ Skim(l) \/ HandlerReturns(l) \/ ScanTooLong(l) \/ ScanEOF(l)
       \/ Lookup(l) \/ Deliver(l) \/ DeliverTimeout(l) \/ DeliverPanics(l) \/ Delete(l)

Fairness ==
    /\ \A c \in Callers : SF_vars(CallerRuns(c))
    /\ \A l \in Loops : SF_vars(LoopRuns(l))

-----------------------------------------------------------------------------
(* The client of any server: it reads requests, responds to those it has    *)
(* read in any order and number, sends other lines, and may exit.           *)

ServerWaits ==
    /\ ~toServer.reading
    /\ toServer' = AwaitData(toServer)
    /\ UNCHANGED <<table, mu, callers, loops, panicked, toClient>>

\* After a message it goes on reading, or does something else first.
ServerReads(goesOn) ==
    /\ toServer.queue # <<>>
    /\ ~toServer.closed
    /\ toServer' = Take(toServer, goesOn)
    /\ UNCHANGED <<table, mu, callers, loops, panicked, toClient>>

\* The request with this id has left the client and the pipe.
Arrived(id) ==
    /\ id <= nextID
    /\ \A c \in Callers : myId[c] = id => pc[c] \notin {"write", "writing"}
    /\ \A i \in DOMAIN toServer.queue :
          toServer.queue[i].kind = "request" => toServer.queue[i].id # id

ServerSends(m) ==
    /\ IF m.kind = "response" THEN m.id = 0 \/ Arrived(m.id) ELSE m.kind \in Lines
    /\ Room(toClient, Cap)
    /\ toClient' = Put(toClient, m)
    /\ UNCHANGED <<table, mu, callers, loops, panicked, toServer>>

ServerExits ==
    /\ ~toServer.closed
    /\ toServer' = Shut(toServer)
    /\ toClient' = Shut(toClient)
    /\ UNCHANGED <<table, mu, callers, loops, panicked>>

\* It may outlive the client.
ServerStep ==
    \/ ServerWaits \/ \E goesOn \in BOOLEAN : ServerReads(goesOn)
    \/ \E m \in FromServer : ServerSends(m)
    \/ ServerExits

OpenSpec == Init /\ [][Next \/ ServerStep]_vars

\* A server that reads on, answers only what it has read, if more than once, and
\* does not exit.
AnsweringStep ==
    \/ ServerWaits \/ ServerReads(TRUE)
    \/ \E m \in FromServer : (HasID(m) => m.id \in Ids) /\ ServerSends(m)

AnsweringSpec == Init /\ [][Next \/ AnsweringStep]_vars

-----------------------------------------------------------------------------
(* Properties.                                                             *)

\* The caller whose request has this id is between registration and cleanup.
InFlight(c) == myId[c] # 0

\* The map holds only ids of calls in flight, and their channels are open: no
\* entry outlives its call, and readLoop never finds a closed channel in it
\* (lines 366-377 against 159-186).
PendingOpen ==
    \A id \in pending :
        /\ chan[id] \in {"open", "full"}
        /\ \E c \in Callers : myId[c] = id

\* Two calls never share an id, whatever the interleaving (lines 363-369).
IdsDistinct ==
    \A c, d \in Callers : c # d /\ InFlight(c) => myId[c] # myId[d]

\* A call that received a response received the one for its own request, out
\* of order, duplicate, late and unknown responses notwithstanding.
OwnResponse ==
    \A c \in Callers : got[c] # NoOne => got[c].id = myId[c]

\* With one readLoop the response channel has room whenever readLoop sends:
\* the 100 ms timeout of lines 175-187 never drops a response.
OneReaderNeverBlocks ==
    Cardinality({l \in Loops : loop[l] # "off"}) = 1 =>
        \A l \in Loops : loop[l] = "deliver" => chan[line[l].id] # "full"

\* A response with this id, between the pipe and the select of its caller.
UnderWay(id) ==
    LET Is(m) == m.kind = "response" /\ m.id = id
    IN  \/ \E i \in DOMAIN toClient.queue : Is(toClient.queue[i])
        \/ \E l \in Loops : loop[l] # "ended" /\ \E i \in DOMAIN buffer[l] : Is(buffer[l][i])
        \/ \E l \in Loops : loop[l] \in {"lookup", "deliver"} /\ line[l].id = id
        \/ chan[id] = "full"

\* It is in the buffer of a loop whose context is done; or it is the next in the
\* pipe, where a loop waits that completes another line with it.
Doomed(id) ==
    LET Is(m) == m.kind = "response" /\ m.id = id
    IN  \/ \E l \in Loops : loopCtxDone[l] /\ \E i \in DOMAIN buffer[l] : Is(buffer[l][i])
        \/ /\ toClient.queue # <<>> /\ Is(Head(toClient.queue))
           /\ \E l \in Loops : Blocked(l) /\ Garbled(l)

\* However many loops read, and whatever else the server sends, these are the only
\* ways in which the last response under way to a call that waits is lost (lines
\* 99-189, 191-194).
LostOnlyByReaders ==
    [][\A c \in Callers :
          (pc[c] = "waiting" /\ pc'[c] = "waiting" /\ UnderWay(myId[c]) /\ ~UnderWay(myId[c])')
             => Doomed(myId[c])]_vars

\* Refuted: "Thread-safe implementation" - the process never dies.
NoPanic == ~panicked

=============================================================================
