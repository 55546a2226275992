---------------------------- MODULE RequestReply ----------------------------
(***************************************************************************)
(* What the callers of a stdio client may expect of it and its server:     *)
(* nothing of pipes, locks, channels, buffers or the map of requests.      *)
(*                                                                         *)
(* A call makes a request with a fresh id, sends it, and waits.  The       *)
(* server carries out what was sent in the order in which it was sent,     *)
(* each message once, whether its call still waits or not.  The answer     *)
(* waits for the call that asked, and for no other.  It is lost only if    *)
(* that call gives up, or once the reading is disturbed: a second reader   *)
(* came, or the reader ended.                                              *)
(***************************************************************************)
EXTENDS Integers, Sequences

CONSTANTS
    Callers,
    Asks,          \* what a request asks
    InitQuestion,
    ReplyTo(_),    \* the replies that the server may give
    Notices,       \* notifications, except "initialized"
    NoOne          \* no request, no answer

VARIABLES
    last,      \* the last id given out
    stage,     \* of each call: "idle", "made", "sent" or "over"
    request,   \* the request of each call
    reply,     \* the answer it has received
    asked,     \* what was sent and is not yet carried out
    answers,   \* the answers to calls that wait
    welcomed,  \* the server has accepted an initialize request
    up,        \* the server has not exited
    steady     \* one reader takes the answers, and has not ended

rrVars == <<last, stage, request, reply, asked, answers, welcomed, up, steady>>

Init ==
    /\ last = 1
    /\ stage = [c \in Callers |-> "idle"]
    /\ request = [c \in Callers |-> NoOne]
    /\ reply = [c \in Callers |-> NoOne]
    /\ asked = <<>>
    /\ answers = {}
    /\ welcomed = FALSE
    /\ up = TRUE
    /\ steady = TRUE

Make(c, q) ==
    /\ stage[c] = "idle"
    /\ last' = last + 1
    /\ stage' = [stage EXCEPT ![c] = "made"]
    /\ request' = [request EXCEPT ![c] = [kind |-> "request", id |-> last', ask |-> q]]
    /\ steady' \in IF q = InitQuestion THEN {steady, FALSE} ELSE {steady}
    /\ UNCHANGED <<reply, asked, answers, welcomed, up>>

Send(c) ==
    /\ stage[c] = "made" /\ up
    /\ stage' = [stage EXCEPT ![c] = "sent"]
    /\ asked' = Append(asked, request[c])
    /\ UNCHANGED <<last, request, reply, answers, welcomed, up, steady>>

\* A request is not sent: it cannot be put into words, or the server is gone.
Fail(c) ==
    /\ stage[c] = "made"
    /\ stage' = [stage EXCEPT ![c] = "over"]
    /\ UNCHANGED <<last, request, reply, asked, answers, welcomed, up, steady>>

\* The server learns that the client is initialized only after it has accepted
\* an initialize request.
Notify(n) ==
    /\ up
    /\ n = "initialized" => welcomed
    /\ asked' = Append(asked, [kind |-> n])
    /\ UNCHANGED <<last, stage, request, reply, answers, welcomed, up, steady>>

Answer(m, r) == [kind |-> "response", id |-> m.id, reply |-> r]

Awaited(m) == \E c \in Callers : stage[c] = "sent" /\ request[c] = m

CarryOut ==
    /\ up
    /\ asked # <<>> /\ Head(asked).kind = "request"
    /\ asked' = Tail(asked)
    /\ LET m == Head(asked) IN
       \E r \in ReplyTo(m.ask) :
          /\ answers' = answers \cup {a \in {Answer(m, r)} : Awaited(m)}
          /\ welcomed' = (welcomed \/ (m.ask = InitQuestion /\ r = "result"))
    /\ UNCHANGED <<last, stage, request, reply, up, steady>>

TakeNotice ==
    /\ up
    /\ asked # <<>> /\ Head(asked).kind # "request"
    /\ asked' = Tail(asked)
    /\ UNCHANGED <<last, stage, request, reply, answers, welcomed, up, steady>>

\* The call no longer waits, and nothing is kept for it.
StopsWaiting(c) ==
    /\ stage[c] = "sent"
    /\ stage' = [stage EXCEPT ![c] = "over"]
    /\ answers' = {a \in answers : a.id # request[c].id}

Receive(c, a) ==
    /\ StopsWaiting(c)
    /\ a.id = request[c].id
    /\ reply' = [reply EXCEPT ![c] = a]
    /\ UNCHANGED <<last, request, asked, welcomed, up, steady>>

GiveUp(c) ==
    /\ StopsWaiting(c)
    /\ UNCHANGED <<last, request, reply, asked, welcomed, up, steady>>

Return(c) ==
    /\ stage[c] = "over"
    /\ stage' = [stage EXCEPT ![c] = "idle"]
    /\ request' = [request EXCEPT ![c] = NoOne]
    /\ reply' = [reply EXCEPT ![c] = NoOne]
    /\ UNCHANGED <<last, asked, answers, welcomed, up, steady>>

\* What is not carried out by then never is.
Exit ==
    /\ up' = FALSE
    /\ UNCHANGED <<last, stage, request, reply, asked, answers, welcomed, steady>>

\* A second reader comes, or the reader ends, and answers get lost, now and from
\* now on.
Disturb ==
    /\ steady' = FALSE
    /\ answers' \in SUBSET answers
    /\ UNCHANGED <<last, stage, request, reply, asked, welcomed, up>>

Next ==
    \/ \E c \in Callers :
          \/ \E q \in Asks : Make(c, q)
          \/ Send(c) \/ Fail(c) \/ GiveUp(c) \/ Return(c)
          \/ \E a \in answers : Receive(c, a)
    \/ \E n \in {"initialized"} \cup Notices : Notify(n)
    \/ CarryOut \/ TakeNotice \/ Exit \/ Disturb

Spec == Init /\ [][Next]_rrVars
=============================================================================
