-------------------------------- MODULE Pipe --------------------------------
(***************************************************************************)
(* The byte streams between a stdio client and its server (an OS pipe, or  *)
(* the io.Pipe of the tests), one message at a time.  Neither is code of   *)
(* the repository.                                                         *)
(*                                                                         *)
(* A pipe of capacity 0 is an io.Pipe: a write completes only when it      *)
(* meets a blocked reader.  A pipe of capacity n > 0 also takes up to n    *)
(* unread messages, as the kernel's buffer does.                           *)
(***************************************************************************)
EXTENDS Naturals, Sequences

Pipes(Msg) == [queue : Seq(Msg), reading : BOOLEAN, closed : BOOLEAN]

EmptyPipe == [queue |-> <<>>, reading |-> FALSE, closed |-> FALSE]

\* A write of one message would complete.
Room(p, cap) ==
    /\ ~p.closed
    /\ Len(p.queue) < cap \/ (p.reading /\ p.queue = <<>>)

Put(p, m) == [p EXCEPT !.queue = Append(@, m)]

\* A reader blocks in Read.
AwaitData(p) == [p EXCEPT !.reading = TRUE]

\* One of the readers leaves with the first message, or with the first n; others
\* may remain.
Take(p, others) ==
    [queue |-> Tail(p.queue), reading |-> others, closed |-> p.closed]

TakeFirst(p, n, others) ==
    [queue |-> SubSeq(p.queue, n + 1, Len(p.queue)), reading |-> others, closed |-> p.closed]

\* The other end is gone: writes fail, reads end once the queue is empty.
Shut(p) == [p EXCEPT !.closed = TRUE]
AtEOF(p) == p.closed /\ p.queue = <<>>
=============================================================================
