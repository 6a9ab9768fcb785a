---------------------------- MODULE RequestQueue ----------------------------
(***************************************************************************)
(* The queue in front of one provider process (core/src/requestQueue.ts).  *)
(*                                                                         *)
(* A provider answers one request at a time: the queue holds the work that *)
(* waits, the work in flight, and whether the process behind it is gone.   *)
(* The operators give the queue after each call; who is rejected is left   *)
(* to the caller, which knows whose work it is.  `reopen` has no caller:   *)
(* every process gets a queue of its own.                                  *)
(***************************************************************************)
EXTENDS Naturals, Sequences

CONSTANT Idle   \* nothing is running

NewQueue == [waiting |-> <<>>, running |-> Idle, closed |-> FALSE]

\* `run`: refused once closed, else pushed; the pump takes it at once when nothing runs.
Run(q, work) ==
    IF q.closed THEN q
    ELSE IF q.running = Idle THEN [q EXCEPT !.running = work]
    ELSE [q EXCEPT !.waiting = Append(@, work)]

\* The pump's loop after the running work settled, in either way: the next one starts.
Settled(q) ==
    IF q.waiting = <<>> THEN [q EXCEPT !.running = Idle]
    ELSE [q EXCEPT !.running = Head(q.waiting), !.waiting = Tail(@)]

\* `close`: everything waiting and the work in flight is rejected, and whatever comes later.  The
\* work itself may still settle, to nobody.
Closed(q) == [waiting |-> <<>>, running |-> Idle, closed |-> TRUE]

\* A mutant of Pending: the work in flight is left to settle by itself.
PendingWaiting(q) == {q.waiting[i] : i \in 1..Len(q.waiting)}

\* The work `close` rejects.
Pending(q) == {q.waiting[i] : i \in 1..Len(q.waiting)} \cup ({q.running} \ {Idle})
=============================================================================
