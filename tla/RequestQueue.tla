---------------------------- MODULE RequestQueue ----------------------------
(***************************************************************************)
(* The work queue between connection threads and the worker (class         *)
(* RequestQueue, src/src/request.cpp).  A queue is a value                 *)
(* [q |-> requests, stopped |-> BOOLEAN]; submit, wait_pop and shutdown    *)
(* each run under mu_.  wait_pop has one caller, the worker, so the        *)
(* notify_one of submit always reaches the thread that waits.              *)
(***************************************************************************)
EXTENDS Naturals, Sequences

NewQueue == [q |-> << >>, stopped |-> FALSE]

Submit(rq, r) == [rq EXCEPT !.q = Append(@, r)]

\* Mutant of MayTake: the predicate of the wait forgets stopped_.
MayTakeOnlyWork(rq) == rq.q # << >>

\* wait_pop() returns from cv_.wait.
MayTake(rq) == rq.q # << >> \/ rq.stopped

\* wait_pop() returns nullptr: queued work is still served after shutdown.
NoMoreWork(rq) == rq.q = << >>

Oldest(rq) == Head(rq.q)
TakeOldest(rq) == [rq EXCEPT !.q = Tail(@)]

Shutdown(rq) == [rq EXCEPT !.stopped = TRUE]

=============================================================================
