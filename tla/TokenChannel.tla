---------------------------- MODULE TokenChannel ----------------------------
(***************************************************************************)
(* The bounded queue between the generation worker and the SSE writer      *)
(* (class TokenChannel, src/src/stream.cpp and include/ternative/stream.h).*)
(*                                                                         *)
(* A channel is a value [q |-> events, closed |-> BOOLEAN].  Each of       *)
(* push, pop and close runs under mu_, so each is one step; the wait of a  *)
(* condition variable on its predicate is the guard MayPush or MayPop.     *)
(* One thread pushes and one pops on any channel and both waits re-test    *)
(* their predicate, so a notification is never consumed by a thread that   *)
(* did not need it and guards are all that is left of the signalling.      *)
(***************************************************************************)
EXTENDS Naturals, Sequences

CONSTANT Cap   \* cap_: events a channel holds before push blocks (128 in the code)

ASSUME CapAssumption == Cap \in Nat \ {0}

\* finish_reason of a FINISH event, and what handle_chat_completions writes
\* for an ERR event.
Reasons == {"stop", "length", "error"}

\* A TOKEN event carries the ordinal of the fragment among those its request
\* emitted (the text itself is StopMatcher's concern); FINISH and ERR carry
\* the reason the client is told.
TokenEvent ==
    [kind : {"TOKEN"}, n : Nat] \cup [kind : {"FINISH", "ERR"}, reason : Reasons]

Token(i)   == [kind |-> "TOKEN", n |-> i]
Finish(r)  == [kind |-> "FINISH", reason |-> r]
Err        == [kind |-> "ERR", reason |-> "error"]

Channel == [q : Seq(TokenEvent), closed : BOOLEAN]

NewChannel == [q |-> << >>, closed |-> FALSE]

\* push() returns from cv_push_.wait: there is room, or the channel is closed.
MayPush(ch) == Len(ch.q) < Cap \/ ch.closed

\* The rest of push(): an event pushed on a closed channel is dropped.
Push(ch, ev) == IF ch.closed THEN ch ELSE [ch EXCEPT !.q = Append(@, ev)]

\* pop() returns from cv_pop_.wait: an event is there, or none will come.
MayPop(ch) == ch.q # << >> \/ ch.closed

\* pop() returns false: closed and drained.
Drained(ch) == ch.closed /\ ch.q = << >>

\* pop() returns true and hands over the front of the queue.
Front(ch) == Head(ch.q)
PopFront(ch) == [ch EXCEPT !.q = Tail(@)]

Close(ch) == [ch EXCEPT !.closed = TRUE]

=============================================================================
