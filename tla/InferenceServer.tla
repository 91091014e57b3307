-------------------------- MODULE InferenceServer ---------------------------
(***************************************************************************)
(* The inference server: run_server's main thread composed with the        *)
(* connection threads and the generation worker.                           *)
(*                                                                         *)
(* model_mutex is the only lock around the model, and the worker never     *)
(* takes it.  The worker may use the model because the connection thread   *)
(* whose request it serves holds the mutex and waits for the answer: the   *)
(* right to use the model is handed over with the request and returns with *)
(* the answer.  The properties below say that this hand-over is safe, that *)
(* what travels on the channel arrives, and that everyone is served.       *)
(***************************************************************************)
EXTENDS Worker, Connection

\* The main thread: "startup" creates the worker and the listening socket,
\* "accept" is the accept loop, "destroy" runs ~Worker after a failed start,
\* "join" waits in it for the worker thread, "returned" is back in main().
MainPC == {"startup", "accept", "destroy", "join", "returned"}

Init ==
    /\ mainpc = "startup"
    /\ running = TRUE
    /\ queue = NewQueue
    /\ mutex = NoThread
    /\ hpc = [h \in Handlers |-> "off"]
    /\ req = [h \in Handlers |-> CHOOSE r \in Requests : TRUE]
    /\ conn = [h \in Handlers |-> TRUE]
    /\ out = [h \in Handlers |-> << >>]
    /\ chan = [h \in Handlers |-> NewChannel]
    /\ held = [h \in Handlers |-> Err]
    /\ promise = [h \in Handlers |-> "none"]
    /\ cancel = [h \in Handlers |-> FALSE]
    /\ wpc = "loop"
    /\ wreq = NoThread
    /\ steps = 0
    /\ reason = "length"
    /\ kv = [p \in Positions |-> NoThread]
    /\ seqLen = 0
    /\ crashed = FALSE
    /\ emitted = [h \in Handlers |-> 0]
    /\ late = [h \in Handlers |-> 0]

-----------------------------------------------------------------------------
(* The main thread.                                                        *)

MainOnly == UNCHANGED <<handlerVars, mutex, chan, promise, cancel, modelVars,
                        workerVars, historyVars>>

\* socket, bind and listen succeed.
Listen ==
    /\ mainpc = "startup"
    /\ mainpc' = "accept"
    /\ UNCHANGED <<running, queue>>
    /\ MainOnly

\* socket_platform_init() fails: the queue is shut down before returning.
PlatformFails ==
    /\ mainpc = "startup"
    /\ mainpc' = "destroy"
    /\ queue' = Shutdown(queue)
    /\ UNCHANGED running
    /\ MainOnly

\* socket(), inet_addr(), bind() or listen() fails: the function just returns.
SocketFails ==
    /\ mainpc = "startup"
    /\ mainpc' = "destroy"
    /\ UNCHANGED <<running, queue>>
    /\ MainOnly

\* ~Worker() calls stop(): running_ = false and then join().
StopWorker ==
    /\ mainpc = "destroy"
    /\ running' = FALSE
    /\ mainpc' = "join"
    /\ UNCHANGED queue
    /\ MainOnly

JoinWorker ==
    /\ mainpc = "join"
    /\ wpc = "exited"
    /\ mainpc' = "returned"
    /\ UNCHANGED <<running, queue>>
    /\ MainOnly

MainStep ==
    \/ Listen
    \/ PlatformFails
    \/ SocketFails
    \/ StopWorker
    \/ JoinWorker

-----------------------------------------------------------------------------
(* The system.  A step of a thread needs a process to run in.              *)

Alive == ~crashed /\ UNCHANGED crashed

Dies(h) == ~crashed /\ (HandlerThrows(h) \/ BrokenPipe(h))

Next ==
    \/ Alive /\ MainStep
    \/ Alive /\ WorkerStep
    \/ ~crashed /\ SampleWithoutLogits
    \/ \E h \in Handlers :
          \/ Alive /\ Accept(h)
          \/ Alive /\ HandlerStep(h)
          \/ Alive /\ ClientGone(h)
          \/ Dies(h)

Spec == Init /\ [][Next]_vars

\* Every thread that can go on does: the scheduler is fair, the model always
\* returns, and a client sends its request and reads its answer or goes away.
\* Connections arriving, clients leaving and crashes are not forced.  Weak
\* fairness is enough for model_mutex because a connection thread locks it
\* once.
Fairness ==
    /\ WF_vars(Alive /\ MainStep)
    /\ WF_vars(Alive /\ WorkerStep)
    /\ \A h \in Handlers : WF_vars(Alive /\ HandlerStep(h))

FairSpec == Spec /\ Fairness

-----------------------------------------------------------------------------
(* Vocabulary of the properties.                                           *)

\* h runs the model on its own thread: from the clearing of the cache to the
\* last sample.
DirectInModel(h) == hpc[h] \in {"prefill", "sample", "step"}

\* The worker runs the model, or is blocked with the cache in use.
WorkerInModel == wpc \in {"prefill", "decode", "emit", "forward"}

\* The worker has taken a request and has not answered it.
Serving == wpc \in {"begin", "prefill", "decode", "emit", "forward", "flush",
                    "finish", "report"}

\* h has handed its request to the worker and has not seen the answer.
Waiting(h) == hpc[h] \in {"headers", "drain", "chunk", "await"}

\* h is inside the scope of its lock_guard.
InScope(h) == hpc[h] \in {"body", "prefill", "sample", "step", "error",
                          "submit", "headers", "drain", "chunk", "last",
                          "await", "unlock"}
              \/ (hpc[h] = "reply" /\ req[h].kind # "light")

Terminal(ev) == ev.kind # "TOKEN"

\* The answer to h is on its way or has been read.
Answered(h) ==
    \/ promise[h] # "none"
    \/ \E i \in 1 .. Len(chan[h].q) : Terminal(chan[h].q[i])

-----------------------------------------------------------------------------
(* Safety.                                                                 *)

Delivered == [kind : {"reply", "error", "headers", "role", "chunk", "DONE"}
                        \cup Reasons, n : Nat]

HandlerTypeOK ==
    /\ hpc \in [Handlers -> HandlerPC]
    /\ req \in [Handlers -> Requests]
    /\ conn \in [Handlers -> BOOLEAN]
    /\ out \in [Handlers -> Seq(Delivered)]
    /\ held \in [Handlers -> TokenEvent]

SharedTypeOK ==
    /\ queue \in [q : Seq(Handlers), stopped : BOOLEAN]
    /\ mutex \in Handlers \cup {NoThread}
    /\ chan \in [Handlers -> Channel]
    /\ promise \in [Handlers -> {"none", "value", "exception"}]
    /\ cancel \in [Handlers -> BOOLEAN]

WorkerTypeOK ==
    /\ wpc \in WorkerPC
    /\ wreq \in Handlers \cup {NoThread}
    /\ reason \in {"stop", "length"}
    /\ steps \in Nat
    /\ seqLen \in Nat
    /\ kv \in [Positions -> Handlers \cup {NoThread}]
    /\ emitted \in [Handlers -> Nat]
    /\ late \in [Handlers -> Nat]

\* The type invariant: in particular the KV cache has max_seq_len positions
\* whatever the length of the prompts.
TypeOK ==
    /\ mainpc \in MainPC
    /\ running \in BOOLEAN
    /\ crashed \in BOOLEAN
    /\ HandlerTypeOK
    /\ SharedTypeOK
    /\ WorkerTypeOK

\* "Serialise all model inference calls": at any time at most one thread is
\* between the clearing of the KV cache and its last use, whether it is the
\* worker (which holds no lock) or a connection thread.
ModelExclusion ==
    /\ WorkerInModel => \A h \in Handlers : ~DirectInModel(h)
    /\ \A h, k \in Handlers : DirectInModel(h) /\ DirectInModel(k) => h = k

\* A forward pass of a request attends only to keys and values that the same
\* request wrote, although clear() leaves the previous request's in place:
\* no other request has touched the cache since this one's prompt pass.
OwnKV ==
    /\ wpc \in {"emit", "forward"} => OwnContext(wreq)
    /\ \A h \in Handlers : hpc[h] = "step" => OwnContext(h)

\* The hand-over: while the worker serves a request its connection thread
\* holds model_mutex and waits, and no other request is queued.
HandOver ==
    Serving => /\ wreq \in Handlers
               /\ mutex = wreq
               /\ Waiting(wreq)
               /\ queue.q = << >>

\* No fragment is lost, duplicated or reordered between the worker and the
\* socket: the fragments delivered to a client that is still there, then the
\* one its handler has in hand, then those in the channel are the fragments
\* 1 .. emitted, each once and in that order.
InFlight(h) ==
    out[h] \o (IF hpc[h] = "chunk" THEN <<held[h]>> ELSE << >>) \o chan[h].q

FragmentsOf(s) == {i \in 1 .. Len(s) : s[i].kind \in {"chunk", "TOKEN"}}

NoFragmentLost ==
    \A h \in Handlers :
        conn[h] =>
            LET s == InFlight(h)
            IN  /\ {s[i].n : i \in FragmentsOf(s)} = 1 .. emitted[h]
                /\ \A i, j \in FragmentsOf(s) : i < j => s[i].n < s[j].n

\* A client that stays gets one complete response: one JSON body, or an SSE
\* stream of headers, role, fragments, a finish_reason and [DONE], or nothing
\* at all when its HTTP request could not be parsed.  In particular the loop
\* over pop() never ends on a closed channel with the finish_reason missing.
CompleteStream(s) ==
    /\ Len(s) >= 4
    /\ s[1].kind = "headers" /\ s[2].kind = "role"
    /\ \A i \in 3 .. Len(s) - 2 : s[i].kind = "chunk"
    /\ s[Len(s) - 1].kind \in Reasons
    /\ s[Len(s)].kind = "DONE"

ResponseComplete ==
    \A h \in Handlers :
        (hpc[h] \in {"unlock", "done"} /\ conn[h]) =>
            \/ Len(out[h]) = 1 /\ out[h][1].kind \in {"reply", "error"}
            \/ req[h].kind = "stream" /\ CompleteStream(out[h])
            \/ hpc[h] = "done" /\ out[h] = << >>

\* Once the handler has cancelled a request the worker runs the model for it
\* at most once more: the pass whose token it had already sampled.
CancelBoundsWork == \A h \in Handlers : late[h] <= 1

\* An answered request is never answered again: a promise is set once, and
\* nothing follows a terminal event in a channel, not even a token.
AnswerIsFinal ==
    [][\A h \in Handlers :
          /\ promise[h] # "none" => promise'[h] = promise[h]
          /\ (Answered(h) \/ hpc[h] = "last") =>
                Len(chan'[h].q) <= Len(chan[h].q)]_vars

-----------------------------------------------------------------------------
(* The abstract specification.                                             *)

\* TOKEN events of h that the worker has pushed and the handler not popped: a
\* terminal event is the last of its channel.
Pending(h) ==
    LET q == chan[h].q
    IN  IF q # << >> /\ Terminal(q[Len(q)]) THEN Len(q) - 1 ELSE Len(q)

\* The worker has answered h: its promise is set, or its channel is closed or
\* about to be.
HasAnswer(h) == \/ promise[h] # "none"
                \/ chan[h].closed
                \/ wpc = "close" /\ wreq = h

Asked(h) == \/ \E i \in 1 .. Len(queue.q) : queue.q[i] = h
            \/ Serving /\ wreq = h

Service == INSTANCE SerialService WITH
    Clients <- Handlers,
    Nobody  <- NoThread,
    owner   <- mutex,
    stage   <- [h \in Handlers |-> IF HasAnswer(h) THEN "answered"
                                   ELSE IF Asked(h) THEN "asked" ELSE "idle"],
    made    <- emitted,
    taken   <- [h \in Handlers |-> emitted[h] - Pending(h)]

\* The server is a serial service: mutex, queue, channel, promise and worker
\* together never let a second request near the model, never make or give
\* anything to a client that does not own the model, and never release the
\* mutex while the engine owes the owner an answer or a fragment.
IsSerialService == Service!ServiceSpec

-----------------------------------------------------------------------------
(* Liveness.                                                               *)

\* Every request whose connection was accepted ends, whatever the order in
\* which the threads run and even if its client leaves with the channel full.
EveryRequestEnds ==
    \A h \in Handlers : hpc[h] = "parse" ~> (hpc[h] = "done" \/ crashed)

\* The worker always comes back for the next request: it is never left
\* blocked on the channel of a client that has gone.
WorkerComesBack == Serving ~> (wpc = "loop" \/ crashed)

\* Once the queue has been shut down ~Worker's join returns, and so does
\* run_server.
ShutdownJoins == queue.stopped ~> (mainpc = "returned" \/ crashed)

=============================================================================
