----------------------------- MODULE Connection -----------------------------
(***************************************************************************)
(* A connection thread of the HTTP server (the lambda of run_server and    *)
(* the endpoint handlers it calls, src/src/server.cpp).                    *)
(*                                                                         *)
(* hpc[h] is the next thing the thread does:                               *)
(*   "off"     not yet accepted          "await"   fut.get()               *)
(*   "parse"   parse_http_request        "submit"  build the GenRequest    *)
(*   "lock"    lock model_mutex          "headers" SSE headers and role    *)
(*   "body"    parse the JSON body       "drain"   channel->pop()          *)
(*   "prefill" model: run the prompt     "chunk"   send the popped token   *)
(*   "sample"  model: top of the loop    "last"    send finish and [DONE]  *)
(*   "step"    model: forward a token    "unlock"  ~lock_guard             *)
(*   "reply"   send the JSON response    "close"   close_socket            *)
(*   "error"   send a 400                "done"    the thread has ended    *)
(***************************************************************************)
EXTENDS ServerState

HandlerPC == {"off", "parse", "lock", "body", "prefill", "sample", "step",
              "reply", "error", "submit", "headers", "drain", "chunk", "last",
              "await", "unlock", "close", "done"}

\* What a client receives.  A JSON response is one item; an SSE response is a
\* sequence of them.
Item(k, i) == [kind |-> k, n |-> i]

Goto(h, pc) == hpc' = [hpc EXCEPT ![h] = pc]

\* send(): data for a client that has gone is not delivered.
Deliver(h, items) ==
    out' = IF conn[h] THEN [out EXCEPT ![h] = @ \o items] ELSE out

\* accept() returns a client; its thread is created and detached.
Accept(h) ==
    /\ mainpc = "accept"
    /\ hpc[h] = "off"
    /\ \E r \in Requests : req' = [req EXCEPT ![h] = r]
    /\ Goto(h, "parse")
    /\ UNCHANGED <<conn, out, held, sharedVars, modelVars, workerVars,
                   mainVars, historyVars>>

\* parse_http_request fails: nothing is sent, the socket is closed.
BadHttp(h) ==
    /\ hpc[h] = "parse"
    /\ Goto(h, "close")
    /\ UNCHANGED <<req, conn, out, held, sharedVars, modelVars, workerVars,
                   mainVars, historyVars>>

\* Routing: only the inference routes take model_mutex.
Route(h) ==
    /\ hpc[h] = "parse"
    /\ Goto(h, IF req[h].kind = "light" THEN "reply" ELSE "lock")
    /\ UNCHANGED <<req, conn, out, held, sharedVars, modelVars, workerVars,
                   mainVars, historyVars>>

\* Mutant of Lock: the handler does not wait for the mutex.
LockWithoutWaiting(h) ==
    /\ hpc[h] = "lock"
    /\ mutex' = h
    /\ Goto(h, "body")
    /\ UNCHANGED <<req, conn, out, held, queue, chan, promise, cancel,
                   modelVars, workerVars, mainVars, historyVars>>

\* std::lock_guard<std::mutex> lk(model_mutex)
Lock(h) ==
    /\ hpc[h] = "lock"
    /\ mutex = NoThread
    /\ mutex' = h
    /\ Goto(h, "body")
    /\ UNCHANGED <<req, conn, out, held, queue, chan, promise, cancel,
                   modelVars, workerVars, mainVars, historyVars>>

\* The body is not JSON, or a required field is missing: 400.
RejectBody(h) ==
    /\ hpc[h] = "body"
    /\ Goto(h, "error")
    /\ UNCHANGED <<req, conn, out, held, sharedVars, modelVars, workerVars,
                   mainVars, historyVars>>

\* The request is for the worker.
AcceptBody(h) ==
    /\ hpc[h] = "body"
    /\ req[h].kind \in {"stream", "block"}
    /\ Goto(h, "submit")
    /\ UNCHANGED <<req, conn, out, held, sharedVars, modelVars, workerVars,
                   mainVars, historyVars>>

\* Model::generate, generate_with_logprobs and score_logprobs start by
\* clearing the cache; an empty prompt returns at once.
EnterModel(h) ==
    /\ hpc[h] = "body"
    /\ req[h].kind = "direct"
    /\ ClearKV
    /\ steps' = 0
    /\ Goto(h, IF req[h].plen = 0 THEN "reply" ELSE "prefill")
    /\ UNCHANGED <<req, conn, out, held, sharedVars, workerVars, mainVars,
                   historyVars>>

RunPrompt(h) ==
    /\ hpc[h] = "prefill"
    /\ PrefillKV(h)
    /\ Goto(h, "sample")
    /\ UNCHANGED <<req, conn, out, held, steps, sharedVars, workerVars,
                   mainVars, historyVars>>

\* The token loop of generate ends: limit, eos or a full context.  Scoring a
\* sequence has no token loop and ends here too.
LeaveModel(h) ==
    /\ hpc[h] = "sample"
    /\ Goto(h, "reply")
    /\ UNCHANGED <<req, conn, out, held, sharedVars, modelVars, workerVars,
                   mainVars, historyVars>>

SampleToken(h) ==
    /\ hpc[h] = "sample"
    /\ steps < req[h].limit
    /\ seqLen < MaxSeqLen
    /\ Goto(h, "step")
    /\ UNCHANGED <<req, conn, out, held, sharedVars, modelVars, workerVars,
                   mainVars, historyVars>>

ForwardToken(h) ==
    /\ hpc[h] = "step"
    /\ ForwardKV(h)
    /\ steps' = steps + 1
    /\ Goto(h, "sample")
    /\ UNCHANGED <<req, conn, out, held, sharedVars, workerVars, mainVars,
                   historyVars>>

\* send_json_response (or the single SSE chunk of a streamed completion): a
\* JSON response says whether it carries a result.
Reply(h) ==
    /\ hpc[h] \in {"reply", "error"}
    /\ Deliver(h, <<Item(hpc[h], 0)>>)
    /\ Goto(h, IF req[h].kind = "light" THEN "close" ELSE "unlock")
    /\ UNCHANGED <<req, conn, held, sharedVars, modelVars, workerVars,
                   mainVars, historyVars>>

\* Mutant of SubmitRequest: the mutex is released once the request is queued.
SubmitAndRelease(h) ==
    /\ hpc[h] = "submit"
    /\ queue' = Submit(queue, h)
    /\ mutex' = NoThread
    /\ Goto(h, IF req[h].kind = "stream" THEN "headers" ELSE "await")
    /\ UNCHANGED <<req, conn, out, held, chan, promise, cancel, modelVars,
                   workerVars, mainVars, historyVars>>

\* worker_queue->submit(gr)
SubmitRequest(h) ==
    /\ hpc[h] = "submit"
    /\ queue' = Submit(queue, h)
    /\ Goto(h, IF req[h].kind = "stream" THEN "headers" ELSE "await")
    /\ UNCHANGED <<req, conn, out, held, mutex, chan, promise, cancel,
                   modelVars, workerVars, mainVars, historyVars>>

\* send_sse_headers, send_role: their results are ignored.
SendHeaders(h) ==
    /\ hpc[h] = "headers"
    /\ Deliver(h, <<Item("headers", 0), Item("role", 0)>>)
    /\ Goto(h, "drain")
    /\ UNCHANGED <<req, conn, held, sharedVars, modelVars, workerVars,
                   mainVars, historyVars>>

\* gr->channel->pop(ev) and the switch on the event.  A drained channel would
\* end the loop and send [DONE] without a finish_reason.
PopEvent(h) ==
    /\ hpc[h] = "drain"
    /\ MayPop(chan[h])
    /\ IF Drained(chan[h])
       THEN /\ Deliver(h, <<Item("DONE", 0)>>)
            /\ Goto(h, "unlock")
            /\ UNCHANGED <<chan, held>>
       ELSE /\ held' = [held EXCEPT ![h] = Front(chan[h])]
            /\ chan' = [chan EXCEPT ![h] = PopFront(@)]
            /\ Goto(h, IF Front(chan[h]).kind = "TOKEN" THEN "chunk" ELSE "last")
            /\ UNCHANGED out
    /\ UNCHANGED <<req, conn, queue, mutex, promise, cancel, modelVars,
                   workerVars, mainVars, historyVars>>

\* send_chunk succeeds.
SendChunk(h) ==
    /\ hpc[h] = "chunk"
    /\ Deliver(h, <<Item("chunk", held[h].n)>>)
    /\ Goto(h, "drain")
    /\ UNCHANGED <<req, conn, held, sharedVars, modelVars, workerVars,
                   mainVars, historyVars>>

\* Mutant of ChunkFails: the handler returns and nobody drains the channel.
ChunkFailsAndReturns(h) ==
    /\ hpc[h] = "chunk"
    /\ ~conn[h]
    /\ cancel' = [cancel EXCEPT ![h] = TRUE]
    /\ Goto(h, "unlock")
    /\ UNCHANGED <<req, conn, out, held, queue, mutex, chan, promise,
                   modelVars, workerVars, mainVars, historyVars>>

\* send_chunk fails: the worker is told to stop, the handler keeps draining.
ChunkFails(h) ==
    /\ hpc[h] = "chunk"
    /\ ~conn[h]
    /\ cancel' = [cancel EXCEPT ![h] = TRUE]
    /\ Goto(h, "drain")
    /\ UNCHANGED <<req, conn, out, held, queue, mutex, chan, promise,
                   modelVars, workerVars, mainVars, historyVars>>

\* FINISH or ERR: send_finish and send_done, then return.
SendLast(h) ==
    /\ hpc[h] = "last"
    /\ Deliver(h, <<Item(held[h].reason, 0), Item("DONE", 0)>>)
    /\ Goto(h, "unlock")
    /\ UNCHANGED <<req, conn, held, sharedVars, modelVars, workerVars,
                   mainVars, historyVars>>

\* fut.get() returns or throws; both become a 200.
AwaitResult(h) ==
    /\ hpc[h] = "await"
    /\ promise[h] # "none"
    /\ Goto(h, "reply")
    /\ UNCHANGED <<req, conn, out, held, sharedVars, modelVars, workerVars,
                   mainVars, historyVars>>

Unlock(h) ==
    /\ hpc[h] = "unlock"
    /\ mutex' = NoThread
    /\ Goto(h, "close")
    /\ UNCHANGED <<req, conn, out, held, queue, chan, promise, cancel,
                   modelVars, workerVars, mainVars, historyVars>>

CloseSocket(h) ==
    /\ hpc[h] = "close"
    /\ Goto(h, "done")
    /\ UNCHANGED <<req, conn, out, held, sharedVars, modelVars, workerVars,
                   mainVars, historyVars>>

HandlerStep(h) ==
    \/ BadHttp(h)
    \/ Route(h)
    \/ Lock(h)
    \/ RejectBody(h)
    \/ AcceptBody(h)
    \/ EnterModel(h)
    \/ RunPrompt(h)
    \/ LeaveModel(h)
    \/ SampleToken(h)
    \/ ForwardToken(h)
    \/ Reply(h)
    \/ SubmitRequest(h)
    \/ SendHeaders(h)
    \/ PopEvent(h)
    \/ SendChunk(h)
    \/ ChunkFails(h)
    \/ SendLast(h)
    \/ AwaitResult(h)
    \/ Unlock(h)
    \/ CloseSocket(h)

-----------------------------------------------------------------------------
(* What the client and the runtime may do to a connection thread.          *)

\* The client goes away while its request is being served.  What it received
\* is forgotten: out is about clients that are there.
ClientGone(h) ==
    /\ hpc[h] \notin {"off", "done"}
    /\ conn[h]
    /\ conn' = [conn EXCEPT ![h] = FALSE]
    /\ out' = [out EXCEPT ![h] = << >>]
    /\ UNCHANGED <<hpc, req, held, sharedVars, modelVars, workerVars,
                   mainVars, historyVars, crashed>>

\* An exception leaves the thread's function and std::terminate ends the
\* process: a field of the body has the wrong type, the model throws on the
\* connection thread (or reads the logits an overlong prompt does not have),
\* or the text to send is not valid UTF-8 (json::dump).
\* Only a chat request that reached the worker has its model errors caught.
HandlerThrows(h) ==
    /\ hpc[h] \in {"body", "prefill", "sample", "step", "reply", "chunk"}
    /\ crashed' = TRUE
    /\ UNCHANGED <<handlerVars, sharedVars, modelVars, workerVars, mainVars,
                   historyVars>>

\* POSIX send() without MSG_NOSIGNAL raises SIGPIPE on a closed connection.
BrokenPipe(h) ==
    /\ hpc[h] \in {"reply", "error", "headers", "chunk", "last"}
    /\ ~conn[h]
    /\ crashed' = TRUE
    /\ UNCHANGED <<handlerVars, sharedVars, modelVars, workerVars, mainVars,
                   historyVars>>

=============================================================================
