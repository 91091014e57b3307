------------------------------- MODULE Worker -------------------------------
(***************************************************************************)
(* The generation worker (class Worker, src/src/request.cpp): one thread   *)
(* that takes requests from the queue and drives the model for them.       *)
(*                                                                         *)
(* wpc is the next thing Worker::run does:                                 *)
(*   "loop"    test running_           "forward" run the model on the token*)
(*   "pop"     wait in wait_pop()      "flush"   flush the stop matcher    *)
(*   "begin"   enter process()         "finish"  finish()                  *)
(*   "prefill" run the prompt          "report"  report_error()            *)
(*   "decode"  top of the token loop   "close"   close the channel         *)
(*   "emit"    push the token          "exited"  run() has returned        *)
(*                                                                         *)
(* What StopMatcher::feed answers is a choice here (match, hold or emit):  *)
(* the model is about threads, not about text.                             *)
(***************************************************************************)
EXTENDS ServerState

WorkerPC == {"loop", "pop", "begin", "prefill", "decode", "emit", "forward",
             "flush", "finish", "report", "close", "exited"}

\* while (running_)
TestRunning ==
    /\ wpc = "loop"
    /\ wpc' = IF running THEN "pop" ELSE "exited"
    /\ UNCHANGED <<wreq, reason, handlerVars, sharedVars, modelVars, mainVars,
                   historyVars>>

\* queue_.wait_pop(); a null request ends the loop.
WaitPop ==
    /\ wpc = "pop"
    /\ MayTake(queue)
    /\ IF NoMoreWork(queue)
       THEN wpc' = "exited" /\ UNCHANGED <<wreq, queue>>
       ELSE /\ wpc' = "begin"
            /\ wreq' = Oldest(queue)
            /\ queue' = TakeOldest(queue)
    /\ UNCHANGED <<reason, handlerVars, mutex, chan, promise, cancel,
                   modelVars, mainVars, historyVars>>

\* Entry of process(): an empty prompt is answered at once, otherwise the
\* cache is cleared and the prompt is run.
BeginProcess ==
    /\ wpc = "begin"
    /\ IF req[wreq].plen = 0
       THEN wpc' = "finish" /\ reason' = "stop" /\ UNCHANGED <<kv, seqLen>>
       ELSE wpc' = "prefill" /\ reason' = "length" /\ ClearKV
    /\ steps' = 0
    /\ UNCHANGED <<wreq, handlerVars, sharedVars, mainVars, historyVars>>

Prefill ==
    /\ wpc = "prefill"
    /\ PrefillKV(wreq)
    /\ wpc' = "decode"
    /\ UNCHANGED <<wreq, reason, steps, handlerVars, sharedVars, mainVars,
                   historyVars>>

\* Where the token loop goes when it ends: only a stream flushes.
AfterLoop == IF req[wreq].kind = "stream" THEN "flush" ELSE "finish"

\* The loop ends with finish_reason "length": max_tokens reached, the client
\* has gone, or the sampled token does not fit in the context any more.
StopAtLimit ==
    /\ wpc = "decode"
    /\ \/ steps >= req[wreq].limit
       \/ cancel[wreq]
       \/ seqLen >= MaxSeqLen
    /\ wpc' = AfterLoop
    /\ UNCHANGED <<wreq, reason, handlerVars, sharedVars, modelVars, mainVars,
                   historyVars>>

\* Mutant of Sampling: the loop does not look at req.cancel.
SamplingUncancelled ==
    /\ wpc = "decode"
    /\ steps < req[wreq].limit

\* The loop body samples a token.
Sampling ==
    /\ wpc = "decode"
    /\ steps < req[wreq].limit
    /\ ~cancel[wreq]

\* A prompt that does not fit in the cache leaves an empty logits tensor, and
\* sample_token reads vocab_size floats through its null pointer: the process
\* may die of it (or sample from whatever it reads, as below).
SampleWithoutLogits ==
    /\ Sampling
    /\ req[wreq].plen > MaxSeqLen
    /\ crashed' = TRUE
    /\ UNCHANGED <<handlerVars, sharedVars, modelVars, workerVars, mainVars,
                   historyVars>>

\* The token is eot or eos, or completes a stop sequence of a stream.
StopAtToken ==
    /\ Sampling
    /\ wpc' = AfterLoop
    /\ reason' = "stop"
    /\ UNCHANGED <<wreq, handlerVars, sharedVars, modelVars, mainVars,
                   historyVars>>

\* Mutant of KeepToken: no test of seq_len against max_seq_len.
KeepTokenUnchecked ==
    /\ Sampling
    /\ wpc' \in (IF req[wreq].kind = "stream" THEN {"emit", "forward"}
                                              ELSE {"forward"})
    /\ UNCHANGED <<wreq, reason, handlerVars, sharedVars, modelVars, mainVars,
                   historyVars>>

\* The token is kept.  A stream emits the safe part of its text, if any.
KeepToken ==
    /\ Sampling
    /\ seqLen < MaxSeqLen
    /\ wpc' \in (IF req[wreq].kind = "stream" THEN {"emit", "forward"}
                                              ELSE {"forward"})
    /\ UNCHANGED <<wreq, reason, handlerVars, sharedVars, modelVars, mainVars,
                   historyVars>>

\* Mutant of PushToken: a full channel drops the token instead of blocking.
PushTokenDropping(next) ==
    /\ chan' = IF MayPush(chan[wreq])
               THEN [chan EXCEPT ![wreq] = Push(@, Token(emitted[wreq] + 1))]
               ELSE chan
    /\ emitted' = [emitted EXCEPT ![wreq] = @ + 1]
    /\ wpc' = next
    /\ UNCHANGED <<wreq, reason, handlerVars, queue, mutex, promise, cancel,
                   modelVars, mainVars, late>>

\* emit_token: blocks while the channel is full.
PushToken(next) ==
    /\ MayPush(chan[wreq])
    /\ chan' = [chan EXCEPT ![wreq] = Push(@, Token(emitted[wreq] + 1))]
    /\ emitted' = [emitted EXCEPT ![wreq] = @ + 1]
    /\ wpc' = next
    /\ UNCHANGED <<wreq, reason, handlerVars, queue, mutex, promise, cancel,
                   modelVars, mainVars, late>>

EmitToken == wpc = "emit" /\ PushToken("forward")

Forward ==
    /\ wpc = "forward"
    /\ ForwardKV(wreq)
    /\ steps' = steps + 1
    /\ wpc' = "decode"
    /\ late' = [late EXCEPT ![wreq] = IF cancel[wreq] THEN @ + 1 ELSE @]
    /\ UNCHANGED <<wreq, reason, handlerVars, sharedVars, mainVars, emitted>>

\* sm.flush_buffer(): empty unless the request has stop sequences.
FlushNothing ==
    /\ wpc = "flush"
    /\ wpc' = "finish"
    /\ UNCHANGED <<wreq, reason, handlerVars, sharedVars, modelVars, mainVars,
                   historyVars>>

FlushTail == wpc = "flush" /\ req[wreq].stops /\ PushToken("finish")

\* The answer of a request: a last event and then close() on a stream, the
\* promise otherwise.
Answer(ev, value) ==
    /\ IF req[wreq].kind = "stream"
       THEN /\ MayPush(chan[wreq])
            /\ chan' = [chan EXCEPT ![wreq] = Push(@, ev)]
            /\ wpc' = "close"
            /\ UNCHANGED <<promise, wreq>>
       ELSE /\ promise' = [promise EXCEPT ![wreq] = value]
            /\ wpc' = "loop"
            /\ wreq' = NoThread
            /\ UNCHANGED chan
    /\ UNCHANGED <<reason, handlerVars, queue, mutex, cancel, modelVars,
                   mainVars, historyVars>>

\* Mutants of FinishRequest: the stream is closed without a FINISH event; the
\* stop matcher is flushed after the FINISH event.
FinishWithoutEvent ==
    /\ wpc = "finish"
    /\ IF req[wreq].kind = "stream"
       THEN /\ wpc' = "close"
            /\ UNCHANGED <<chan, promise, wreq>>
       ELSE /\ promise' = [promise EXCEPT ![wreq] = "value"]
            /\ wpc' = "loop"
            /\ wreq' = NoThread
            /\ UNCHANGED chan
    /\ UNCHANGED <<reason, handlerVars, queue, mutex, cancel, modelVars,
                   mainVars, historyVars>>

FinishThenFlush ==
    /\ wpc = "finish"
    /\ MayPush(chan[wreq])
    /\ chan' = [chan EXCEPT ![wreq] = Push(@, Finish(reason))]
    /\ wpc' = "flush"
    /\ UNCHANGED <<wreq, reason, handlerVars, queue, mutex, promise, cancel,
                   modelVars, mainVars, historyVars>>

FinishRequest == wpc = "finish" /\ Answer(Finish(reason), "value")

ReportError == wpc = "report" /\ Answer(Err, "exception")

\* Mutant of ProcessThrows: run() swallows the exception.
ProcessThrowsSilently ==
    /\ wpc \in {"prefill", "decode", "forward"}
    /\ wpc' = "loop"
    /\ wreq' = NoThread
    /\ UNCHANGED <<reason, handlerVars, sharedVars, modelVars, mainVars,
                   historyVars>>

\* std::exception out of process(): the prompt pass, sampling, decoding and
\* the forward pass may throw.
ProcessThrows ==
    /\ wpc \in {"prefill", "decode", "forward"}
    /\ wpc' = "report"
    /\ UNCHANGED <<wreq, reason, handlerVars, sharedVars, modelVars, mainVars,
                   historyVars>>

CloseChannel ==
    /\ wpc = "close"
    /\ chan' = [chan EXCEPT ![wreq] = Close(@)]
    /\ wpc' = "loop"
    /\ wreq' = NoThread
    /\ UNCHANGED <<reason, handlerVars, queue, mutex, promise, cancel,
                   modelVars, mainVars, historyVars>>

WorkerStep ==
    \/ TestRunning
    \/ WaitPop
    \/ BeginProcess
    \/ Prefill
    \/ StopAtLimit
    \/ StopAtToken
    \/ KeepToken
    \/ EmitToken
    \/ Forward
    \/ FlushNothing
    \/ FlushTail
    \/ FinishRequest
    \/ ReportError
    \/ ProcessThrows
    \/ CloseChannel

=============================================================================
