---------------------------- MODULE ServerState -----------------------------
(***************************************************************************)
(* The state the threads of the inference server share, and the model's    *)
(* key/value cache that all of them exist to protect.                      *)
(*                                                                         *)
(* Threads: one per client connection (Handlers), the generation worker,   *)
(* and the main thread that runs run_server.  A connection thread handles  *)
(* one HTTP request and ends, so the request, its GenRequest and its       *)
(* channel are all named by the handler h.                                 *)
(***************************************************************************)
EXTENDS TokenChannel, RequestQueue

CONSTANTS
    Handlers,    \* connection threads (one client request each)
    NoThread,    \* the owner of a free mutex, the request of an idle worker
    MaxSeqLen,   \* config.max_seq_len, also the capacity of the KV cache
    Requests     \* the requests that clients send

ASSUME StateAssumption ==
    /\ NoThread \notin Handlers
    /\ MaxSeqLen \in Nat \ {0}
    /\ Requests # {}
    /\ Requests \subseteq [kind : {"light", "direct", "stream", "block"},
                           plen : Nat, limit : Nat, stops : BOOLEAN]

\* A request has a kind, the number of tokens of its prompt (after the cut to
\* max_ctx_size), its max_tokens, and whether it names stop sequences.
\* "light" is GET /v1/models, POST /v1/tokenize or an unknown path; "direct"
\* runs the model on the connection thread (/v1/completions, /v1/logprobs and
\* chat with logprobs); "stream" and "block" are chat completions served by
\* the worker.

VARIABLES
    mainpc,    \* the main thread, in run_server
    running,   \* Worker::running_
    queue,     \* the RequestQueue of run_server
    mutex,     \* model_mutex: its owner or NoThread
    hpc,       \* where each connection thread is
    req,       \* what its client asked for
    conn,      \* FALSE once the client has gone
    out,       \* what has been delivered to the client
    chan,      \* GenRequest::channel
    held,      \* the TokenEvent the handler has popped and not yet sent
    promise,   \* GenRequest::result
    cancel,    \* GenRequest::cancel
    wpc,       \* the worker thread, in Worker::run
    wreq,      \* the request the worker processes
    steps,     \* i of the generation loop that is running
    reason,    \* finish_reason of Worker::process
    kv,        \* the request that wrote each position of the KV cache
    seqLen,    \* kv_cache.seq_len
    crashed,   \* the process has been terminated
    emitted,   \* history: TOKEN events the worker has pushed for each request
    late       \* history: forward passes run for a request after its cancel

handlerVars == <<hpc, req, conn, out, held>>
sharedVars  == <<queue, mutex, chan, promise, cancel>>
modelVars   == <<kv, seqLen, steps>>
workerVars  == <<wpc, wreq, reason>>
mainVars    == <<mainpc, running>>
historyVars == <<emitted, late>>

vars == <<handlerVars, sharedVars, modelVars, workerVars, mainVars,
          historyVars, crashed>>

Positions == 0 .. MaxSeqLen - 1

-----------------------------------------------------------------------------
(* The KV cache, as every generation path uses it.                         *)

\* kv_cache.clear(): only the length is reset, old keys and values stay.
ClearKV == seqLen' = 0 /\ UNCHANGED kv

\* Mutant of PrefillKV: positions beyond the capacity are written too.
PrefillKVUnbounded(h) ==
    /\ kv' = [p \in Positions \cup 0 .. req[h].plen - 1 |->
                 IF p < req[h].plen THEN h ELSE kv[p]]
    /\ seqLen' = req[h].plen

\* forward_prefill (or forward_prefill_hidden) and the assignment of seq_len
\* that follows it: a prompt longer than the capacity writes nothing.
PrefillKV(h) ==
    /\ kv' = IF req[h].plen <= MaxSeqLen
             THEN [p \in Positions |-> IF p < req[h].plen THEN h ELSE kv[p]]
             ELSE kv
    /\ seqLen' = req[h].plen

\* forward(token, seq_len, false) writes position seq_len; then seq_len += 1.
ForwardKV(h) ==
    /\ kv' = [p \in Positions |-> IF p = seqLen THEN h ELSE kv[p]]
    /\ seqLen' = seqLen + 1

\* forward attends to positions 0 .. seq_len - 1: all of them are h's own.
OwnContext(h) ==
    /\ seqLen < MaxSeqLen
    /\ \A p \in Positions : p < seqLen => kv[p] = h

=============================================================================
