------------------------------- MODULE Program -------------------------------
(***************************************************************************)
(* The program as its user meets it (src/src/main.cpp): the command line,  *)
(* then one of --info, --export-gguf, --server and generation, and the     *)
(* exit code.                                                              *)
(*                                                                         *)
(* It composes GpuOffload (Model::load from the lookup in the cache on,    *)
(* and ~Model), GgufExport (the file that --export-gguf writes and that a  *)
(* later run reads), Scoring (the tokenizer, and the requests that score   *)
(* text) and Sampler.  The server's threads, its queue and its streams are *)
(* in InferenceServer, how a .tvcache comes about in ModelCache: here a    *)
(* request is one step, because the handlers below hold the model for all  *)
(* of it.                                                                  *)
(***************************************************************************)
EXTENDS GpuOffload, GgufExport, Scoring, Sampler

CONSTANTS
    Jobs,        \* what the user asks for: see JobType
    TokKeys,     \* tokenizer keys of the base GGUF
    Cuts,        \* lengths at which a failing disk may cut the exported file
    Requests,    \* what clients of the server send: see RequestType
    MaxTokens,   \* --max-tokens, max_tokens
    MaxSeq,      \* config.max_seq_len, the capacity of the KV cache
    Ids,         \* the tokens the model gives a probability, in order of id
    Eos,         \* eos_token_id
    LogitSets    \* what a forward pass may return

Words == {"--model", "--lora", "--prompt", "--export-gguf", "--info",
          "--server", "--no-gpu", "--help", "bad number", "unknown"}

\* The command line, the GGUF file it names ("bad" does not parse), the types
\* of its matrices, of its norms and its embedding, the weights of one of the
\* I2_S matrices, the adapters, the prompt.
JobType ==
    [argv : Seq(Words), file : {"good", "bad", "no tokenizer"},
     base : Bases, norm : Types, embd : Types, weights : Seq(-1 .. 1),
     loras : AdapterLists, text : Seq(STRING)]

RequestType ==
    [kind : {"echo", "logprobs", "completion"}, prompt : Seq(STRING),
     continuation : Seq(STRING), start : Nat]

ASSUME ProgramAssumption ==
    /\ TokKeys \in Nat
    /\ Cuts \subseteq Nat
    /\ MaxTokens \in Nat
    /\ MaxSeq \in Nat \ {0}
    /\ Jobs \subseteq JobType /\ Requests \subseteq RequestType
    /\ NormBytes \div 4 > 0    \* a norm has an element
    /\ Ids \in Seq(Vocab \cup Specials \cup {Bos})
    /\ Ids # << >> /\ Eos \in {Ids[i] : i \in DOMAIN Ids}
    /\ LogitSets \subseteq [DOMAIN Ids -> Int] /\ LogitSets # {}

VARIABLES
    mpc,      \* where main is
    job,      \* what the user asked for
    argv,     \* the arguments main has not looked at
    opts,     \* the options it has found
    code,     \* what main returns; -1 before
    request,  \* what the server is working on, or what --prompt asks
    ids,      \* prompt_tokens
    out,      \* generated_tokens
    seqLen,   \* kv_cache.seq_len
    pick,     \* history: the last call of sample_token
    answer    \* the tokens or the text of the last response

progVars == <<mpc, job, argv, opts, code, request, ids, out, seqLen, pick, answer>>
vars == <<progVars, offloadVars, exportVars>>

NoRequest == [kind |-> "none", prompt |-> << >>, continuation |-> << >>, start |-> 0]

\* sample_token has not been called, or on logits that are not there.
NoPick == [logits |-> << >>, seen |-> {}, sample |-> 0, lost |-> 0, token |-> 0]

Init ==
    /\ job \in Jobs
    /\ OffloadInit
    /\ types = job.base
    /\ adapters = job.loras
    /\ ExportInit
    /\ mpc = "args"
    /\ argv = job.argv
    /\ opts = {}
    /\ code = -1
    /\ request = NoRequest
    /\ ids = << >>
    /\ out = << >>
    /\ seqLen = 0
    /\ pick = NoPick
    /\ answer = << >>

generation == <<request, ids, out, seqLen, pick, answer>>

-----------------------------------------------------------------------------
(* The command line.                                                       *)

\* main returns; the model, if there is one, is destroyed.
Return(c) == code' = c /\ mpc' = "leaving"

ParseArg ==
    /\ mpc = "args"
    /\ argv # << >>
    /\ argv' = Tail(argv)
    /\ CASE Head(argv) = "--help" -> Return(0) /\ UNCHANGED opts
         [] Head(argv) \in {"bad number", "unknown"} -> Return(1) /\ UNCHANGED opts
         [] OTHER -> opts' = opts \cup {Head(argv)} /\ UNCHANGED <<mpc, code>>
    /\ UNCHANGED <<job, generation, offloadVars, exportVars>>

\* What is left to do, or why it cannot be done.
CheckArgs ==
    /\ mpc = "args"
    /\ argv = << >>
    /\ IF "--info" \in opts THEN mpc' = "info" /\ UNCHANGED code
       ELSE IF "--model" \notin opts \/ opts \cap {"--server", "--prompt", "--export-gguf"} = {}
       THEN Return(1)
       ELSE mpc' = "load" /\ UNCHANGED code
    /\ UNCHANGED <<job, argv, opts, generation, offloadVars, exportVars>>

\* --info: gguf_load and gguf_print_info.
PrintInfo ==
    /\ mpc = "info"
    /\ Return(IF job.file = "bad" THEN 1 ELSE 0)
    /\ UNCHANGED <<job, argv, opts, generation, offloadVars, exportVars>>

\* Model::load opens the base GGUF.
OpenBase ==
    /\ mpc = "load"
    /\ IF job.file = "bad" THEN Return(1) ELSE mpc' = "model" /\ UNCHANGED code
    /\ UNCHANGED <<job, argv, opts, generation, offloadVars, exportVars>>

\* The rest of Model::load, a step at a time.
LoadModel ==
    /\ mpc = "model"
    /\ \/ \E l \in AdapterLists \cup {<< >>} : CacheHit(l)
       \/ CacheMiss \/ FileMissing \/ MergeAdapter
       \/ "--no-gpu" \in opts /\ UseCpu
       \/ /\ "--no-gpu" \notin opts
          /\ \/ \E f \in FreeVram : NoVram(f) \/ PlanSplit(f)
             \/ OffloadRaw \/ EndRaw \/ OffloadInt8 \/ EndInt8
             \/ Finish \/ CudaThrows
    /\ UNCHANGED <<progVars, exportVars>>

\* No model, no tokenizer, or on to what was asked: the export before the
\* server, the server before a prompt.
ModelLoaded ==
    /\ mpc = "model"
    /\ ldpc \in {"ready", "failed"}
    /\ IF ldpc = "failed" \/ job.file = "no tokenizer" THEN Return(1)
       ELSE /\ mpc' = IF "--export-gguf" \in opts THEN "export"
                      ELSE IF "--server" \in opts THEN "server" ELSE "generate"
            /\ UNCHANGED code
    /\ UNCHANGED <<job, argv, opts, generation, offloadVars, exportVars>>

\* ~unique_ptr<Model>.
Leave ==
    /\ mpc = "leaving"
    /\ IF ldpc = "ready" THEN DestroyModel ELSE UNCHANGED offloadVars
    /\ mpc' = "exit"
    /\ UNCHANGED <<job, argv, opts, code, generation, exportVars>>

-----------------------------------------------------------------------------
(* --export-gguf.                                                          *)

TensorOf(type, elems) ==
    [f16 |-> type = "F16", elems |-> elems,
     bytes |-> IF elems = Elems THEN Bytes(type) ELSE NormBytes]

\* build_plan: the embedding, the norm after the last layer, and the layers;
\* "rest" stands for the five matrices of its type with one entry.
Plan ==
    LET norm == TensorOf(job.norm, NormBytes \div 4)
        layer(l) == <<norm, TensorOf(types[l]["wq"], Elems),
                      TensorOf(types[l]["wk"], Elems), TensorOf(types[l]["rest"], Elems)>>
    IN  <<TensorOf(job.embd, Elems), norm>>
            \o FlattenSeq([i \in 1 .. N |-> layer(i - 1)])

\* The weights must be F16, as far as the first matrix of the first layer
\* tells, and the file must open.
RefuseExport ==
    /\ mpc = "export"
    /\ xpc = "idle"
    /\ Return(1)
    /\ UNCHANGED <<job, argv, opts, generation, offloadVars, exportVars>>

StartExport ==
    /\ mpc = "export"
    /\ types[0]["wq"] = "F16"
    /\ BeginExport(Plan, TokKeys)
    /\ UNCHANGED <<progVars, offloadVars>>

WriteExport ==
    /\ mpc = "export"
    /\ WriteKeys \/ WriteTable \/ WriteData
    /\ UNCHANGED <<progVars, offloadVars>>

ExportCut ==
    /\ mpc = "export"
    /\ \E p \in {q \in Cuts : q <= pos} \cup {pos} : ExportThrows(p) \/ CloseExport(p)
    /\ UNCHANGED <<progVars, offloadVars>>

\* Mutant of ExportEnds: the exception is caught and forgotten.
ExportEndsQuietly ==
    /\ mpc = "export"
    /\ xpc \in {"closed", "broken"}
    /\ Return(0)
    /\ UNCHANGED <<job, argv, opts, generation, offloadVars, exportVars>>

\* The exception, if there was one, becomes exit code 1.
ExportEnds ==
    /\ mpc = "export"
    /\ xpc \in {"closed", "broken"}
    /\ Return(IF xpc = "closed" THEN 0 ELSE 1)
    /\ UNCHANGED <<job, argv, opts, generation, offloadVars, exportVars>>

\* Another run is given the file.
ReadExport ==
    /\ mpc = "exit"
    /\ ReaderStep
    /\ UNCHANGED <<progVars, offloadVars>>

-----------------------------------------------------------------------------
(* Generation: Model::generate and Model::generate_with_logprobs.          *)

EncodePrompt ==
    /\ mpc = "generate"
    /\ request' = [NoRequest EXCEPT !.kind = "prompt", !.prompt = job.text]
    /\ ids' = Encode(job.text)
    /\ mpc' = "prefill"
    /\ UNCHANGED <<job, argv, opts, code, out, seqLen, pick, answer, offloadVars, exportVars>>

\* The prompt pass; nobody looks at whether the cache can hold it.
RunPrompt ==
    /\ mpc = "prefill"
    /\ out' = << >>
    /\ seqLen' = Len(ids)
    /\ pick' = NoPick
    /\ mpc' = "sample"
    /\ UNCHANGED <<job, argv, opts, code, request, ids, answer, offloadVars, exportVars>>

\* The ids of the tokens in the prompt and in the output: all that is in the
\* vocabulary is penalised.
Seen == {i \in DOMAIN Ids : \E k \in DOMAIN (ids \o out) : (ids \o out)[k] = Ids[i]}

\* forward_prefill and forward_prefill_hidden refuse a prompt that is longer.
Fits == Len(ids) <= MaxSeq

\* Mutant of Emit: the loop goes on after the end of the sequence.
EmitPastEos(i) ==
    /\ out' = Append(out, Ids[i])
    /\ mpc' = IF seqLen >= MaxSeq THEN "respond" ELSE "forward"

\* The token is appended, and the loop ends or goes on.
Emit(i) ==
    /\ out' = Append(out, Ids[i])
    /\ mpc' = IF Ids[i] = Eos \/ seqLen >= MaxSeq THEN "respond" ELSE "forward"

\* sample_token on the logits of the last pass.
SampleNext ==
    /\ mpc = "sample"
    /\ Len(out) < MaxTokens
    /\ Fits
    /\ \E ls \in LogitSets :
           LET ws == Filtered(ls, Seen)
           IN  \E sample \in 0 .. Mass(ws, DOMAIN ws), lost \in 0 .. 1 :
                   LET i == SampleToken(ls, ws, sample, lost)
                   IN  /\ Emit(i)
                       /\ pick' = [logits |-> ls, seen |-> Seen, sample |-> sample,
                                   lost |-> lost, token |-> i]
    /\ UNCHANGED <<job, argv, opts, code, request, ids, seqLen, answer, offloadVars, exportVars>>

\* The prompt did not fit, and there is not one row of logits to sample from:
\* the read from a null pointer ends the process.
SampleWithoutLogits ==
    /\ mpc = "sample"
    /\ Len(out) < MaxTokens
    /\ ~Fits
    /\ mpc' = "crashed"
    /\ UNCHANGED <<job, argv, opts, code, generation, offloadVars, exportVars>>

\* max_new_tokens reached.
EnoughTokens ==
    /\ mpc = "sample"
    /\ Len(out) >= MaxTokens
    /\ mpc' = "respond"
    /\ UNCHANGED <<job, argv, opts, code, generation, offloadVars, exportVars>>

ForwardNext ==
    /\ mpc = "forward"
    /\ seqLen' = seqLen + 1
    /\ mpc' = "sample"
    /\ UNCHANGED <<job, argv, opts, code, request, ids, out, pick, answer, offloadVars, exportVars>>

\* The generated tokens are decoded; main returns, a handler goes back to its
\* connection.
Respond ==
    /\ mpc = "respond"
    /\ answer' = Decode(out, TRUE)
    /\ IF request.kind = "prompt" THEN Return(0) ELSE mpc' = "reply" /\ UNCHANGED code
    /\ UNCHANGED <<job, argv, opts, request, ids, out, seqLen, pick, offloadVars, exportVars>>

-----------------------------------------------------------------------------
(* The server's requests that need the model.                              *)

\* A handler scores tokens from ids' and answers, or ends the process when the
\* pass was refused and there is a token to score.
Score(scored, reply) ==
    /\ seqLen' = Len(ids')
    /\ IF ~Fits' /\ scored # << >>
       THEN mpc' = "crashed" /\ UNCHANGED answer
       ELSE mpc' = "reply" /\ answer' = reply
    /\ UNCHANGED <<job, argv, opts, code, out, pick, offloadVars, exportVars>>

\* handle_completions and handle_chat_completions: the prompt is cut to the
\* context, then generated from or, to echo it, scored.
Completion(r) ==
    /\ r.kind = "completion"
    /\ request' = r
    /\ ids' = Truncated(Encode(r.prompt))
    /\ mpc' = "prefill"
    /\ UNCHANGED <<job, argv, opts, code, out, seqLen, pick, answer, offloadVars, exportVars>>

Echo(r) ==
    /\ r.kind = "echo"
    /\ request' = r
    /\ ids' = Truncated(Encode(r.prompt))
    /\ Score(Scored(ids', r.start), EchoTokens(ids', r.start))

\* handle_logprobs: a text that is too long is refused.
Logprobs(r) ==
    /\ r.kind = "logprobs"
    /\ Len(Encode(r.prompt \o r.continuation)) <= MaxCtx
    /\ request' = r
    /\ ids' = Encode(r.prompt \o r.continuation)
    /\ Score(Scored(ids', 0), ContinuationTokens(r.prompt, r.continuation))

\* The handler has sent its response; the cache is left as it is.
Reply ==
    /\ mpc = "reply"
    /\ request' = NoRequest
    /\ ids' = << >>
    /\ out' = << >>
    /\ pick' = NoPick
    /\ answer' = << >>
    /\ mpc' = "listening"
    /\ UNCHANGED <<job, argv, opts, code, seqLen, offloadVars, exportVars>>

Serve ==
    /\ mpc = "listening"
    /\ \E r \in Requests : Completion(r) \/ Echo(r) \/ Logprobs(r)

-----------------------------------------------------------------------------
(* run_server up to its accept loop, which never ends.  The worker has     *)
(* been started and waits in wait_pop.                                     *)

ServerListens ==
    /\ mpc = "server"
    /\ mpc' = "listening"
    /\ UNCHANGED <<job, argv, opts, code, generation, offloadVars, exportVars>>

\* No sockets: the queue is shut down, the worker joined, and main returns 0.
NoSockets ==
    /\ mpc = "server"
    /\ Return(0)
    /\ UNCHANGED <<job, argv, opts, generation, offloadVars, exportVars>>

\* No socket, a bad address, a port that is taken: run_server returns and the
\* queue goes on, so ~Worker joins a thread that nothing wakes.
ServerHangs ==
    /\ mpc = "server"
    /\ mpc' = "hung"
    /\ UNCHANGED <<job, argv, opts, code, generation, offloadVars, exportVars>>

Next ==
    \/ ParseArg \/ CheckArgs \/ PrintInfo \/ OpenBase
    \/ LoadModel \/ ModelLoaded \/ Leave
    \/ RefuseExport \/ StartExport \/ WriteExport \/ ExportCut \/ ExportEnds
    \/ ReadExport
    \/ EncodePrompt \/ RunPrompt \/ SampleNext \/ SampleWithoutLogits \/ EnoughTokens \/ ForwardNext
    \/ Respond
    \/ ServerListens \/ NoSockets \/ ServerHangs \/ Serve \/ Reply

Spec == Init /\ [][Next]_vars

-----------------------------------------------------------------------------
(* Properties.                                                             *)

\* main returns 0 only when what the options ask for was carried through: a
\* file that parses; a model that loaded, with every adapter merged if it was
\* not taken from the cache; a response to the prompt; and all tensors handed
\* to the file, none of them refused.  Three things it does not say, since the
\* code does not do them: which adapters a cached model has (ServesItsFiles of
\* ModelCache), what fclose could not write (TakenForF16), and that a server which
\* finds no sockets reports it.
ExitZeroMeansDone ==
    (code = 0 /\ argv = << >> /\ "--help" \notin {job.argv[i] : i \in DOMAIN job.argv}) =>
        IF "--info" \in opts THEN job.file # "bad"
        ELSE /\ ldpc \in {"ready", "freed"}
             /\ ~cached => merged = UNION {job.loras[i] : i \in DOMAIN job.loras}
             /\ job.file = "good"
             /\ IF "--export-gguf" \in opts THEN Len(dataAt) = Len(Plan) /\ xpc # "broken"
                ELSE IF "--server" \in opts THEN request = NoRequest
                ELSE "--prompt" \in opts /\ request.kind = "prompt"

\* "Only offload layers whose weight matrices are F16", "All weight tensors: F16",
\* "Throws std::runtime_error on I/O failure": what is taken for F16 by the
\* kernels and by the readers of an exported file is F16.  Both look at wq of
\* layer 0, the kernels at wk as well, and at no other matrix; and an export that
\* ended with exit code 0 comes back, whatever its size.
TakenForF16 == OnlyF16Offloaded /\ (code = 0 => ExportedAsStored)

\* The cache is never asked for a position it does not have, and the end token
\* is the last one, for prompts of the command line and of clients alike.
GenerationStops ==
    mpc \in {"sample", "forward", "respond"} =>
        /\ Len(out) <= MaxTokens
        /\ mpc = "forward" => seqLen < MaxSeq
        /\ out # << >> => Len(ids) + Len(out) <= MaxSeq + 1
        /\ \A k \in DOMAIN out : out[k] = Eos => k = Len(out) /\ mpc # "forward"

\* The tokens that the two filters keep, one after the other and with a total
\* that the second does not take again, are the nucleus of the distribution,
\* and the token that is drawn is one of them, unless the random number was 0
\* or lies above the rounded sum of the probabilities.
DrawnFromNucleus ==
    pick # NoPick =>
        LET ws    == Softmax(Scaled(pick.logits, pick.seen))
            total == Mass(ws, Nucleus(ws))
            kept  == Filtered(pick.logits, pick.seen)
        IN  /\ {i \in DOMAIN kept : kept[i] > 0} = Nucleus(ws)
            /\ \/ pick.token \in Nucleus(ws)
               \/ pick.sample = 0
               \/ pick.sample > total - pick.lost

\* /v1/logprobs scores the continuation, token for token, when the tokenizer
\* ends a piece where the prompt ends: the lengths of two encodings and the
\* indices of a third sequence agree.
CleanContinuationScored ==
    (mpc = "reply" /\ request.kind = "logprobs"
        /\ CleanSplit(request.prompt, request.continuation)) =>
            SpellsContinuation(request.prompt, request.continuation)

\* "Arrays covering all prompt tokens", "Continuation tokens start at position
\* prompt_len in full_tokens": the entries of a response are about the tokens the
\* client takes them for, of the whole prompt or of the continuation, wherever
\* scoring starts and however the tokenizer cuts the text.
ScoredInPlace ==
    mpc = "reply" =>
        /\ request.kind = "echo" => answer = ids
        /\ request.kind = "logprobs" =>
               SpellsContinuation(request.prompt, request.continuation)

\* A merge reads the base it is given: every weight of an I2_S matrix has the
\* sign it was quantised with, whatever the length of its last block.
MergeReadsBase ==
    merged # {} =>
        LET n == Len(job.weights)
        IN  SignsComeBack([i \in 0 .. n - 1 |-> job.weights[i + 1]], n)

\* The texts that this state is about.
Texts == {job.text, request.prompt, request.prompt \o request.continuation}

\* Merging one pair at a time, the best one first, gives what the merge table
\* says, for every piece of every text.  This is said of a table in the order
\* of training only; the code asks for no order, and the Llama 3.1 table lists
\* pieces of blanks before their parts.
TableDecides == InOrder => \A t \in Texts : MergesByTheTable(t)

\* Splitting, merging and looking up lose and invent nothing: the tokens of a
\* text spell it, special tokens and pieces of any kind included.
TokensSpellText == \A t \in Texts : TextComesBack(t)

\* The split into pieces keeps words, numbers and the rest apart.
SplitKeepsWords == \A t \in Texts : WellSplit(t)

=============================================================================
