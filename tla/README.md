# A TLA+ verification project for Ternative

Ternative is a C++ inference engine for ternary (BitNet) language models: it
loads a GGUF file, merges LoRA adapters into it, keeps the merged weights in a
cache file, generates text on the CPU or a CUDA device, and serves an
OpenAI-style HTTP API. This directory models its core logic in TLA+, checks the
models with TLC and proves the main results with TLAPS. Paths below are
relative to the repository: `src/server.cpp` is written `src/src/server.cpp` in
`PROJECT.json`.

## 1. The system

| part | where | state | operations |
|---|---|---|---|
| main thread | `src/server.cpp` `run_server` | listening socket, the queue, the worker, `model_mutex` (locals of `run_server`) | start the worker, listen, accept for ever; or return early when start-up fails |
| connection threads | `src/server.cpp` | one HTTP request, one socket | parse, route, lock `model_mutex`, validate, run the model or submit to the worker, send |
| request queue | `src/request.cpp` `RequestQueue` | a deque, `stopped_` | `submit`, `wait_pop`, `shutdown` |
| worker | `src/request.cpp` `Worker` | `running_`, the request in process | `run`, `process`, `emit_token`, `finish`, `report_error`, `stop` |
| token channel | `src/stream.cpp` `TokenChannel` | bounded deque of events, `closed_` | `push`, `pop`, `close` |
| stop matcher | `src/request.cpp` `StopMatcher` | the patterns, `buf_` | `feed`, `flush_buffer` |
| model | `src/model.cpp` | weights, the KV cache, the GPU buffers | `load`, `forward_prefill`, `forward`, `forward_gpu`, `generate`, scoring |
| merged-weight cache | `src/cache.cpp` | `.tvcache` files, `.tmp` files | `compute_key`, `cache_path`, `try_load`, `save` |
| GPU backend | `cuda/ops_cuda.cu`, `src/model.cpp` | device copies of the leading layers, a second KV cache of 1024 positions | offload plan, upload, decode, release |
| tensors | `src/tensor.cpp`, `src/ops_cpu.cpp` | none | the packed I2_S format, conversions, kernels |
| GGUF files | `src/gguf.cpp`, `src/gguf_write.cpp` | a file | write the merged model, read a model |
| tokenizer | `src/tokenizer.cpp` | vocabulary, merge table, special tokens | split, merge, `encode`, `decode` |
| sampler | `src/sampler.cpp` | a random number generator | `sample_token` |
| log-probabilities | `src/model.cpp` `score_logprobs`, `src/server.cpp` | none | which token each entry of an answer is about |
| command line | `src/main.cpp` | the options | parse arguments, then one of four modes, exit code |

How they interact: a connection thread locks `model_mutex` for the whole of an
inference request. `/v1/completions`, `/v1/logprobs` and chat with logprobs run
the model on that thread. Other chat requests are put in the queue for the
worker thread, which runs the model *without any lock*; the connection thread
meanwhile pops token events from the channel and writes them to the socket
(stream), or waits on a `std::promise` (block). A failing send sets
`GenRequest::cancel`, which the worker reads at the head of its token loop.

What is hard to test here:

- the hand-over of the right to use the model from the thread that holds the
  mutex to a worker that does not, and back with the answer;
- a worker blocked on the bounded channel of a client that has gone;
- the KV cache is never erased: `clear()` resets a length, so each request must
  overwrite what it will attend to; two copies of it (CPU, GPU) must agree;
- stop sequences cut up over several tokens;
- several processes, crashes and full disks around one cache file;
- sizes at their limits: `max_seq_len`, the GPU cache's 1024 positions, the
  memory budget of the offload plan;
- decisions taken for the whole model by looking at one matrix (what the
  weights are made of), although adapters change matrices one by one;
- places in a file that writer and reader compute each on its own, in a file
  that may have been cut short;
- failures that have to find their way to the exit code.

`PROJECT.json` lists each hazard at its line with the properties that cover it.

## 2. The modules

**The server.** `TokenChannel` and `RequestQueue` model the two monitors as
values: each method is an operator on the monitor's value, with its wait
condition as an operator of its own (`MayPush`, `MayPop`, `MayTake`); a method
runs under the monitor's own lock, so one method is one step. `ServerState`
declares the shared variables and the KV cache as a function from positions to
the request that wrote them. `Worker` models `Worker::run` and `process` step
by step (`wpc` is the program counter, one action per statement that can
interleave), `Connection` the thread of a connection from `accept` to
`close_socket` (`hpc`), `InferenceServer` composes them with the main thread
and states the properties. A request is a record: its kind (`light` takes no
lock, `direct` runs the model on the connection thread, `stream` and `block`
go through the worker), the length of its prompt after the cut to
`max_ctx_size`, its `max_tokens`, whether it has stop sequences. Tokens are
numbered, texts are left out; what `StopMatcher::feed` answers is a choice.
`emitted` and `late` are history variables that only the properties read.

`SerialService` is the abstract specification of the server: a model that works
for one owner at a time, a client that enters, asks, is given fragments and one
answer, and leaves only when it is owed nothing. `InferenceServer` maps the
owner to `model_mutex`, the fragments made to `emitted`, the fragments taken to
those that have left the channel and the handler's hands, and a client's stage
to whether its request is queued, served or answered (`Service == INSTANCE
SerialService WITH ...`). Everything else (the worker's place in its loop, the
channel, the promise, sockets, the KV cache) is hidden. `IsSerialService` says
that every step of the threads is a step of that service or none of it.

An empty prompt is included although the tokenizer adds a BOS token: the cut to
`max_ctx_size` makes it possible when that is configured as 0. A prompt that is
longer than the KV cache is possible whenever `max_ctx_size` exceeds the
model's context; its prompt pass returns logits without a row, and the model
then either goes on with an arbitrary token or dies (`SampleWithoutLogits`), as
the undefined read may. An exception may leave the prompt pass, sampling and the
forward pass (`ProcessThrows`; on a connection thread it ends the process,
`HandlerThrows`). A prompt pass that throws in the middle leaves some positions
written while `seq_len` is still 0; since nothing attends to them the model
does not write them.

**The stop matcher.** `StopMatcher` models `feed`, `flush_buffer` and the loop
of `Worker::process` around them for one request. The generated text is a
sequence of characters; what the client is given is recorded as *positions* of
that text, so that a loss or a repetition can be told from coincidence. The
buffer is a prefix of the text and is represented by its length.

**The merged-weight cache.** `ModelCache` models several processes that run
`Model::load` at once or one after the other over one cache directory. File
names refer to inodes as on POSIX, so a reader keeps the file it opened when
the name is removed or given to another file, and a write beyond the end of a
truncated file leaves zeros (`Hole`). A tensor is represented by the list of
file contents that were merged into it, which is all that tells right weights
from wrong ones. Each file operation of `try_load` and `save` is one action, a
process may be killed between any two, and each write may be the first to find
the disk full. `wanted` is a history variable: the contents of the process'
files when it hashed them; `overlap` is another: two processes have been in
`save` at the same time, which some properties and theorems except. `ReplaceFile` gives a file of `Changing` another content, and takes a
LoRA file away (`Absent`: it cannot be opened) or puts it back. A LoRA file that
cannot be opened leaves its part of the key empty, and `KeyOf` is then the key of
the base model alone, as in `compute_key` and `cache_path`; the load fails only
if it comes to read the file (`LoraMissing`). `ReplaceFile` is possible only while
nobody loads: a file that is replaced during a load is hashed before and merged
after, and would be cached under the wrong hash. An empty path after `--lora`
also gives the key without LoRA; it is not modelled.

**The two key/value caches.** `GpuDecode` models one generation after another
on a model whose first `nGpu` layers are on the GPU. A slot of a cache is
represented by the request and the position whose key it holds; `seen` records
what each layer of the last forward pass attended to. A pass is one action,
since nothing runs beside it, and an exception may end it after any layer.
`Init` is what `init_gpu_backend` leaves, the CPU backend after an exception
included, which keeps `n_gpu_layers`. Prompts fit the CPU cache here; the
others are in `Worker` and `Connection`.

**The program.** `Program` models `main` (`mpc` is where it is): the arguments
one by one, the modes in their order, each return with its exit code, and
`~Model`. Its steps are those of four modules.

`GpuOffload` is the part of `Model::load` that decides what is on the device,
from the lookup in the cache on. `CacheHit` takes a model that some load with the
same first adapter has merged, or that of the base alone when there is no adapter
or the first one cannot be opened (what the files hold is the subject of
`ModelCache`); no adapter is opened after it. After `CacheMiss` each adapter is
merged, or ends the load (`FileMissing`), as does a base file that was given up
for the lookup and cannot be read again. `MergeAdapter` is `apply_lora` seen as a change of matrix types, `PlanSplit`
computes `max_f16_layers` with the code's unsigned arithmetic, `OffloadRaw` and
`OffloadInt8` are one iteration each of the two loops with their break
conditions as `EndRaw` and `EndInt8`, `CudaThrows` is the catch block, reached
from any CUDA call, with whatever was uploaded left behind, and `DestroyModel`
is the destructor. A layer is a function from three names of matrices to types
(`wq` and `wk`, because the code looks at them to judge the whole model, and
`rest` for the five others). `held` is what a matrix' `gpu_ptr` points to,
`onGpu` the device memory by owner, `merged` and `cached` are history variables.

`GgufExport` is `gguf_write_f16` and then `gguf_load` of the same file. The
bytes of records and tensors are left out but their lengths and places are not,
since both sides compute where the data begin and no field of the file says so.
`ExportThrows` and `CloseExport` cut the file (a failed `fwrite`; an `fclose`
whose result is not looked at), and the reader goes on as the code does: a short
file ends its loops quietly, the bounds check of a table entry asks for four
bytes less than it reads, a tensor without an entry or with data beyond the end
is empty. What `LoadTensors` makes of a tensor is "same", "retyped" (its bytes
under the type the table says), "empty", or "foreign" (other bytes of the file).

`BytePair` is the tokenizer: the hand-written split with its tests in the order
of the code, the merge loop, the fallback to bytes, the scan for special tokens
and `decode`. Texts and tokens are sequences of bytes; the GPT-2 byte alphabet
is a bijection and left out. The code's two loops over a text (the split and
the scan of `encode`) are recursive functions of the position, its merge loop one
of the round, and the tests of the split are a chain of IFs, since their order
matters. `Scoring` adds what is scored: an entry of
`score_logprobs` is represented by the token it is about, which is what its
consumers may get wrong. `Sampler` is `sample_token` with whole numbers in place
of floating point; that the cumulative sum may fall short of its total is a
choice (`lost`). `Ternary` is the I2_S format: how many bytes, which bits of
which byte hold which weight, with a short last block.

A request of the server is one step here (`Completion` a few), since its handler
has the model to itself: what the threads do is in `InferenceServer`. Of the
start there are three outcomes, as in `run_server`: it listens
(`ServerListens`); it has no sockets, shuts the queue down and `main` returns 0
(`NoSockets`); or it returns without shutting the queue down (no socket, a bad
address, a port that is taken), and the destructor of the worker joins a thread
that waits in `wait_pop` for ever (`ServerHangs`).

## 3. The runs

| run | what it asks | bounds |
|---|---|---|
| `server_safety` | who uses the model, whose keys and values are attended to, whether streams are complete and in order, whether a cancelled request costs more work, whether all of it is one serial service | two connections, eight kinds of request, channel of capacity 1, `MaxSeqLen` 3, at most two tokens: about 590 000 states under the symmetry of the connections |
| `server_liveness` | every request ends, the worker always comes back, `run_server` returns once its queue is shut down | two connections, three kinds of request, one token, capacity 1, no symmetry |
| `stop_matcher` | no stop sequence leaks or is missed, nothing held back is lost by a stream | two characters, texts of up to 7, tokens of up to 3, seven lists of patterns |
| `stop_text` (violation) | `flush_buffer` returns the text that was held back | the same |
| `cache` | a load gives the weights its own files give, whoever wrote the cache file and whatever became of the writer; a published file is one merge and frozen; with several savers at once only zeros can get in | three processes, two tensors, one LoRA file or none, which has two contents and may be absent: about 1 400 000 states under symmetry |
| `cache_savers` (violation) | the temporary file and the rename prevent partial files | three processes with the same arguments |
| `cache_lora` (violation) | the name of a cache file stands for all the files of a load | two processes with no, one or two LoRA files |
| `program` | what is on the device and how it is read, what an export gives back, what the exit code means, what is sampled, scored and tokenized | see below: 202 jobs, about 113 000 states |
| `taken_for_f16` (violation) | only F16 matrices are offloaded, and an exported file gives back what was put there | the same, with positions up to 1100 in a `long` |
| `scored_in_place` (violation) | the entries of a scored response are about the tokens of the prompt or of the continuation | the same as `program` |
| `gpu_decode` | what a token attends to, with any split of the layers | two layers, CPU cache of 5, GPU cache of 3, two requests |
| `gpu_fallback` (violation) | a token attends to tokens of its own sequence | the same |

Two connections suffice for the hand-over: a hazard needs one thread with the
mutex, the worker, and one competitor. A channel of capacity 1 makes the worker
block on every second event, where the code's default of 128 would take 129
tokens; nothing depends on the number beyond full and empty. `MaxSeqLen` 3
with prompts of 0, 1, 2 and 4 and two tokens meets every relation of prompt,
tokens and context: fits, is exhausted while decoding, does not fit at all.
Texts of seven characters hold the longest pattern (five) with an overlap.

What they show: the worker's lock-free use of the model is safe because of the
hand-over, and only because of it; a stream is delivered once, in order and
with its finish reason, whatever the interleaving; a client that leaves never
leaves the worker blocked. `stop_text` shows a disagreement between the header
and the code: `buf_` is never relieved of the text that `feed` let through, so
the flush after the loop delivers the text of a stream a second time, while a
block request without a match is never flushed and loses the characters that
were held back at its end. Without stop sequences neither happens.

Two things that `server_safety` does not forbid, because the code does them: a
block request whose generation threw is answered with an empty 200, and an
exception out of a handler ends the process with every other request in it.
`NoStopLeaks`, `NoStopMissed` and `HeldTextComesOut` speak of what `feed` lets
through and of the end of the loop; the repetition by the flush is `stop_text`'s,
and an empty stop sequence, which ends every answer at once, is taken as it is.

For the cache two writers and a reader meet every hazard of the temporary file,
two tensors let a file end between them, and two contents tell a stale name from
a fresh one. `cache` changes the LoRA file only, which keeps it within minutes; a
base file that changes is in `cache_lora`, and in the theorems. As long as no two
processes have saved at the same time the protocol is sound although it removes
the old file before the rename and checks no write: a crash or a full disk costs
a reload, never wrong weights (`ServesItsFilesAlone`, `PublishedFromOneMerge`,
`PublishedIsFrozen`). Two savers share one temporary name, and the rename of the
first publishes the file the second has just truncated (`cache_savers`): a third
process then loads zeros, though never another model's weights
(`OwnWeightsOrZeros`, which `cache` checks whoever saves when). These properties
speak of processes that could read their files when they hashed them, with one
LoRA file at most. `cache_lora` is about the others: when the base model has been
cached without LoRA, a process whose LoRA file cannot be opened takes that cache
file, and serves without the adapter what it would have refused to load without
the cache. The property of that run, `ServesItsFiles`, also fails when a second
LoRA file changes, of which the name says nothing.

Two layers give every split, capacities 5 and 3 let prompts fit, fill or exceed
the GPU cache and generations cross its end by two positions, and a second
request meets what the first left behind. `gpu_decode` confines the damage of
the fall-back to the CPU: offloaded layers, positions decoded on the GPU, and
only after the GPU cache is full. `gpu_fallback` shows that damage: the CPU
cache has never had those positions. A token decoded on
the GPU also attends to itself, unlike one decoded on the CPU, and against the
comment of `forward` (model.h:147-148); `GpuDecode` has both ways as they are,
and no property prefers one.

`program` takes three layers, so that a split has layers on either side and
one beyond the budget; four base models (all packed, all F16, all F32, F16 with
F32 matrices in later layers); six lists of adapters that cover the model, a
part of each layer, one layer, or the model in two goes; seven memory sizes
around the places where the plan changes (less than the reserve, one layer,
exactly the model in INT8, with one layer of it in F16: a byte too little,
exactly enough, some to spare; all of it in F16). Exports are cut at eleven lengths, in the header, the keys,
the table and the data. Patterns of up to 17 weights meet a short block at every
length, where a block has eight. The tokenizer has nine bytes, seven merges (one
without a token of its own), three special tokens of which two share a
beginning; texts are all of one byte, all pairs of the five most telling ones
and nine longer ones, split into prompt and continuation at each place that
these allow. `MaxCtx` 8 is larger than `MaxSeq` 7, as `max_ctx_size` may be
larger than the model's context, so that prompts fit, just fit and do not fit.
Logits have ties, a largest one that underflows all others, and negative values.

What it shows:

- the plan does what its comments say ("all layers fit if at all possible",
  "maximize F16 count") for models whose matrices are all F16, and never
  overspends for any (`ReserveKept`, `AllFitIfPossible`, `NoRoomForF16`);
- a model whose matrices are all F16, in the file or because adapters cover
  them, is read on the device as what it is (`F16ReadAsStored`). Nothing makes
  this a condition: an adapter that covers a part of a packed model, its first
  `wq` and `wk` included, or a file with other types further on, leaves matrices
  that are multiplied as F16 without being F16, or skipped by the INT8 pass,
  against the comment above the loops (`OnlyF16Offloaded`, one half of what
  `taken_for_f16` refutes);
- after a CUDA failure the memory that was taken is never given back, and only
  then (`AllReleased` excepts the CPU backend that takes over);
- an export gives back every F16 tensor as long as `ftell` can follow
  (`ExportReloads`), and a cut file loses tensors without a word but never takes
  other bytes for one (`CutNotMisread`; that the reader looks four bytes beyond
  its buffer when a table entry is cut is outside the model). What the header
  announces is more, and is the other half of `taken_for_f16`: the norms, which
  are F32 and are declared F16, and matrices that are still packed come back
  retyped or not at all; beyond 2 GiB, where a `long` has 32 bits, F16 tensors
  are not found either; and a cut at the last `fclose` is not reported. Each of
  these, and each half, refutes the property by itself; TLC stops at the first,
  a misread adapter;
- exit code 0 means that what was asked for was carried through
  (`ExitZeroMeansDone`), with three reservations that the property names: which
  adapters a cached model has (`cache_lora`), what `fclose` could not write
  (`taken_for_f16`), and that a server without sockets returns 0;
- generation ends at the end token, the limit or the context, and the only way
  past the cache is a prompt that never fitted (`GenerationStops`;
  `SampleWithoutLogits` is where the process then ends, as a step like any
  other);
- the filters keep the nucleus, and the edges of the draw (a random number of
  exactly 0, sums that were rounded) are the only way out of it
  (`DrawnFromNucleus`);
- `/v1/logprobs` scores the continuation if the tokenizer ends a piece where the
  prompt ends (`CleanContinuationScored`), and something else if it does not; and
  an echo with `start_pos` above 1 does not cover the prompt, its entries standing
  in the wrong places (`scored_in_place`, for the one as for the other);
- the tokens of a text spell it and respect its words (`TokensSpellText`,
  `SplitKeepsWords`), and for a merge table in the order of training the merge
  loop computes what the table says, each merge in turn (`TableDecides`). The
  code does not ask for that order, and the table of Llama 3.1 is not in it: it
  lists a blank followed by three blanks before the three blanks themselves.
  For such a table the property says nothing.

### Fairness

Only `FairSpec` of `InferenceServer` states fairness: weak fairness of the main
thread, of the worker and of each connection thread. That is what a fair
scheduler gives, plus two assumptions about the environment that the code makes
without checking: the model calls return, and a client sends its request and
reads its answer or goes away (there is no socket timeout; a client that stops
reading without closing stalls its connection thread, which holds
`model_mutex`, and so every other request). Weak fairness is enough for the
mutex because a connection thread locks it once and there are finitely many of
them; with an endless supply of connections `std::mutex` promises nothing.
Accepting connections, clients leaving, exceptions and crashes are not forced.

`CHECK_DEADLOCK FALSE` is set in every configuration because the modelled
systems really stop: a crashed process, a server that returned after a failed
start, connections that have all been served, a text that has ended.

## 4. The proofs

Each theorem holds for every value of the constants that the module's
assumptions allow; hypotheses beyond those are named in the theorem. The
pattern is the same throughout: `Init => Inv`, one lemma per action (or per kind
of action) for `Inv /\ [Next]_vars => Inv'`, and `Inv` implies the property.

### The server

`InferenceServerProofs` proves, for every set of connections, every set of
requests, every channel capacity and every context length allowed by the
assumptions `ChannelAssumption` and `StateAssumption`:

- `Inductive`: `Spec => []IInv`, the inductive invariant;
- `TypeCorrect`, `HandOverHolds`, `ModelExclusionHolds`, `OwnKVHolds`: the
  invariants of the same names that `server_safety` checks;
- `AnswerIsFinalHolds`: an action property, from the same invariant;
- `CancelBoundsWorkHolds`: from a second invariant, `LateInv`.

Why a strengthening is needed: `ModelExclusion` says nothing about who holds
the mutex, so it does not survive a step by itself. `IInv` adds that a thread
inside its lock's scope owns the mutex (`ScopeInv`), that only stream and block
requests wait on the worker (`KindInv`, `HeldInv`), that the queue holds at
most the request of the mutex' owner (`QueueInv`), that a request that is queued
or served is unanswered (`NoAnswerYet`), that a request whose channel is still
to be closed is not the queued one (`CloseInv`, the late `close()`), and what
the cache holds at each point (`ModelInv`). With these, submitting needs an
unanswered request of the mutex' owner, so the worker serves the owner
(`HandOver`); an answer can only be seen after it was given, so the mutex is
released only when the worker is past the model (`ModelExclusion`); and the
thread in the model is the last to have cleared the cache, so the positions
below `seqLen` are its own (`OwnKV`).

`InferenceServerStreamProofs` adds `StreamInv` to `IInv` and proves
`StreamInductive` (`Spec => []StreamInv`, a step keeps both) and from it
`NoFragmentLostHolds` and `ResponseCompleteHolds`. Neither property is
inductive. That a fragment comes in its turn depends on where it stood in the
channel, so `ChannelInv` numbers the events in the channel: the first is the one
after those the client has taken, and nothing follows a terminal event.
`PlaceInv` ties the state of the channel to the place of the connection thread
(nothing is in it before the request is submitted; the loop over `pop()` ends
with a terminal event, for a channel is closed only after its last event is
in). `OutInv` describes all that a client that stays has received: the head of
the stream and the fragments in order, then their end; or one reply. `StreamOnly` says that the worker is at its channel for
streams only. `NoFragmentLost` then joins what was delivered, what is between
the channel and the socket, and what is still queued (`NumberedConcat`).

The end of the same module proves `ServerImplementsService`,
`Spec => IsSerialService`: under the mapping of `InferenceServer!Service` each
step is the step of `SerialService` named here, or leaves the mapped state
alone:

| the server | the service |
|---|---|
| `Lock` | `Enter` |
| `SubmitRequest` | `Ask` |
| `EmitToken`, `FlushTail` | `Make` |
| `FinishRequest`, `ReportError` | `GiveAnswer` |
| `PopEvent`, for a token | `Take` |
| `Unlock` | `Leave` |

The guards of the abstract steps are what the two invariants give: only a client
that has asked is worked for (`ServedIsAsked`, from `HandOver`), a client leaves
only with its answer (`UnlockLeaves`), and what it takes was made for it, in that
order (`TakenMap` is `emitted` less what is pending).

### The stop matcher

`StopMatcherProofs` proves `StopInductive` (`Spec => []StopInv`) for any
characters, any tokens, any lists of stop sequences and any bound on the text
(`StopAssumption` is the types of these), and from it `StopTypeCorrect`,
`NoStopLeaksHolds`, `NoStopMissedHolds` and `HeldTextComesOutHolds`. It rests on
two facts about `safe_len`, stated about texts and not about states: the number
of safe characters never shrinks when text is added (`SafeMonotone`), and a stop
sequence that the added text completes begins after the characters that were
safe before (`MatchBeginsAfterSafe`, from `StraddlingIsPending`: a sequence that
reaches across the boundary had a prefix of it as the text's suffix, which is
what is held back). `StopInv` says that what was sent is safe (`SafeSent`), that
the buffer is the whole text while tokens are fed (`BufferIsText`: `buf_` is
never relieved of what was let through), that without stop sequences all text
was sent (`AllSent`), and how long the buffer is when a match ends the loop
(`BufferAtStop`). That the repeated tail described in section 3 exists does not
contradict these properties; `stop_text` shows it.

### The cache of merged weights

`ModelCacheProofs` is about any number of processes, tensors and lists of LoRA
files, in three steps with hypotheses that become stronger as the conclusions
do:

- `TypeInductive`, `CacheTypeCorrect`: no hypothesis.
- `CacheInductive` (`CacheInv`) and `PublishedIsFrozenHolds`: as long as no two
  processes have saved at the same time (`~overlap`).
  A write goes to the inode the writer has opened, so one has to know that this
  inode has no cache name: the writer's inode is the one under the temporary
  name of its key (`WriterHasTmp`), an inode has one name (`NamesApart`), a
  renamed file loses its writer because nobody else saves (`SaverIsAlone`), and
  a process that creates a file has not created one before
  (`NothingCreatedYet`).
- `OriginInductive` (`OriginInv`) and `OwnWeightsOrZerosHolds`: under `OneLora`
  (a process is given one LoRA file at most), however many processes save at
  the same time. The key then tells everything a process that could read its
  files wants to load (`OwnInv`; the key of any other process is that of the base
  alone, and what it then loads is the base model, which these properties leave
  to `cache_lora`), a file has parts of the model of its creator's key only, perhaps
  with holes (`FilesInv`), and so have the tensors read from it (`GotInv`).
- `CacheContentInductive` (`AllInv`), `PublishedFromOneMergeHolds` and
  `ServesItsFilesAloneHolds`: under both. `SavedInv` adds that a published file is a
  beginning of the model of its key without holes, and that a writer's file is
  what it has written so far; `ReadInv` that what was read is a beginning too.

The conditions are not conveniences: with two savers the run `cache_savers` finds
zeros in a served model, with a LoRA file that cannot be opened `cache_lora` finds
the base model's weights, and with two LoRA files a change of the second one goes
unnoticed (the same property, `ServesItsFiles`).

### The GPU

`GpuDecodeProofs` proves `DecodeInductive` (`Spec => []DecodeInv`), and from it
`DecodeTypeCorrect` and `ForeignOnlyAfterFallbackHolds`, for any number of
layers, any split and any capacities. What was attended to says nothing about
the next pass, so the invariant describes the caches: the CPU cache lacks only
what was decoded on the GPU (`CpuHolds`), and the GPU cache has the whole
sequence while it fits (`GpuHolds`).

The first part of `ModelFileProofs` is about the specification `OffloadSpec`, for any number of
layers, any sizes, any models, adapters and memory that `OffloadAssumption` and
`GroupAssumption` (a block has at least one group) allow. It proves
`OffloadInductive` (`OffloadSpec => []OffloadInv`) and from it
`OffloadTypeCorrect`, `LeadingLayersHolds`, `F16ReadAsStoredHolds`,
`AllReleasedHolds`, `AllFitIfPossibleHolds` and `NoRoomForF16Holds`. The
properties speak of the end of the offload, so the invariant follows the loops:
a layer below `nOff` is uploaded as it is or quantised, the former first
(`FormatInv`); the device holds the norms of exactly those layers
(`MemoryInv`); the plan is the largest number of F16 layers that leaves room
for the others in INT8 (`PlanInv`, from the division in `PlannedFits`); and for
a model that is all F16 the budget is what the plan predicts after every
iteration (`BudgetInv`), which forces the first loop to stop at the plan and
the second at the last layer. `MergedInv` (what an adapter has touched is no
longer packed) turns the history in `Uniform` into types. The program is one
such system (`ProgramOffloads`, below).

`ReserveKeptHolds` is about the sum of what the layers take on the device. The
sum is a recursive function over the layers, so what is needed of it (it is a
natural number, it grows by the layer that is added, it does not change with a
layer that is not in it) is proved by induction on the number of layers. The
invariant (`SpentInv`) is that what the layers so far have taken and the budget
that is left make up what was free beyond the reserve.

`SignsReturn`, in the same module, is about the I2_S format: for a matrix of any
length, quantising it and reading it back gives every weight its sign, a short
last block included. `WeightPlace` finds the weight's byte and field (two
divisions, and that the quarter of a short block has it), `FieldsComeBack` takes
a byte apart.

### The exported file

The last part of `ModelFileProofs` is about `ExportSpec`: the actions of `GgufExport` with any
plan of tensors (`Plans`: not empty, a tensor has elements, an F16 tensor at
least two bytes for each), any number of keys, any alignment and any place at
which the file is cut. It proves `ExportInductive` (`ExportSpec => []ExportInv`)
and from it `ExportReloadsHolds` and `CutNotMisreadHolds`. The invariant follows
the writer and the reader through the same places: the records in the file are
those of the plan (`RecordsInv`); the writer's padding puts tensor i at
`Begin(i)`, where the table entry says it is, or both are beyond what the
offsets hold (`PlaceInv`, from `RoundUpShift`: rounding up commutes with adding
a multiple of the alignment); the reader's entries are right as far as they
were found, and when an entry was not found the file ends in the table
(`ReaderInv`); `Offset` is a recursive function of the tensor, and `OffsetNext`
and `OffsetFacts` are by induction.

`CutNotMisreadHolds` has a hypothesis, `LargeFirst`: the first tensor (the
embedding) has at least as many bytes as what may be missing of the last table
entry. Without it a file cut in its last entry could end beyond where
the reader takes the first tensor to begin. In a real model the embedding is
megabytes and an entry some tens of bytes. The program is one such system
(`ProgramExports`).

### The tokenizer

`BytePairProofs` is about any text, vocabulary, merge table and special tokens
that `TokenizerAssumption` allows: the classes of bytes are what the names say,
tokens are texts, and no special token is empty (the scan of `encode` would not
advance). It proves, for every text:

- `SplitsWell`: the pieces keep words, numbers and the rest apart;
- `MergedToTheEnd`: the merge loop ends with nothing left to merge;
- `EncodeGivesIds`: `encode` returns tokens the model has;
- `TextsComeBack`: decoding what was encoded gives the text, when each of its
  bytes has a token.

A recursive function is a CHOOSE in TLA+, so the first thing to show is that
there is such a function. `Recursion` does it once for functions on a set with a
measure that shrinks (the rounds of the merge loop, the positions of a text, the
prefixes that `FlattenSeq` goes through); it takes functions, not operators, so
that the provers can instantiate it. `ChainExists`, `ChainType` and
`ChainSpells` are the common form of the two loops over a text: whoever cuts a
text at growing positions and spells each part has spelled the whole. What
remains is local: a piece is not empty and is one of the kinds of pieces
(`PieceIsWord`), a merge leaves the joined text alone (`MergeAtSpells`) and is
one symbol shorter (`MergeOnceShortens`), a special token or a segment moves on
(`NextAdvances`).

### The program

`ProgramProofs` is about `Program`, for any jobs and requests of the types that
`ProgramAssumption` names, any context, limits, vocabulary and cuts. `Jobs` are
arguments, a file, adapters and memory as `JobType` has them; the only
assumption beyond types is that a norm has an element.

`ProgramOffloads` and `ProgramExports` say that the program implements
`OffloadSpec` and `ExportSpec`: each of its steps is a step of that
specification or leaves its variables alone. So the theorems above hold in the
program (`LoadingInProgram`, `ExportInProgram`). The second needs the first: that
the tensors `main` exports are a plan in the sense of `Plans` follows from
`OffloadInv`, which gives the model its layers and types (`PlanIsPlan`).

The properties of `Program` itself rest on these invariants:

- `DataInv`: the texts are texts, `ids` and `out` are tokens the model has. From
  it and the theorems about the tokenizer follow `TokensSpellTextHolds`,
  `SplitKeepsWordsHolds` and `CleanContinuationScoredHolds`, and from it and
  `SignsReturn` `MergeReadsBaseHolds`.
- `LoopInv`: where the program samples, the cache holds the prompt and all that
  was generated, and where it runs the model, all but the last token.
  `GenerationStops` bounds `out` but says nothing of `seqLen` when sampling,
  where the next step may run the model; with `LoopInv` it holds
  (`GenerationStopsHolds`).
- `MergeBehind`: what has been merged and what the remaining adapters cover are
  together what was asked for, unless the model came from the cache.
- `PlaceOfMain` (the options are those of the place where `main` is),
  `ModelBehind` (the model is loaded where it is used, the file was readable, the
  exporter works on the program's plan) and `EndInv` (what an exit code of 0
  stands for after `main` has returned). `ExitZeroMeansDone` speaks of the last
  states only; each of the ways there (an option of the command line, a load that
  failed, a writer that threw) has to be told from the others by what was settled
  before (`ExitZeroMeansDoneHolds`).

`CleanContinuationScoredHolds` has a hypothesis, `Spellable`: each byte of the text
has a token. That is what byte-level vocabularies are made for; without it tokens
cannot spell the end of the text.

`TokenIsSampled` is about `sample_token`: whatever the logits, the tokens seen,
the random number and the rounding, it returns a token of the vocabulary. The
fallbacks at its end (the last id when the rounded sums fall short, the largest
logit when the filters leave no weight) are needed for this.

`DrawnFromNucleusHolds` says where that token comes from. Its invariant
(`PickInv`) is that where the program has drawn, the draw was one of
`sample_token`'s; the rest is about sums of weights. A weight is a power of two,
which is positive because it counts the subsets of a set (`PowerPositive`); a
sum over a finite set does not depend on the order of its summands and grows
with the set (`MassesStep`, `MassGrows`, by induction on finite sets). Each of
the two filters keeps a beginning of the order by weight that reaches its
bound, and none of the smaller ones does, which is the nucleus
(`FiltersChoose`, `NucleusIsChosen`); the draw then ends at a token of positive
weight unless the random number was 0 or lies above the rounded sum
(`DrawnIsWeighted`).

### Induction

The library's induction rules take an operator as a parameter, which the provers
used here cannot instantiate. Where an induction over naturals is needed
(`StopMatcherProofs`, `ModelFileProofs`, `BytePairProofs`), it is done with a
set: the set of counterexamples has a least element, because `<` on `Nat` is
well-founded, and that element is contradicted. Induction on a finite set
(`Subsets` in `ProgramProofs`) is the same, on the size of its subsets.

### What is only model-checked

- The liveness properties: they need ENABLED and fairness.
- `TableDecides`: a theorem about it would be about tables that the program's
  supported models do not have.

## 5. What is not modelled

- Values: logits, log-probabilities, the weights of F16 and F32 matrices.
- Floating point: the kernels (`tensor.cpp`, `ops_cpu.cpp`, the CUDA kernels),
  the conversions between F32, F16 and BF16, the arithmetic of a LoRA merge.
- Formatting and parsing of text: JSON, HTTP framing, the chat template, the
  printing of `--info`. Connections abstract them to accepted or rejected.
- The bytes of GGUF metadata values, and the model's configuration that is read
  from them; with it the vocabulary size that a cache hit leaves at its default
  (`src/model.cpp:549`), which every such load meets, so that a test can.
- Tokenizer loading: vocabulary, merges and special tokens are constants.
- Texts that are not well-formed UTF-8, and the difference of lower and upper
  case in contractions.
- A LoRA or GGUF file that changes while a process reads it.

## 6. The plan

In order of what matters most to a user of the server. Done: the server
(`TokenChannel`, `RequestQueue`, `ServerState`, `Worker`, `Connection`,
`InferenceServer`) and its refinement of `SerialService`, `ModelCache`,
`GpuDecode` and `GpuOffload` with their proofs, `StopMatcher`, and the
sequential parts (`Ternary`, `GgufExport`, `BytePair`, `Scoring`, `Sampler`)
under `Program`.

The properties of these runs are theorems, with the refinement, but for those
that section 4 names. What would extend them, in this order:

| what | what it needs |
|---|---|
| F16 and BF16 conversions | their bit fields as whole numbers, in a module like `Ternary` |
