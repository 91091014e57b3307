----------------------------- MODULE GpuDecode -----------------------------
(***************************************************************************)
(* The two key/value caches of a model whose leading layers are on the GPU *)
(* (src/src/model.cpp, cuda/ops_cuda.cu): the CPU cache is filled by every *)
(* prompt pass, the GPU cache of GpuCap positions is seeded from it and    *)
(* then written by the forward passes that run on the GPU.  A forward pass *)
(* at a position the GPU cache does not have runs on the CPU.              *)
(*                                                                         *)
(* A slot of a cache is represented by whose key and value it holds: the   *)
(* number of the request and the position of the token.  Values of keys,   *)
(* hidden states and logits are left out.                                  *)
(***************************************************************************)
EXTENDS Integers

CONSTANTS
    NumLayers,    \* config.num_layers
    Capacity,     \* kv_cache.capacity, which is config.max_seq_len
    GpuCap,       \* gpu_max_seq_
    MaxRequests   \* bound on the number of requests

ASSUME DecodeAssumption ==
    /\ NumLayers \in Nat \ {0}
    /\ Capacity \in Nat \ {0}
    /\ GpuCap \in Nat \ {0}
    /\ MaxRequests \in Nat

VARIABLES
    cuda,    \* the backend is a CUDABackend
    nGpu,    \* n_gpu_layers: layers 0 .. nGpu - 1 are on the GPU
    cpu,     \* kv_cache
    gpu,     \* d_k_cache_, d_v_cache_
    seqLen,  \* kv_cache.seq_len
    active,  \* a generation is going on
    req,     \* history: number of the request
    prompt,  \* history: length of its prompt
    seen     \* history: what each layer of the last forward pass attended to

kvVars == <<cpu, gpu>>
decodeVars == <<cuda, nGpu, kvVars, seqLen, active, req, prompt, seen>>

Layers == 0 .. NumLayers - 1
OnGpu == 0 .. nGpu - 1
Slots == 0 .. Capacity - 1
GpuSlots == 0 .. GpuCap - 1

Key(r, p) == <<r, p>>
Zero == <<0, 0>>
Keys == (0 .. MaxRequests) \X (0 .. Capacity)

-----------------------------------------------------------------------------

\* has_gpu_kv: the GPU cache exists once a layer has been offloaded.
HasGpuKV(n) == cuda /\ nGpu > 0 /\ GpuCap >= n

\* update (and kv_write_d): the keys of n tokens of request r, from position pos
\* on, are stored in the layers ls; slots a cache does not have are left out.
Update(kv, ls, pos, n, r) ==
    [l \in Layers |-> [p \in DOMAIN kv[l] |->
        IF l \in ls /\ pos <= p /\ p < pos + n THEN Key(r, p) ELSE kv[l][p]]]

\* clear_kv_d
ClearedGpu ==
    IF HasGpuKV(1) THEN [l \in Layers |-> [p \in GpuSlots |-> Zero]] ELSE gpu

\* Mutant of SyncedGpu: the last position of the prompt is left out.
SyncedButLast(g, c, n, ls) ==
    IF HasGpuKV(n)
    THEN [l \in Layers |-> [p \in GpuSlots |->
            IF l \in OnGpu \cap ls /\ p < n - 1 THEN c[l][p] ELSE g[l][p]]]
    ELSE g

\* sync_kv_to_gpu, for those of its layers that are in ls: nothing when the
\* prompt does not fit.
SyncedGpu(g, c, n, ls) ==
    IF HasGpuKV(n)
    THEN [l \in Layers |-> [p \in GpuSlots |->
            IF l \in OnGpu \cap ls /\ p < n THEN c[l][p] ELSE g[l][p]]]
    ELSE g

\* What a token that attends to the first n slots of layer l gets.
Attended(kv, l, n) == [p \in 0 .. n - 1 |-> kv[l][p]]

Nothing == [l \in Layers |-> [p \in {} |-> Zero]]

\* What init_gpu_backend leaves: any number of layers on the GPU, or, after an
\* exception, a CPU backend beside whatever n_gpu_layers was set to.
Init ==
    /\ cuda \in BOOLEAN
    /\ nGpu \in 0 .. NumLayers
    /\ cpu = [l \in Layers |-> [p \in Slots |-> Zero]]
    /\ gpu = [l \in Layers |-> [p \in GpuSlots |-> Zero]]
    /\ seqLen = 0
    /\ active = FALSE
    /\ req = 0
    /\ prompt = 0
    /\ seen = Nothing

NewRequest(n) ==
    /\ req < MaxRequests
    /\ req' = req + 1
    /\ prompt' = n
    /\ seen' = Nothing
    /\ UNCHANGED <<cuda, nGpu>>

\* clear, the prompt pass and sync_kv_to_gpu, as every generation begins.
Prefill(n) ==
    /\ NewRequest(n)
    /\ cpu' = Update(cpu, Layers, 0, n, req + 1)
    /\ gpu' = SyncedGpu(ClearedGpu, cpu', n, Layers)
    /\ seqLen' = n
    /\ active' = TRUE

\* An exception in a layer of the prompt pass, or in the upload of one: the
\* layers ls before it are done.
PrefillThrows(n, ls) ==
    /\ NewRequest(n)
    /\ \/ /\ cpu' = Update(cpu, ls, 0, n, req + 1)
          /\ gpu' = ClearedGpu
          /\ seqLen' = 0
       \/ /\ cpu' = Update(cpu, Layers, 0, n, req + 1)
          /\ gpu' = SyncedGpu(ClearedGpu, cpu', n, ls)
          /\ seqLen' = n
    /\ active' = FALSE

\* score_logprobs: the prompt pass without the upload, and no forward pass.
Score(n) ==
    /\ NewRequest(n)
    /\ cpu' = Update(cpu, Layers, 0, n, req + 1)
    /\ gpu' = ClearedGpu
    /\ seqLen' = n
    /\ active' = FALSE

\* Mutant of MayForward: the loop does not look at the context length.
MayForwardUnchecked == active

\* The generation loops stop at max_seq_len.
MayForward == active /\ seqLen < Capacity

\* forward_gpu: a layer on the GPU and a layer of the CPU tail both store the
\* token's key before they attend.
ForwardGpu ==
    /\ MayForward
    /\ HasGpuKV(seqLen + 1)
    /\ gpu' = Update(gpu, OnGpu, seqLen, 1, req)
    /\ cpu' = Update(cpu, Layers \ OnGpu, seqLen, 1, req)
    /\ seen' = [l \in Layers |->
          IF l \in OnGpu THEN Attended(gpu', l, seqLen + 1)
                         ELSE Attended(cpu', l, seqLen + 1)]
    /\ seqLen' = seqLen + 1
    /\ UNCHANGED <<cuda, nGpu, active, req, prompt>>

\* forward with prefill = false on the CPU: the key is stored after the
\* attention.
ForwardCpu ==
    /\ MayForward
    /\ ~HasGpuKV(seqLen + 1)
    /\ seen' = [l \in Layers |-> Attended(cpu, l, seqLen)]
    /\ cpu' = Update(cpu, Layers, seqLen, 1, req)
    /\ seqLen' = seqLen + 1
    /\ UNCHANGED <<cuda, nGpu, gpu, active, req, prompt>>

\* An exception in a layer of a forward pass: the request is given up.
ForwardThrows(ls) ==
    /\ MayForward
    /\ active' = FALSE
    /\ IF HasGpuKV(seqLen + 1)
       THEN /\ gpu' = Update(gpu, OnGpu \cap ls, seqLen, 1, req)
            /\ cpu' = Update(cpu, ls \ OnGpu, seqLen, 1, req)
       ELSE /\ cpu' = Update(cpu, ls, seqLen, 1, req)
            /\ UNCHANGED gpu
    /\ UNCHANGED <<cuda, nGpu, seqLen, req, prompt, seen>>

Next ==
    \/ \E n \in 1 .. Capacity :
          \/ Prefill(n)
          \/ Score(n)
          \/ \E k \in 0 .. NumLayers : PrefillThrows(n, 0 .. k - 1)
    \/ ForwardGpu
    \/ ForwardCpu
    \/ \E k \in 0 .. NumLayers : ForwardThrows(0 .. k - 1)

Spec == Init /\ [][Next]_decodeVars

-----------------------------------------------------------------------------

DecodeTypeOK ==
    /\ cuda \in BOOLEAN
    /\ nGpu \in 0 .. NumLayers
    /\ cpu \in [Layers -> [Slots -> Keys]]
    /\ gpu \in [Layers -> [GpuSlots -> Keys]]
    /\ seqLen \in 0 .. Capacity
    /\ active \in BOOLEAN
    /\ req \in 0 .. MaxRequests
    /\ prompt \in 0 .. Capacity
    /\ \A l \in Layers : \E n \in 0 .. Capacity : seen[l] \in [0 .. n - 1 -> Keys]

\* The layer l of the last forward pass attended to a slot p that does not hold
\* the key of the request's own token at p.
Foreign(l, p) == p \in DOMAIN seen[l] /\ seen[l][p] # Key(req, p)

\* A forward pass attends to a wrong key in one case only: the generation has
\* outgrown the GPU cache, and the CPU cache of an offloaded layer does not
\* have the tokens that were decoded on the GPU.  In particular, the prompt is
\* always attended to as it is, a layer of the CPU tail is always right, and so
\* is every pass of a request whose prompt does not fit into the GPU cache;
\* what an exception has left behind does no harm.
ForeignOnlyAfterFallback ==
    \A l \in Layers : \A p \in Slots : Foreign(l, p) =>
        /\ HasGpuKV(1) /\ l \in OnGpu
        /\ prompt <= p /\ p < GpuCap
        /\ GpuCap < seqLen

\* "During generation, token only attends to past tokens": what a token attends
\* to are keys of its own sequence.
AttendsToOwnTokens == \A l \in Layers : \A p \in Slots : ~Foreign(l, p)

=============================================================================
