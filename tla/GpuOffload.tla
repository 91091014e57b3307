----------------------------- MODULE GpuOffload -----------------------------
(***************************************************************************)
(* Which layers of a model are copied to the GPU, and in which format: the *)
(* cache lookup of Model::load, the merge of LoRA adapters (apply_lora),   *)
(* init_gpu_backend and ~Model (src/src/model.cpp).  What the files of the *)
(* cache hold, and how they can come to hold something else, is the        *)
(* subject of ModelCache: here a file holds what its writer merged.        *)
(*                                                                         *)
(* A layer is the types of its weight matrices.  wq and wk have a name of  *)
(* their own because init_gpu_backend looks at them to decide what the     *)
(* whole model is made of; "rest" stands for wv, wo, w_gate, w_up and      *)
(* w_down.  A matrix has Elems elements and a layer NormBytes of norms.    *)
(***************************************************************************)
EXTENDS Integers, Sequences, Ternary

CONSTANTS
    N,           \* config.num_layers
    Elems,       \* elements of a weight matrix
    NormBytes,   \* bytes of the norm weights of a layer
    Reserve,     \* VRAM_MARGIN + VRAM_KV_RESERVE
    FreeVram,    \* what cudaMemGetInfo may answer
    Bases,       \* the types of the matrices of the models that are loaded
    AdapterLists \* the sequences of LoRA adapters that are applied

Layers == 0 .. N - 1
Mats == {"wq", "wk", "rest"}
Types == {"F32", "F16", "I2_S"}

\* An adapter is the set of <<layer, matrix>> it has both halves for.
ASSUME OffloadAssumption ==
    /\ N \in Nat \ {0}
    /\ Elems \in Nat \ {0}
    /\ NormBytes \in Nat
    /\ Reserve \in Nat
    /\ FreeVram \subseteq Nat
    /\ Bases # {} /\ Bases \subseteq [Layers -> [Mats -> Types]]
    /\ AdapterLists \subseteq Seq(SUBSET (Layers \X Mats))

VARIABLES
    ldpc,      \* where Model::load is
    types,     \* the type of each matrix of each layer
    adapters,  \* the adapters that remain to be merged
    backend,   \* model.backend
    free,      \* free_vram
    budget,    \* what the offload loops may still spend
    maxF16,    \* max_f16_layers
    nOff,      \* n_offloaded
    nLayers,   \* model.n_gpu_layers
    held,      \* what gpu_ptr points to: the type of the data of each matrix
    int8,      \* gpu_is_int8 of each matrix
    onGpu,     \* device memory: <<layer, matrix or "norms">> or <<"output_norm">>
    merged,    \* history: the matrices an adapter has been merged into
    cached     \* history: the model came from a .tvcache

offloadVars == <<ldpc, types, adapters, backend, free, budget, maxF16, nOff,
                 nLayers, held, int8, onGpu, merged, cached>>

-----------------------------------------------------------------------------
(* Sizes.                                                                  *)

\* data.size() of a matrix.
Bytes(t) == CASE t = "F32" -> 4 * Elems
              [] t = "F16" -> 2 * Elems
              [] t = "I2_S" -> PackedBytes(Elems)

\* A layer uploaded as it is: five matrices are like "rest".
RawBytes(l) ==
    Bytes(types[l]["wq"]) + Bytes(types[l]["wk"]) + 5 * Bytes(types[l]["rest"])
        + NormBytes

\* Only F16 matrices are quantised.
QuantBytes(t) == IF t = "F16" THEN Elems ELSE 0

Int8Bytes(l) ==
    QuantBytes(types[l]["wq"]) + QuantBytes(types[l]["wk"])
        + 5 * QuantBytes(types[l]["rest"]) + NormBytes

\* A layer in INT8, as the plan counts it: every matrix.
PlannedInt8 == 7 * Elems + NormBytes

WeightsF16 == types[0]["wq"] = "F16" /\ types[0]["wk"] = "F16"

\* Mutants of PlannedF16: the F16 layers are planned as if nothing else had to
\* fit; the whole model is planned in INT8.
PlannedF16Greedy(b) == N

PlannedF16None(b) == IF WeightsF16 /\ b >= PlannedInt8 * N THEN 0 ELSE N

\* max_f16_layers: how many layers may stay F16 if all N are to fit.  When
\* layer 0 is smaller as it is than in INT8 the unsigned difference wraps to a
\* number that no budget contains, and the quotient is 0.
PlannedF16(b) ==
    LET extra == RawBytes(0) - PlannedInt8
        room  == b - PlannedInt8 * N
    IN  IF ~WeightsF16 \/ room < 0 \/ extra = 0 THEN N
        ELSE IF extra < 0 THEN 0
        ELSE IF room \div extra > N THEN N ELSE room \div extra

-----------------------------------------------------------------------------

NoMatrix(v) == [l \in Layers |-> [m \in Mats |-> v]]

OffloadInit ==
    /\ ldpc = "cache"
    /\ types \in Bases
    /\ adapters \in AdapterLists
    /\ backend = "none"
    /\ free = 0
    /\ budget = 0
    /\ maxF16 = 0
    /\ nOff = 0
    /\ nLayers = 0
    /\ held = NoMatrix("nothing")
    /\ int8 = NoMatrix(FALSE)
    /\ onGpu = {}
    /\ merged = {}
    /\ cached = FALSE

GpuUntouched == UNCHANGED <<free, budget, maxF16, nOff, nLayers, held, int8,
                            onGpu>>

\* apply_lora: an I2_S matrix becomes F16, any other keeps its type.
Merged(a) ==
    [l \in Layers |-> [m \in Mats |->
        IF <<l, m>> \in a /\ types[l][m] = "I2_S" THEN "F16" ELSE types[l][m]]]

\* The model comes from the file that the first adapter names, made by any
\* list that begins with it; or from the file of the base alone, when there is
\* no adapter or when the first one cannot be read to be hashed.  No adapter is
\* opened after that.
CacheHit(l) ==
    /\ ldpc = "cache"
    /\ \/ l = << >>
       \/ adapters # << >> /\ l # << >> /\ Head(l) = Head(adapters)
    /\ merged' = UNION {l[i] : i \in DOMAIN l}
    /\ types' = Merged(merged')
    /\ adapters' = << >>
    /\ cached' = TRUE
    /\ ldpc' = "merge"
    /\ UNCHANGED backend
    /\ GpuUntouched

\* There is no such file, or TERNATIVE_NO_CACHE is set.
CacheMiss ==
    /\ ldpc = "cache"
    /\ ldpc' = "merge"
    /\ UNCHANGED <<types, merged, cached, adapters, backend>>
    /\ GpuUntouched

MergeAdapter ==
    /\ ldpc = "merge"
    /\ adapters # << >>
    /\ types' = Merged(Head(adapters))
    /\ adapters' = Tail(adapters)
    /\ merged' = merged \cup Head(adapters)
    /\ UNCHANGED <<ldpc, cached, backend>>
    /\ GpuUntouched

\* Model::load returns null: a LoRA file does not load, or the base GGUF, which
\* was given up for the lookup, cannot be read again.
FileMissing ==
    /\ ldpc = "cache" \/ (ldpc = "merge" /\ adapters # << >>)
    /\ ldpc' = "failed"
    /\ UNCHANGED <<types, merged, cached, adapters, backend>>
    /\ GpuUntouched

\* use_cuda is false.
UseCpu ==
    /\ ldpc = "merge"
    /\ adapters = << >>
    /\ ldpc' = "ready"
    /\ backend' = "cpu"
    /\ UNCHANGED <<types, merged, cached, adapters>>
    /\ GpuUntouched

\* Too little memory for anything but the reserve: a CUDA backend, no layers.
NoVram(f) ==
    /\ ldpc = "merge"
    /\ adapters = << >>
    /\ f <= Reserve
    /\ free' = f
    /\ backend' = "cuda"
    /\ ldpc' = "ready"
    /\ UNCHANGED <<types, merged, cached, adapters, budget, maxF16, nOff, nLayers, held, int8,
                   onGpu>>

PlanSplit(f) ==
    /\ ldpc = "merge"
    /\ adapters = << >>
    /\ f > Reserve
    /\ free' = f
    /\ budget' = f - Reserve
    /\ maxF16' = PlannedF16(f - Reserve)
    /\ ldpc' = "f16"
    /\ UNCHANGED <<types, merged, cached, adapters, backend, nOff, nLayers, held, int8, onGpu>>

-----------------------------------------------------------------------------
(* The two offload loops.  The iteration for layer nOff.                   *)

FitsRaw == WeightsF16 /\ nOff < maxF16 /\ nOff < N /\ RawBytes(nOff) <= budget
FitsInt8 == WeightsF16 /\ nOff < N /\ Int8Bytes(nOff) <= budget

LayerMemory(l) == {l} \X (Mats \cup {"norms"})

\* Mutant of OffloadRaw: the norms are left out of the accounting.
OffloadRawUncounted ==
    /\ ldpc = "f16"
    /\ FitsRaw
    /\ held' = [held EXCEPT ![nOff] = types[nOff]]
    /\ onGpu' = onGpu \cup LayerMemory(nOff)
    /\ budget' = budget - (RawBytes(nOff) - NormBytes)
    /\ nOff' = nOff + 1
    /\ UNCHANGED <<ldpc, types, merged, cached, adapters, backend, free, maxF16, nLayers, int8>>

\* The matrices are uploaded as they are, whatever their types.
OffloadRaw ==
    /\ ldpc = "f16"
    /\ FitsRaw
    /\ held' = [held EXCEPT ![nOff] = types[nOff]]
    /\ onGpu' = onGpu \cup LayerMemory(nOff)
    /\ budget' = budget - RawBytes(nOff)
    /\ nOff' = nOff + 1
    /\ UNCHANGED <<ldpc, types, merged, cached, adapters, backend, free, maxF16, nLayers, int8>>

EndRaw ==
    /\ ldpc = "f16"
    /\ ~FitsRaw
    /\ ldpc' = "int8"
    /\ UNCHANGED <<types, merged, cached, adapters, backend>>
    /\ GpuUntouched

\* Mutant of OffloadInt8: the kernels are not told about the format.
OffloadInt8Unflagged ==
    /\ ldpc = "int8"
    /\ FitsInt8
    /\ LET F16Mats == {m \in Mats : types[nOff][m] = "F16"}
       IN  /\ held' = [held EXCEPT ![nOff] =
                          [m \in Mats |-> IF m \in F16Mats THEN "INT8" ELSE @[m]]]
           /\ onGpu' = onGpu \cup ({nOff} \X (F16Mats \cup {"norms"}))
    /\ budget' = budget - Int8Bytes(nOff)
    /\ nOff' = nOff + 1
    /\ UNCHANGED <<ldpc, types, merged, cached, adapters, backend, free, maxF16, nLayers, int8>>

\* Mutant of OffloadInt8: a layer that does not fit is passed over.
OffloadInt8Skipping ==
    /\ ldpc = "int8"
    /\ WeightsF16
    /\ nOff < N
    /\ nOff' = nOff + 1
    /\ IF Int8Bytes(nOff) > budget
       THEN UNCHANGED <<held, int8, onGpu, budget>>
       ELSE LET F16Mats == {m \in Mats : types[nOff][m] = "F16"}
            IN  /\ held' = [held EXCEPT ![nOff] =
                               [m \in Mats |-> IF m \in F16Mats THEN "INT8" ELSE @[m]]]
                /\ int8' = [int8 EXCEPT ![nOff] = [m \in Mats |-> m \in F16Mats]]
                /\ onGpu' = onGpu \cup ({nOff} \X (F16Mats \cup {"norms"}))
                /\ budget' = budget - Int8Bytes(nOff)
    /\ UNCHANGED <<ldpc, types, merged, cached, adapters, backend, free, maxF16, nLayers>>

\* The F16 matrices are quantised, the others are skipped.
OffloadInt8 ==
    /\ ldpc = "int8"
    /\ FitsInt8
    /\ LET F16Mats == {m \in Mats : types[nOff][m] = "F16"}
       IN  /\ held' = [held EXCEPT ![nOff] =
                          [m \in Mats |-> IF m \in F16Mats THEN "INT8" ELSE @[m]]]
           /\ int8' = [int8 EXCEPT ![nOff] = [m \in Mats |-> m \in F16Mats]]
           /\ onGpu' = onGpu \cup ({nOff} \X (F16Mats \cup {"norms"}))
    /\ budget' = budget - Int8Bytes(nOff)
    /\ nOff' = nOff + 1
    /\ UNCHANGED <<ldpc, types, merged, cached, adapters, backend, free, maxF16, nLayers>>

EndInt8 ==
    /\ ldpc = "int8"
    /\ ~FitsInt8
    /\ ldpc' = "finish"
    /\ UNCHANGED <<types, merged, cached, adapters, backend>>
    /\ GpuUntouched

\* n_gpu_layers is set, output_norm uploaded and the activation buffers made.
Finish ==
    /\ ldpc = "finish"
    /\ nLayers' = nOff
    /\ onGpu' = IF nOff = N THEN onGpu \cup {<<"output_norm">>} ELSE onGpu
    /\ backend' = "cuda"
    /\ ldpc' = "ready"
    /\ UNCHANGED <<types, merged, cached, adapters, free, budget, maxF16, nOff, held, int8>>

\* A CUDA call fails (the constructor's, an allocation, an upload): the CPU
\* backend takes over.  Whatever was uploaded, of this layer too, stays on the
\* device, and n_gpu_layers may have been set before the failure.
CudaThrows ==
    /\ \/ ldpc = "merge" /\ adapters = << >>
       \/ ldpc \in {"f16", "int8", "finish"}
    /\ \/ UNCHANGED onGpu
       \/ /\ \/ ldpc = "f16" /\ FitsRaw
             \/ ldpc = "int8" /\ FitsInt8
          /\ onGpu' = onGpu \cup {<<nOff, "wq">>}
       \/ ldpc = "finish" /\ nOff = N /\ onGpu' = onGpu \cup {<<"output_norm">>}
    /\ nLayers' = IF ldpc = "finish" THEN nOff ELSE nLayers
    /\ backend' = "cpu"
    /\ ldpc' = "ready"
    /\ UNCHANGED <<types, merged, cached, adapters, free, budget, maxF16, nOff, held, int8>>

\* Mutant of DestroyModel: output_norm is not released.
DestroyLayersOnly ==
    /\ ldpc = "ready"
    /\ onGpu' = IF backend = "cuda"
                THEN onGpu \ UNION {LayerMemory(l) : l \in Layers}
                ELSE onGpu
    /\ ldpc' = "freed"
    /\ UNCHANGED <<types, merged, cached, adapters, backend, free, budget, maxF16, nOff,
                   nLayers, held, int8>>

\* ~Model: only a CUDA backend can release device memory.
DestroyModel ==
    /\ ldpc = "ready"
    /\ onGpu' = IF backend = "cuda"
                THEN onGpu \ ((UNION {LayerMemory(l) : l \in Layers})
                                  \cup {<<"output_norm">>})
                ELSE onGpu
    /\ ldpc' = "freed"
    /\ UNCHANGED <<types, merged, cached, adapters, backend, free, budget, maxF16, nOff,
                   nLayers, held, int8>>

OffloadNext ==
    \/ \E l \in AdapterLists \cup {<< >>} : CacheHit(l)
    \/ CacheMiss
    \/ MergeAdapter
    \/ FileMissing
    \/ UseCpu
    \/ \E f \in FreeVram : NoVram(f) \/ PlanSplit(f)
    \/ OffloadRaw
    \/ EndRaw
    \/ OffloadInt8
    \/ EndInt8
    \/ Finish
    \/ CudaThrows
    \/ DestroyModel

OffloadSpec == OffloadInit /\ [][OffloadNext]_offloadVars

-----------------------------------------------------------------------------
(* Properties.                                                             *)

OffloadPC == {"cache", "merge", "f16", "int8", "finish", "ready", "freed",
              "failed"}

OffloadTypeOK ==
    /\ ldpc \in OffloadPC
    /\ types \in [Layers -> [Mats -> Types]]
    /\ adapters \in Seq(SUBSET (Layers \X Mats))
    /\ backend \in {"none", "cpu", "cuda"}
    /\ free \in Nat
    /\ budget \in Nat
    /\ maxF16 \in 0 .. N
    /\ nOff \in 0 .. N
    /\ nLayers \in 0 .. N
    /\ held \in [Layers -> [Mats -> Types \cup {"INT8", "nothing"}]]
    /\ int8 \in [Layers -> [Mats -> BOOLEAN]]
    /\ merged \subseteq Layers \X Mats
    /\ cached \in BOOLEAN

\* What the dispatch of forward_gpu takes the data of a matrix for.
ReadAs(l, m) == IF int8[l][m] THEN "INT8" ELSE "F16"

Uploaded(l) == <<l, "norms">> \in onGpu

\* The bytes a layer takes on the device.
HeldBytes(h) == CASE h = "INT8" -> Elems
                  [] h = "nothing" -> 0
                  [] OTHER -> Bytes(h)

Spent(l) == IF Uploaded(l)
            THEN HeldBytes(held[l]["wq"]) + HeldBytes(held[l]["wk"])
                     + 5 * HeldBytes(held[l]["rest"]) + NormBytes
            ELSE 0

SpentUpTo[l \in 0 .. N] == IF l = 0 THEN 0 ELSE SpentUpTo[l - 1] + Spent(l - 1)

Offloading == ldpc \in {"f16", "int8", "finish"}

\* "The accounting is exact": although the split is planned with the size of
\* layer 0 and every layer may have its own, the reserve for the cache and the
\* activations is never spent, and the unsigned budget never wraps.
ReserveKept ==
    Offloading => /\ SpentUpTo[N] + budget = free - Reserve
                  /\ budget >= 0

\* The layers on the GPU are the first n_gpu_layers ones, which is what
\* forward_gpu takes them to be, with those kept as they were before those in
\* INT8.
LeadingLayers ==
    /\ \A l \in Layers : ldpc \in OffloadPC \ {"freed"} => (Uploaded(l) <=> l < nOff)
    /\ \A k, l \in Layers : k < l /\ l < nOff /\ (\E m \in Mats : int8[k][m])
                               => ~ (\E m \in Mats : held[l][m] = "F16")
    /\ ldpc = "ready" /\ backend = "cuda" => nLayers = nOff

\* Every matrix was F16 in the file, or has been merged with an adapter.
Uniform ==
    \A l \in Layers, m \in Mats :
        types[l][m] = "F16" \/ (<<l, m>> \in merged /\ types[l][m] # "F32")

\* "So all layers fit if at all possible": a model whose matrices are all F16,
\* in the file or because adapters cover them, is offloaded entirely if it fits
\* in INT8.
AllFitIfPossible ==
    (ldpc = "ready" /\ backend = "cuda" /\ Uniform /\ free > Reserve
        /\ PlannedInt8 * N <= free - Reserve) => nLayers = N

\* "Maximize F16 count": no INT8 layer of such a model could have stayed F16.
NoRoomForF16 ==
    (ldpc = "ready" /\ backend = "cuda" /\ Uniform /\ nLayers = N
        /\ \E l \in Layers : int8[l]["wq"])
            => budget < 7 * Elems

\* The kernels take each matrix of an offloaded layer for what it is, F16 or
\* INT8, when the model's matrices are all F16, in the file or because adapters
\* cover them.  No check makes this a condition: see OnlyF16Offloaded.
F16ReadAsStored ==
    (ldpc = "ready" /\ backend = "cuda" /\ Uniform) =>
        \A l \in 0 .. nLayers - 1, m \in Mats : held[l][m] = ReadAs(l, m)

\* "Only offload layers whose weight matrices are F16": what the comment
\* above the loops says of every layer, and they ask of wq and wk of the first.
OnlyF16Offloaded ==
    (ldpc = "ready" /\ backend = "cuda") =>
        \A l \in 0 .. nLayers - 1, m \in Mats : types[l][m] = "F16"

\* ~Model gives back what init_gpu_backend took, unless it has fallen back.
AllReleased == ldpc = "freed" => onGpu = {} \/ backend = "cpu"

=============================================================================
