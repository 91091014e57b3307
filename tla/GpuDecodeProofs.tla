-------------------------- MODULE GpuDecodeProofs --------------------------
(***************************************************************************)
(* What a forward pass attends to, for any number of layers, any split of  *)
(* them between GPU and CPU, and any capacity of either cache.             *)
(***************************************************************************)
EXTENDS GpuDecode, TLAPS

\* The CPU cache lacks nothing but what was decoded on the GPU.
CpuHolds == active => \A l \in Layers : \A p \in 0 .. seqLen - 1 :
    \/ cpu[l][p] = Key(req, p)
    \/ HasGpuKV(1) /\ l \in OnGpu /\ prompt <= p /\ p < GpuCap

\* As long as the sequence fits into the GPU cache, it is all there.
GpuHolds == active /\ HasGpuKV(seqLen) =>
    \A l \in OnGpu : \A p \in 0 .. seqLen - 1 : gpu[l][p] = Key(req, p)

DecodeInv ==
    /\ DecodeTypeOK
    /\ active => prompt <= seqLen
    /\ CpuHolds
    /\ GpuHolds
    /\ ForeignOnlyAfterFallback

-----------------------------------------------------------------------------

\* clear_kv_d and sync_kv_to_gpu leave a GPU cache, whatever they change.
LEMMA ClearedType ==
    ASSUME DecodeTypeOK
    PROVE  ClearedGpu \in [Layers -> [GpuSlots -> Keys]]
<1>1. Zero \in Keys
  BY DecodeAssumption DEF Zero, Keys
<1> QED
  BY <1>1 DEF ClearedGpu, DecodeTypeOK

LEMMA SyncedType ==
    ASSUME NEW g \in [Layers -> [GpuSlots -> Keys]],
           NEW c \in [Layers -> [Slots -> Keys]],
           NEW n \in 1 .. Capacity, NEW ls
    PROVE  /\ SyncedGpu(g, c, n, ls) \in [Layers -> [GpuSlots -> Keys]]
           /\ HasGpuKV(n) => \A l \in Layers : \A p \in GpuSlots :
                 SyncedGpu(g, c, n, ls)[l][p] =
                    IF l \in OnGpu \cap ls /\ p < n THEN c[l][p] ELSE g[l][p]
<1>1. CASE HasGpuKV(n)
  <2>1. \A p \in GpuSlots : p < n => p \in Slots
    BY DecodeAssumption DEF GpuSlots, Slots
  <2> QED
    BY <1>1, <2>1 DEF SyncedGpu
<1>2. CASE ~HasGpuKV(n)
  BY <1>2 DEF SyncedGpu
<1> QED
  BY <1>1, <1>2

\* A new request has attended to nothing yet.
LEMMA NewRequestStep ==
    ASSUME DecodeTypeOK, NEW n \in 1 .. Capacity, NewRequest(n)
    PROVE  /\ cuda' \in BOOLEAN /\ nGpu' \in 0 .. NumLayers
           /\ req' \in 0 .. MaxRequests /\ req' = req + 1
           /\ prompt' \in 0 .. Capacity
           /\ \A l \in Layers : \E k \in 0 .. Capacity : seen'[l] \in [0 .. k - 1 -> Keys]
           /\ ForeignOnlyAfterFallback'
<1>1. \A l \in Layers : DOMAIN seen'[l] = {}
  BY DEF NewRequest, Nothing
<1>2. \A l \in Layers : seen'[l] \in [0 .. 0 - 1 -> Keys]
  BY DEF NewRequest, Nothing
<1>3. /\ \A l \in Layers : \E k \in 0 .. Capacity : seen'[l] \in [0 .. k - 1 -> Keys]
      /\ prompt' \in 0 .. Capacity
  <2>1. 0 \in 0 .. Capacity /\ n \in 0 .. Capacity
    BY DecodeAssumption
  <2> QED
    BY <1>2, <2>1 DEF NewRequest
<1>4. ForeignOnlyAfterFallback'
  BY <1>1 DEF ForeignOnlyAfterFallback, Foreign
<1>5. req' \in 0 .. MaxRequests /\ req' = req + 1
  BY DecodeAssumption DEF NewRequest, DecodeTypeOK
<1> QED
  BY <1>3, <1>4, <1>5 DEF NewRequest, DecodeTypeOK

\* A request whose generation does not begin, or not yet, leaves no obligation.
LEMMA InactiveStep ==
    ASSUME DecodeInv, NEW n \in 1 .. Capacity, NewRequest(n), ~active',
           active' \in BOOLEAN, seqLen' \in 0 .. Capacity,
           cpu' \in [Layers -> [Slots -> Keys]],
           gpu' \in [Layers -> [GpuSlots -> Keys]]
    PROVE  DecodeInv'
<1>1. DecodeTypeOK'
  BY NewRequestStep DEF DecodeInv, DecodeTypeOK
<1>2. ForeignOnlyAfterFallback'
  BY NewRequestStep DEF DecodeInv
<1> QED
  BY <1>1, <1>2 DEF DecodeInv, CpuHolds, GpuHolds

\* The CPU cache after a prompt pass.
LEMMA PromptUpdate ==
    ASSUME DecodeTypeOK, NEW n \in 1 .. Capacity, req < MaxRequests, NEW ls
    PROVE  /\ Update(cpu, ls, 0, n, req + 1) \in [Layers -> [Slots -> Keys]]
           /\ \A l \in Layers \cap ls : \A p \in 0 .. n - 1 :
                 Update(cpu, ls, 0, n, req + 1)[l][p] = Key(req + 1, p)
<1>1. /\ 0 .. n - 1 \subseteq 0 .. Capacity
      /\ 0 .. n - 1 \subseteq Slots
      /\ req + 1 \in 0 .. MaxRequests
      /\ cpu \in [Layers -> [Slots -> Keys]]
  BY DecodeAssumption DEF DecodeTypeOK, Slots
<1>2. \A p \in 0 .. n - 1 : Key(req + 1, p) \in Keys
  BY <1>1 DEF Key, Keys
<1>3. Update(cpu, ls, 0, n, req + 1) = [l \in Layers |-> [p \in Slots |->
          IF l \in ls /\ 0 <= p /\ p < 0 + n THEN Key(req + 1, p) ELSE cpu[l][p]]]
  BY <1>1 DEF Update
<1>4. \A p \in Slots : 0 <= p /\ p < 0 + n <=> p \in 0 .. n - 1
  BY DEF Slots
<1> QED
  BY <1>1, <1>2, <1>3, <1>4

\* A prompt pass fills both caches with the new request.
LEMMA PrefillStep ==
    ASSUME DecodeInv, NEW n \in 1 .. Capacity, Prefill(n)
    PROVE  DecodeInv'
<1>1. /\ cpu' \in [Layers -> [Slots -> Keys]]
      /\ \A l \in Layers : \A p \in 0 .. n - 1 : cpu'[l][p] = Key(req', p)
  BY PromptUpdate DEF Prefill, NewRequest, DecodeInv
<1>2. ClearedGpu \in [Layers -> [GpuSlots -> Keys]]
  BY ClearedType DEF DecodeInv
<1>3. /\ gpu' \in [Layers -> [GpuSlots -> Keys]]
      /\ HasGpuKV(n) => \A l \in Layers : \A p \in GpuSlots :
            gpu'[l][p] = IF l \in OnGpu \cap Layers /\ p < n
                         THEN cpu'[l][p] ELSE ClearedGpu[l][p]
  BY <1>1, <1>2, SyncedType DEF Prefill
<1>4. /\ seqLen' = n /\ active' = TRUE /\ prompt' = n
      /\ cuda' = cuda /\ nGpu' = nGpu
  BY DEF Prefill, NewRequest
<1>5. DecodeTypeOK'
  BY <1>1, <1>3, <1>4, NewRequestStep, DecodeAssumption DEF DecodeInv, DecodeTypeOK, Prefill
<1>6. CpuHolds'
  BY <1>1, <1>4 DEF CpuHolds
<1>7. GpuHolds'
  <2>1. SUFFICES ASSUME HasGpuKV(n), NEW l \in OnGpu, NEW p \in 0 .. n - 1
                 PROVE  gpu'[l][p] = Key(req', p)
    BY <1>4 DEF GpuHolds, HasGpuKV, OnGpu
  <2>2. l \in Layers /\ p \in GpuSlots /\ p < n
    BY <2>1, DecodeAssumption DEF OnGpu, Layers, GpuSlots, HasGpuKV, DecodeInv, DecodeTypeOK
  <2> QED
    BY <1>1, <1>3, <2>1, <2>2
<1>8. ForeignOnlyAfterFallback'
  BY NewRequestStep DEF DecodeInv, Prefill
<1> QED
  BY <1>4, <1>5, <1>6, <1>7, <1>8 DEF DecodeInv

\* A prompt pass that fails, and one for scoring, end the generation.
LEMMA NoGenerationStep ==
    ASSUME DecodeInv, NEW n \in 1 .. Capacity,
           Score(n) \/ \E k \in 0 .. NumLayers : PrefillThrows(n, 0 .. k - 1)
    PROVE  DecodeInv'
<1>1. ClearedGpu \in [Layers -> [GpuSlots -> Keys]]
  BY ClearedType DEF DecodeInv
<1>2. DecodeTypeOK /\ n \in 0 .. Capacity /\ 0 \in 0 .. Capacity
  BY DecodeAssumption DEF DecodeInv
<1>3. CASE Score(n)
  BY <1>1, <1>2, <1>3, PromptUpdate, InactiveStep DEF Score, NewRequest
<1>4. CASE \E k \in 0 .. NumLayers : PrefillThrows(n, 0 .. k - 1)
  <2>1. PICK k \in 0 .. NumLayers : PrefillThrows(n, 0 .. k - 1)
    BY <1>4
  <2>2. cpu' \in [Layers -> [Slots -> Keys]] /\ seqLen' \in 0 .. Capacity
    BY <1>2, <2>1, PromptUpdate DEF PrefillThrows, NewRequest
  <2>3. gpu' \in [Layers -> [GpuSlots -> Keys]]
    BY <1>1, <2>1, <2>2, SyncedType DEF PrefillThrows
  <2> QED
    BY <2>1, <2>2, <2>3, InactiveStep DEF PrefillThrows
<1> QED
  BY <1>3, <1>4

\* The CPU cache after the layers ls have stored the key at seqLen.
LEMMA CpuTokenUpdate ==
    ASSUME DecodeTypeOK, seqLen < Capacity, NEW ls
    PROVE  /\ Update(cpu, ls, seqLen, 1, req) \in [Layers -> [Slots -> Keys]]
           /\ \A l \in Layers : \A p \in Slots : Update(cpu, ls, seqLen, 1, req)[l][p] =
                 IF l \in ls /\ p = seqLen THEN Key(req, p) ELSE cpu[l][p]
<1>1. /\ seqLen \in 0 .. Capacity
      /\ cpu \in [Layers -> [Slots -> Keys]] /\ req \in 0 .. MaxRequests
  BY DEF DecodeTypeOK
<1>2. \A p : p = seqLen => Key(req, p) \in Keys
  BY <1>1 DEF Key, Keys
<1>3. Update(cpu, ls, seqLen, 1, req) = [l \in Layers |-> [p \in Slots |->
          IF l \in ls /\ p = seqLen THEN Key(req, p) ELSE cpu[l][p]]]
  <2>1. \A p \in Slots : seqLen <= p /\ p < seqLen + 1 <=> p = seqLen
    BY <1>1 DEF Slots
  <2>2. \A l \in Layers : DOMAIN cpu[l] = Slots
    BY <1>1
  <2> QED
    BY <2>1, <2>2 DEF Update
<1> QED
  BY <1>1, <1>2, <1>3

\* The same of the GPU cache.
LEMMA GpuTokenUpdate ==
    ASSUME DecodeTypeOK, NEW ls
    PROVE  /\ Update(gpu, ls, seqLen, 1, req) \in [Layers -> [GpuSlots -> Keys]]
           /\ \A l \in Layers : \A p \in GpuSlots : Update(gpu, ls, seqLen, 1, req)[l][p] =
                 IF l \in ls /\ p = seqLen THEN Key(req, p) ELSE gpu[l][p]
<1>1. /\ seqLen \in 0 .. Capacity
      /\ gpu \in [Layers -> [GpuSlots -> Keys]] /\ req \in 0 .. MaxRequests
  BY DEF DecodeTypeOK
<1>2. \A p : p = seqLen => Key(req, p) \in Keys
  BY <1>1 DEF Key, Keys
<1>3. Update(gpu, ls, seqLen, 1, req) = [l \in Layers |-> [p \in GpuSlots |->
          IF l \in ls /\ p = seqLen THEN Key(req, p) ELSE gpu[l][p]]]
  <2>1. \A p \in GpuSlots : seqLen <= p /\ p < seqLen + 1 <=> p = seqLen
    BY <1>1 DEF GpuSlots
  <2>2. \A l \in Layers : DOMAIN gpu[l] = GpuSlots
    BY <1>1
  <2> QED
    BY <2>1, <2>2 DEF Update
<1> QED
  BY <1>1, <1>2, <1>3

\* A pass on the GPU attends to the request's own keys only.
LEMMA ForwardGpuStep ==
    ASSUME DecodeInv, ForwardGpu
    PROVE  DecodeInv'
<1> USE DecodeAssumption
<1>1. /\ active /\ seqLen \in 0 .. Capacity - 1 /\ seqLen < GpuCap
      /\ cuda /\ nGpu > 0 /\ HasGpuKV(1) /\ HasGpuKV(seqLen)
      /\ seqLen' = seqLen + 1 /\ prompt <= seqLen /\ prompt' <= seqLen'
      /\ UNCHANGED <<cuda, nGpu, active, req, prompt>>
  BY DEF ForwardGpu, MayForward, HasGpuKV, DecodeInv, DecodeTypeOK
<1>2. /\ cpu' \in [Layers -> [Slots -> Keys]]
      /\ \A l \in Layers : \A p \in Slots : cpu'[l][p] =
            IF l \in Layers \ OnGpu /\ p = seqLen THEN Key(req, p) ELSE cpu[l][p]
  BY <1>1, CpuTokenUpdate DEF ForwardGpu, DecodeInv
<1>3. /\ gpu' \in [Layers -> [GpuSlots -> Keys]]
      /\ \A l \in Layers : \A p \in GpuSlots : gpu'[l][p] =
            IF l \in OnGpu /\ p = seqLen THEN Key(req, p) ELSE gpu[l][p]
  BY GpuTokenUpdate DEF ForwardGpu, DecodeInv
<1>4. /\ \A p \in 0 .. seqLen : p \in Slots /\ p \in GpuSlots
      /\ seqLen + 1 \in 0 .. Capacity /\ OnGpu \subseteq Layers
      /\ 0 .. (seqLen + 1) - 1 = 0 .. seqLen
  BY <1>1 DEF Slots, GpuSlots, OnGpu, Layers, DecodeInv, DecodeTypeOK
<1>5. \A l \in Layers : seen'[l] \in [0 .. seqLen -> Keys]
  <2>1. TAKE l \in Layers
  <2>2. \A p \in 0 .. seqLen : gpu'[l][p] \in Keys /\ cpu'[l][p] \in Keys
    <3>1. gpu'[l] \in [GpuSlots -> Keys] /\ cpu'[l] \in [Slots -> Keys]
      BY <1>2, <1>3
    <3> QED
      BY <1>4, <3>1
  <2>3. /\ Attended(gpu', l, seqLen + 1) = [p \in 0 .. seqLen |-> gpu'[l][p]]
        /\ Attended(cpu', l, seqLen + 1) = [p \in 0 .. seqLen |-> cpu'[l][p]]
    BY <1>4 DEF Attended
  <2>4. seen'[l] \in {Attended(gpu', l, seqLen + 1), Attended(cpu', l, seqLen + 1)}
    BY DEF ForwardGpu
  <2> QED
    BY <2>2, <2>3, <2>4
<1>6. DecodeTypeOK'
  <2>1. \A l \in Layers : \E n \in 0 .. Capacity : seen'[l] \in [0 .. n - 1 -> Keys]
    <3>1. \A l \in Layers : seen'[l] \in [0 .. (seqLen + 1) - 1 -> Keys]
      BY <1>4, <1>5
    <3> QED
      BY <1>4, <3>1
  <2> QED
    BY <1>1, <1>2, <1>3, <1>4, <2>1 DEF DecodeInv, DecodeTypeOK
<1>7. CpuHolds'
  <2>1. SUFFICES ASSUME NEW l \in Layers, NEW p \in 0 .. seqLen
                 PROVE  \/ cpu'[l][p] = Key(req, p)
                        \/ l \in OnGpu /\ prompt <= p /\ p < GpuCap
    BY <1>1 DEF CpuHolds, HasGpuKV, OnGpu
  <2>2. p \in Slots
    BY <1>1, <1>4
  <2>3. CASE p = seqLen
    BY <1>1, <1>2, <2>2, <2>3
  <2>4. CASE p # seqLen
    <3>1. p \in 0 .. seqLen - 1
      BY <1>1, <2>4
    <3> QED
      BY <1>1, <1>2, <2>2, <2>4, <3>1 DEF DecodeInv, CpuHolds
  <2> QED
    BY <2>3, <2>4
<1>8. \A l \in OnGpu : \A p \in 0 .. seqLen : gpu'[l][p] = Key(req, p)
  <2>1. TAKE l \in OnGpu
  <2>2. TAKE p \in 0 .. seqLen
  <2>3. p \in GpuSlots /\ l \in Layers /\ (p = seqLen \/ p \in 0 .. seqLen - 1)
    BY <1>1, <1>4
  <2> QED
    BY <1>1, <1>3, <2>3 DEF DecodeInv, GpuHolds
<1>9. GpuHolds'
  BY <1>1, <1>8 DEF GpuHolds, OnGpu
<1>10. ForeignOnlyAfterFallback'
  <2>1. \A l \in Layers : \A p \in DOMAIN seen'[l] : seen'[l][p] = Key(req, p)
    <3>1. TAKE l \in Layers
    <3>2. TAKE p \in DOMAIN seen'[l]
    <3>3. p \in 0 .. seqLen /\ p \in Slots
      BY <1>1, <1>4, <1>5
    <3>4. CASE l \in OnGpu
      BY <1>4, <1>8, <3>3, <3>4 DEF ForwardGpu, Attended
    <3>5. CASE l \notin OnGpu
      <4>1. seen'[l][p] = cpu'[l][p]
        BY <1>1, <3>3, <3>5 DEF ForwardGpu, Attended
      <4>2. p = seqLen \/ p \in 0 .. seqLen - 1
        BY <1>1, <3>3
      <4> QED
        BY <1>1, <1>2, <3>3, <3>5, <4>1, <4>2 DEF DecodeInv, CpuHolds
    <3> QED
      BY <3>4, <3>5
  <2> QED
    BY <1>1, <2>1 DEF ForeignOnlyAfterFallback, Foreign
<1> QED
  BY <1>1, <1>6, <1>7, <1>9, <1>10 DEF DecodeInv

\* A pass on the CPU may meet the slots that were filled on the GPU.
LEMMA ForwardCpuStep ==
    ASSUME DecodeInv, ForwardCpu
    PROVE  DecodeInv'
<1> USE DecodeAssumption
<1>1. /\ active /\ seqLen \in 0 .. Capacity - 1
      /\ HasGpuKV(1) => GpuCap < seqLen + 1
      /\ seqLen' = seqLen + 1 /\ prompt <= seqLen /\ prompt' <= seqLen'
      /\ UNCHANGED <<cuda, nGpu, gpu, active, req, prompt>>
  BY DEF ForwardCpu, MayForward, HasGpuKV, DecodeInv, DecodeTypeOK
<1>2. /\ cpu' \in [Layers -> [Slots -> Keys]]
      /\ \A l \in Layers : \A p \in Slots : cpu'[l][p] =
            IF p = seqLen THEN Key(req, p) ELSE cpu[l][p]
  BY <1>1, CpuTokenUpdate DEF ForwardCpu, DecodeInv
<1>3. /\ 0 .. seqLen - 1 \subseteq Slots /\ 0 .. seqLen \subseteq Slots
      /\ seqLen \in 0 .. Capacity /\ seqLen + 1 \in 0 .. Capacity
  BY <1>1 DEF Slots
<1>4. \A l \in Layers : seen'[l] \in [0 .. seqLen - 1 -> Keys]
  BY <1>3 DEF ForwardCpu, Attended, DecodeInv, DecodeTypeOK
<1>5. DecodeTypeOK'
  BY <1>1, <1>2, <1>3, <1>4 DEF DecodeInv, DecodeTypeOK
<1>6. CpuHolds'
  <2>1. SUFFICES ASSUME NEW l \in Layers, NEW p \in 0 .. seqLen
                 PROVE  \/ cpu'[l][p] = Key(req, p)
                        \/ HasGpuKV(1) /\ l \in OnGpu /\ prompt <= p /\ p < GpuCap
    BY <1>1 DEF CpuHolds, HasGpuKV, OnGpu
  <2>2. p \in Slots /\ (p = seqLen \/ p \in 0 .. seqLen - 1)
    BY <1>1, <1>3
  <2> QED
    BY <1>1, <1>2, <2>2 DEF DecodeInv, CpuHolds
<1>7. GpuHolds'
  BY <1>1 DEF GpuHolds, HasGpuKV
<1>8. ForeignOnlyAfterFallback'
  <2>1. SUFFICES ASSUME NEW l \in Layers, NEW p \in DOMAIN seen'[l],
                        seen'[l][p] # Key(req, p)
                 PROVE  /\ HasGpuKV(1) /\ l \in OnGpu
                        /\ prompt <= p /\ p < GpuCap
                        /\ GpuCap < seqLen + 1
    BY <1>1 DEF ForeignOnlyAfterFallback, Foreign, HasGpuKV, OnGpu
  <2>2. p \in 0 .. seqLen - 1
    BY <1>4
  <2>3. seen'[l][p] = cpu[l][p]
    BY <2>2 DEF ForwardCpu, Attended
  <2> QED
    BY <1>1, <2>1, <2>2, <2>3 DEF DecodeInv, CpuHolds
<1> QED
  BY <1>1, <1>5, <1>6, <1>7, <1>8 DEF DecodeInv

\* A pass that fails ends the generation.
LEMMA ForwardThrowsStep ==
    ASSUME DecodeInv, NEW ls, ForwardThrows(ls)
    PROVE  DecodeInv'
<1>1. /\ ~active' /\ active' \in BOOLEAN /\ seqLen < Capacity
      /\ UNCHANGED <<cuda, nGpu, seqLen, req, prompt, seen>>
  BY DEF ForwardThrows, MayForward
<1>2. cpu' \in [Layers -> [Slots -> Keys]] /\ gpu' \in [Layers -> [GpuSlots -> Keys]]
  BY <1>1, CpuTokenUpdate, GpuTokenUpdate DEF ForwardThrows, DecodeInv, DecodeTypeOK
<1>3. DecodeTypeOK'
  BY <1>1, <1>2 DEF DecodeInv, DecodeTypeOK
<1>4. ForeignOnlyAfterFallback'
  BY <1>1 DEF DecodeInv, ForeignOnlyAfterFallback, Foreign, HasGpuKV, OnGpu
<1> QED
  BY <1>1, <1>3, <1>4 DEF DecodeInv, CpuHolds, GpuHolds

\* The caches hold what the next forward pass relies on, in every reachable
\* state.
THEOREM DecodeInductive == Spec => []DecodeInv
<1>1. Init => DecodeInv
  <2>1. SUFFICES ASSUME Init PROVE DecodeInv
    OBVIOUS
  <2>2. Zero \in Keys /\ 0 \in 0 .. Capacity /\ 0 \in 0 .. MaxRequests
    BY DecodeAssumption DEF Zero, Keys
  <2>4. \A l \in Layers : DOMAIN seen[l] = {}
    BY <2>1 DEF Init, Nothing
  <2>5. \A l \in Layers : seen[l] \in [0 .. 0 - 1 -> Keys]
    BY <2>1 DEF Init, Nothing
  <2>6. DecodeTypeOK
    BY <2>1, <2>2, <2>5 DEF Init, DecodeTypeOK
  <2>7. ForeignOnlyAfterFallback
    BY <2>4 DEF ForeignOnlyAfterFallback, Foreign
  <2> QED
    BY <2>1, <2>6, <2>7 DEF Init, DecodeInv, CpuHolds, GpuHolds
<1>2. DecodeInv /\ [Next]_decodeVars => DecodeInv'
  <2>1. SUFFICES ASSUME DecodeInv, [Next]_decodeVars PROVE DecodeInv'
    OBVIOUS
  <2>2. CASE \E n \in 1 .. Capacity : Prefill(n)
    BY <2>1, <2>2, PrefillStep
  <2>3. CASE \E n \in 1 .. Capacity :
                Score(n) \/ \E k \in 0 .. NumLayers : PrefillThrows(n, 0 .. k - 1)
    BY <2>1, <2>3, NoGenerationStep
  <2>4. CASE ForwardGpu
    BY <2>1, <2>4, ForwardGpuStep
  <2>5. CASE ForwardCpu
    BY <2>1, <2>5, ForwardCpuStep
  <2>6. CASE \E k \in 0 .. NumLayers : ForwardThrows(0 .. k - 1)
    BY <2>1, <2>6, ForwardThrowsStep
  <2>7. CASE UNCHANGED decodeVars
    BY <2>1, <2>7 DEF decodeVars, kvVars, DecodeInv, DecodeTypeOK, CpuHolds, GpuHolds,
                      ForeignOnlyAfterFallback, Foreign, HasGpuKV, OnGpu
  <2> QED
    BY <2>1, <2>2, <2>3, <2>4, <2>5, <2>6, <2>7 DEF Next
<1> QED
  BY <1>1, <1>2, PTL DEF Spec

\* Every variable keeps its type; no forward pass leaves the CPU cache.
THEOREM DecodeTypeCorrect == Spec => []DecodeTypeOK
<1>1. DecodeInv => DecodeTypeOK
  BY DEF DecodeInv
<1> QED
  BY <1>1, DecodeInductive, PTL

\* A wrong key is attended to only by an offloaded layer, at a position that was
\* decoded on the GPU, once the generation has outgrown the GPU cache.
THEOREM ForeignOnlyAfterFallbackHolds == Spec => []ForeignOnlyAfterFallback
<1>1. DecodeInv => ForeignOnlyAfterFallback
  BY DEF DecodeInv
<1> QED
  BY <1>1, DecodeInductive, PTL

=============================================================================
