-------------------------- MODULE ModelFileProofs --------------------------
(***************************************************************************)
(* From a model's file to the device, and back to a file.  What is on the  *)
(* device after the offload and how much memory is left, for any number of *)
(* layers, any sizes and any memory; what comes back from an exported      *)
(* file, whole or cut short, for any plan of tensors, any number of keys   *)
(* and any alignment.                                                      *)
(***************************************************************************)
EXTENDS GpuOffload, GgufExport, TLAPS, WellFoundedInduction, SequenceTheorems

-----------------------------------------------------------------------------
(* Arithmetic and induction.                                               *)

LEMMA DivisionFacts ==
    ASSUME NEW a \in Nat, NEW b \in Nat \ {0}
    PROVE  /\ a \div b \in Nat
           /\ b * (a \div b) <= a
           /\ a < b * (a \div b) + b
  BY SMT

LEMMA ProductGrows ==
    ASSUME NEW a \in Nat, NEW b \in Nat, NEW c \in Nat
    PROVE  /\ a * b \in Nat
           /\ a * (b + 1) = a * b + a
           /\ b <= c => a * b <= a * c
  BY SMT

LEMMA ProductFacts ==
    ASSUME NEW a \in Nat, NEW b \in Nat, NEW c \in Nat
    PROVE  /\ a * b \in Nat
           /\ a * b = b * a
           /\ a * (b + 1) = a * b + a
           /\ a * (b + c) = a * b + a * c
           /\ b <= c => a * b <= a * c
  BY SMT

\* Induction from m to n, with a set for the predicate.
LEMMA IntervalInduction ==
    ASSUME NEW m \in Nat, NEW n \in Nat, NEW S, m \in S,
           \A k \in m .. n - 1 : k \in S => k + 1 \in S
    PROVE  \A k \in m .. n : k \in S
<1> DEFINE Missed == {k \in m .. n : k \notin S}
           Less == {kk \in Nat \X Nat : kk[1] < kk[2]}
<1>1. SUFFICES ASSUME Missed # {} PROVE FALSE
  OBVIOUS
<1>2. IsWellFoundedOn(Less, Nat)
  BY NatLessThanWellFounded, Zenon DEF OpToRel
<1>3. Missed \in SUBSET Nat
  OBVIOUS
<1>4. PICK k \in Missed : \A j \in Missed : ~(<<j, k>> \in Less)
  <2> HIDE DEF Less, Missed
  <2> QED
    BY <1>1, <1>2, <1>3, WFMin, Zenon
<1>5. k \in m .. n /\ k # m /\ k \notin S
  OBVIOUS
<1>6. k - 1 \in m .. n - 1 /\ k - 1 + 1 = k /\ k - 1 \in m .. n /\ k - 1 < k
  BY <1>5
<1>7. k - 1 \notin Missed
  BY <1>3, <1>4, <1>6
<1> HIDE DEF Less
<1>8. k - 1 \in S
  BY <1>6, <1>7
<1>9. PICK j \in m .. n - 1 : j = k - 1
  BY <1>6
<1>10. j + 1 \in S /\ j + 1 = k
  BY <1>6, <1>8, <1>9
<1> QED
  BY <1>5, <1>10

-----------------------------------------------------------------------------
(***************************************************************************)
(* The offload (GpuOffload).                                               *)
(***************************************************************************)

\* What a merge has touched is no longer packed.
MergedInv == \A l \in Layers, m \in Mats : <<l, m>> \in merged => types[l][m] # "I2_S"

\* Nothing is offloaded before the merge is over, and a model that is ready
\* has a backend.
StageInv ==
    /\ ldpc \in {"cache", "merge", "failed"} => nOff = 0 /\ nLayers = 0
    /\ ldpc \in {"ready", "freed"} => backend \in {"cpu", "cuda"}
    /\ ldpc = "ready" /\ backend = "cuda" => nLayers = nOff
    /\ ldpc \in {"f16", "int8", "finish"} => free > Reserve
    /\ ldpc = "ready" /\ backend = "cuda" /\ free <= Reserve => nOff = 0

\* The device holds nothing but parts of the layers and the last norm, and the
\* norms of the first nOff layers.
DeviceMemory == (UNION {LayerMemory(l) : l \in Layers}) \cup {<<"output_norm">>}

MemoryInv ==
    /\ onGpu \subseteq DeviceMemory
    /\ ldpc # "freed" => \A l \in Layers : Uploaded(l) <=> l < nOff
    /\ AllReleased

Untouched(l) == \A m \in Mats : held[l][m] = "nothing" /\ int8[l][m] = FALSE
AsItIs(l) == \A m \in Mats : held[l][m] = types[l][m] /\ int8[l][m] = FALSE
Quantised(l) ==
    \A m \in Mats : \/ types[l][m] = "F16" /\ held[l][m] = "INT8" /\ int8[l][m] = TRUE
                    \/ types[l][m] # "F16" /\ held[l][m] = "nothing" /\ int8[l][m] = FALSE

\* A layer is uploaded as it is or quantised, and the former come first.
FormatInv ==
    /\ \A l \in Layers : l >= nOff => Untouched(l)
    /\ \A l \in Layers : l < nOff => AsItIs(l) \/ Quantised(l)
    /\ ldpc = "f16" => \A l \in Layers : l < nOff => AsItIs(l)
    /\ \A k, l \in Layers : k < l /\ l < nOff /\ (\E m \in Mats : int8[k][m]) => Quantised(l)

AllF16 == \A l \in Layers, m \in Mats : types[l][m] = "F16"

\* The whole model fits in INT8.
Fitting == PlannedInt8 * N <= free - Reserve

\* A split has been planned and the offload has not failed.
Planned ==
    \/ ldpc \in {"f16", "int8", "finish"}
    \/ ldpc = "ready" /\ backend = "cuda" /\ free > Reserve

\* What a layer costs more as it is.
Extra == 7 * Elems

\* The split of a model that fits: as many layers as they are as the memory
\* that INT8 leaves allows.
PlanInv ==
    Planned /\ AllF16 /\ Fitting =>
            /\ PlannedInt8 * N + Extra * maxF16 <= free - Reserve
            /\ maxF16 < N => free - Reserve < PlannedInt8 * N + Extra * maxF16 + Extra

\* What is left of the budget.
BudgetInv ==
    Planned /\ AllF16 =>
            /\ budget <= free - Reserve - PlannedInt8 * nOff
            /\ Fitting =>
                  IF ldpc = "f16"
                  THEN /\ nOff <= maxF16
                       /\ budget = free - Reserve - PlannedInt8 * nOff - Extra * nOff
                  ELSE /\ maxF16 <= nOff
                       /\ budget = free - Reserve - PlannedInt8 * nOff - Extra * maxF16
                       /\ ldpc # "int8" => nOff = N
                       /\ \A l \in Layers : int8[l]["wq"] => maxF16 <= l

OffloadInv ==
    /\ OffloadTypeOK
    /\ MergedInv
    /\ StageInv
    /\ MemoryInv
    /\ FormatInv
    /\ PlanInv
    /\ BudgetInv

-----------------------------------------------------------------------------
(* Arithmetic.                                                             *)

\* The sizes of a matrix and of a layer.
LEMMA SizesNat ==
    /\ PlannedInt8 \in Nat
    /\ Extra \in Nat \ {0}
    /\ \A t \in Types : Bytes(t) \in Nat /\ QuantBytes(t) \in Nat
<1>1. Block \in Nat \ {0}
  BY GroupAssumption DEF Block
<1>2. Blocks(Elems) \in Nat
  <2>1. Elems + Block - 1 \in Nat
    BY <1>1, OffloadAssumption
  <2> QED
    BY <1>1, <2>1, DivisionFacts DEF Blocks
<1>3. PackedBytes(Elems) \in Nat
  <2>1. Blocks(Elems) * Group \in Nat
    BY <1>2, GroupAssumption, ProductGrows
  <2> QED
    BY <2>1 DEF PackedBytes
<1>4. \A t \in Types : Bytes(t) \in Nat
  BY <1>3, OffloadAssumption DEF Types, Bytes
<1>5. \A t \in Types : QuantBytes(t) \in Nat
  BY OffloadAssumption DEF QuantBytes
<1> QED
  BY <1>4, <1>5, OffloadAssumption DEF PlannedInt8, Extra

LEMMA LayerSizes ==
    ASSUME types \in [Layers -> [Mats -> Types]], NEW l \in Layers
    PROVE  /\ RawBytes(l) \in Nat
           /\ Int8Bytes(l) \in Nat
           /\ AllF16 => RawBytes(l) = PlannedInt8 + Extra /\ Int8Bytes(l) = PlannedInt8
<1>1. types[l]["wq"] \in Types /\ types[l]["wk"] \in Types /\ types[l]["rest"] \in Types
  BY DEF Mats
<1>2. RawBytes(l) \in Nat /\ Int8Bytes(l) \in Nat
  <2>1. /\ Bytes(types[l]["wq"]) \in Nat /\ QuantBytes(types[l]["wq"]) \in Nat
        /\ Bytes(types[l]["wk"]) \in Nat /\ QuantBytes(types[l]["wk"]) \in Nat
        /\ Bytes(types[l]["rest"]) \in Nat /\ QuantBytes(types[l]["rest"]) \in Nat
    BY <1>1, SizesNat
  <2>2. NormBytes \in Nat
    BY OffloadAssumption
  <2>3. RawBytes(l) \in Nat
    BY <2>1, <2>2 DEF RawBytes
  <2>4. Int8Bytes(l) \in Nat
    BY <2>1, <2>2 DEF Int8Bytes
  <2> QED
    BY <2>3, <2>4
<1>3. ASSUME AllF16
      PROVE  types[l]["wq"] = "F16" /\ types[l]["wk"] = "F16" /\ types[l]["rest"] = "F16"
  BY <1>3 DEF AllF16, Mats
<1>4. Bytes("F16") = 2 * Elems /\ QuantBytes("F16") = Elems
  BY DEF Bytes, QuantBytes
<1>5. ASSUME AllF16
      PROVE  RawBytes(l) = PlannedInt8 + Extra /\ Int8Bytes(l) = PlannedInt8
  BY <1>3, <1>4, <1>5, OffloadAssumption DEF RawBytes, Int8Bytes, PlannedInt8, Extra
<1> QED
  BY <1>2, <1>5

\* max_f16_layers is a number of layers, whatever layer 0 is like.
LEMMA PlannedType ==
    ASSUME types \in [Layers -> [Mats -> Types]], NEW b \in Nat
    PROVE  PlannedF16(b) \in 0 .. N
<1> DEFINE extra == RawBytes(0) - PlannedInt8
           room  == b - PlannedInt8 * N
<1>1. 0 \in Layers /\ N \in Nat
  BY OffloadAssumption DEF Layers
<1>2. extra \in Int /\ room \in Int
  BY <1>1, LayerSizes, SizesNat, OffloadAssumption
<1>3. extra > 0 /\ room >= 0 => room \div extra \in Nat
  BY <1>2, DivisionFacts
<1> HIDE DEF extra, room
<1>4. PlannedF16(b) = IF ~WeightsF16 \/ room < 0 \/ extra = 0 THEN N
                      ELSE IF extra < 0 THEN 0
                      ELSE IF room \div extra > N THEN N ELSE room \div extra
  BY DEF PlannedF16, extra, room
<1> QED
  BY <1>1, <1>2, <1>3, <1>4

\* It is the largest number that leaves room for the others in INT8.
LEMMA PlannedFits ==
    ASSUME types \in [Layers -> [Mats -> Types]], NEW b \in Nat, AllF16,
           PlannedInt8 * N <= b
    PROVE  /\ PlannedInt8 * N + Extra * PlannedF16(b) <= b
           /\ PlannedF16(b) < N => b < PlannedInt8 * N + Extra * PlannedF16(b) + Extra
<1> DEFINE room == b - PlannedInt8 * N
<1>1. 0 \in Layers /\ N \in Nat /\ WeightsF16
  BY OffloadAssumption DEF Layers, AllF16, WeightsF16, Mats
<1>2. room \in Nat /\ PlannedInt8 * N \in Nat /\ b = PlannedInt8 * N + room
  BY <1>1, SizesNat, ProductGrows
<1>3. RawBytes(0) - PlannedInt8 = Extra /\ Extra \in Nat \ {0}
  BY <1>1, LayerSizes, SizesNat
<1>4. PlannedF16(b) = IF room \div Extra > N THEN N ELSE room \div Extra
  BY <1>1, <1>2, <1>3 DEF PlannedF16
<1>5. /\ room \div Extra \in Nat
      /\ Extra * (room \div Extra) <= room
      /\ room < Extra * (room \div Extra) + Extra
  BY <1>2, <1>3, DivisionFacts
<1> DEFINE q == room \div Extra
<1>6. CASE q > N
  <2>1. Extra * N <= Extra * q /\ Extra * N \in Nat /\ Extra * q \in Nat
    BY <1>1, <1>3, <1>5, <1>6, ProductGrows
  <2>2. PlannedF16(b) = N
    BY <1>4, <1>6
  <2> HIDE DEF q, room
  <2> QED
    BY <1>1, <1>2, <1>5, <2>1, <2>2, SizesNat DEF q
<1>7. CASE ~(q > N)
  <2>1. PlannedF16(b) = q /\ Extra * q \in Nat
    BY <1>3, <1>4, <1>5, <1>7, ProductGrows
  <2> HIDE DEF room
  <2> QED
    BY <1>2, <1>3, <1>5, <2>1
<1> QED
  BY <1>6, <1>7

-----------------------------------------------------------------------------
(* One lemma for each action.                                              *)

\* Before the offload loops there is nothing to be said of the budget.
LEMMA MergeStep ==
    ASSUME OffloadInv, MergeAdapter
    PROVE  OffloadInv'
<1> DEFINE a == Head(adapters)
<1>1. a \in SUBSET (Layers \X Mats) /\ adapters' \in Seq(SUBSET (Layers \X Mats))
  BY DEF MergeAdapter, OffloadInv, OffloadTypeOK
<1>2. /\ types' \in [Layers -> [Mats -> Types]]
      /\ \A l \in Layers, m \in Mats : types'[l][m] =
            IF <<l, m>> \in a /\ types[l][m] = "I2_S" THEN "F16" ELSE types[l][m]
  BY DEF MergeAdapter, Merged, OffloadInv, OffloadTypeOK, Types
<1>3. /\ ldpc = "merge" /\ nOff = 0 /\ nLayers = 0
      /\ UNCHANGED <<ldpc, cached, backend, free, budget, maxF16, nOff, nLayers, held, int8, onGpu>>
      /\ merged' = merged \cup a
  BY DEF MergeAdapter, GpuUntouched, OffloadInv, StageInv
<1>4. OffloadTypeOK'
  BY <1>1, <1>2, <1>3 DEF OffloadInv, OffloadTypeOK
<1>5. MergedInv'
  BY <1>2, <1>3 DEF OffloadInv, MergedInv
<1>6. FormatInv'
  BY <1>3 DEF OffloadInv, FormatInv, Untouched, Layers
<1>7. MemoryInv' /\ StageInv'
  BY <1>3 DEF OffloadInv, MemoryInv, StageInv, Uploaded, DeviceMemory,
                  AllReleased
<1>8. PlanInv' /\ BudgetInv'
  BY <1>3 DEF PlanInv, BudgetInv, Planned
<1> QED
  BY <1>4, <1>5, <1>6, <1>7, <1>8 DEF OffloadInv

\* The lookup in the cache, with the adapters that the file covers or with none.
LEMMA CacheStep ==
    ASSUME OffloadInv,
           (\E l \in AdapterLists \cup {<< >>} : CacheHit(l)) \/ CacheMiss
    PROVE  OffloadInv'
<1>1. /\ ldpc = "cache" /\ ldpc' = "merge" /\ nOff = 0 /\ nLayers = 0
      /\ UNCHANGED <<backend, free, budget, maxF16, nOff, nLayers, held, int8, onGpu>>
  BY DEF CacheHit, CacheMiss, GpuUntouched, OffloadInv, StageInv
<1>2. /\ types' \in [Layers -> [Mats -> Types]] /\ cached' \in BOOLEAN
      /\ merged' \subseteq Layers \X Mats
      /\ adapters' \in Seq(SUBSET (Layers \X Mats))
      /\ MergedInv'
  <2>1. CASE CacheMiss
    BY <2>1 DEF CacheMiss, OffloadInv, OffloadTypeOK, MergedInv
  <2>2. CASE \E l \in AdapterLists \cup {<< >>} : CacheHit(l)
    <3>1. PICK l \in AdapterLists \cup {<< >>} : CacheHit(l)
      BY <2>2
    <3>2. l \in Seq(SUBSET (Layers \X Mats))
      <4>1. << >> \in Seq(SUBSET (Layers \X Mats))
        OBVIOUS
      <4> QED
        BY <3>1, <4>1, OffloadAssumption
    <3>3. merged' \subseteq Layers \X Mats
      BY <3>1, <3>2 DEF CacheHit
    <3>4. types' = Merged(merged') /\ adapters' = << >> /\ cached' = TRUE
      BY <3>1 DEF CacheHit
    <3>5. /\ types' \in [Layers -> [Mats -> Types]]
          /\ \A k \in Layers, m \in Mats : types'[k][m] =
                IF <<k, m>> \in merged' /\ types[k][m] = "I2_S" THEN "F16" ELSE types[k][m]
      BY <3>4 DEF Merged, OffloadInv, OffloadTypeOK, Types
    <3> QED
      BY <3>3, <3>4, <3>5 DEF MergedInv
  <2> QED
    BY <2>1, <2>2
<1>3. OffloadTypeOK'
  BY <1>1, <1>2 DEF OffloadInv, OffloadTypeOK, OffloadPC
<1>4. FormatInv'
  BY <1>1 DEF OffloadInv, FormatInv, Untouched, Layers
<1>5. MemoryInv' /\ StageInv'
  BY <1>1 DEF OffloadInv, MemoryInv, StageInv, Uploaded, DeviceMemory, AllReleased
<1>6. PlanInv' /\ BudgetInv'
  BY <1>1 DEF PlanInv, BudgetInv, Planned
<1> QED
  BY <1>2, <1>3, <1>4, <1>5, <1>6 DEF OffloadInv

\* A file that does not load, the CPU backend, or too little memory.
LEMMA NoOffloadStep ==
    ASSUME OffloadInv,
           FileMissing \/ UseCpu \/ \E f \in FreeVram : NoVram(f)
    PROVE  OffloadInv'
<1>1. /\ ldpc \in {"cache", "merge"} /\ nOff = 0 /\ nLayers = 0
      /\ UNCHANGED <<types, merged, cached, adapters, budget, maxF16, nOff, nLayers, held, int8, onGpu>>
      /\ free' \in Nat
      /\ \/ ldpc' = "failed" /\ backend' = backend
         \/ ldpc' = "ready" /\ backend' = "cpu"
         \/ ldpc' = "ready" /\ backend' = "cuda" /\ free' <= Reserve
  BY OffloadAssumption DEF FileMissing, UseCpu, NoVram, GpuUntouched, OffloadInv,
                           OffloadTypeOK, StageInv
<1>2. OffloadTypeOK' /\ MergedInv' /\ StageInv'
  BY <1>1 DEF OffloadInv, OffloadTypeOK, OffloadPC, MergedInv, StageInv
<1>3. MemoryInv' /\ FormatInv'
  BY <1>1 DEF OffloadInv, MemoryInv, FormatInv, Uploaded, DeviceMemory, AllReleased, Untouched,
              AsItIs, Quantised
<1>4. PlanInv' /\ BudgetInv'
  BY <1>1, OffloadAssumption DEF PlanInv, BudgetInv, Planned
<1> QED
  BY <1>2, <1>3, <1>4 DEF OffloadInv

\* The plan is made for the memory there is.
LEMMA PlanStep ==
    ASSUME OffloadInv, NEW f \in FreeVram, PlanSplit(f)
    PROVE  OffloadInv'
<1>1. /\ ldpc = "merge" /\ ldpc' = "f16" /\ nOff = 0 /\ nLayers = 0
      /\ free' = f /\ budget' = f - Reserve /\ maxF16' = PlannedF16(f - Reserve)
      /\ f - Reserve \in Nat /\ f \in Nat /\ f > Reserve
      /\ UNCHANGED <<types, merged, cached, adapters, backend, nOff, nLayers, held, int8, onGpu>>
  BY OffloadAssumption DEF PlanSplit, OffloadInv, StageInv
<1>2. types \in [Layers -> [Mats -> Types]]
  BY DEF OffloadInv, OffloadTypeOK
<1>3. maxF16' \in 0 .. N
  BY <1>1, <1>2, PlannedType
<1>4. OffloadTypeOK' /\ MergedInv' /\ StageInv'
  BY <1>1, <1>3 DEF OffloadInv, OffloadTypeOK, OffloadPC, MergedInv, StageInv
<1>5. MemoryInv' /\ FormatInv'
  BY <1>1 DEF OffloadInv, MemoryInv, FormatInv, Uploaded, DeviceMemory, AllReleased, Untouched,
              AsItIs, Quantised, Layers
<1>6. PlanInv'
  BY <1>1, <1>2, PlannedFits DEF PlanInv, Planned, AllF16, Fitting
<1>7. BudgetInv'
  <2>1. PlannedInt8 * 0 = 0 /\ Extra * 0 = 0
    BY SizesNat
  <2>2. 0 <= maxF16'
    BY <1>3
  <2> QED
    BY <1>1, <2>1, <2>2 DEF BudgetInv, Planned
<1> QED
  BY <1>4, <1>5, <1>6, <1>7 DEF OffloadInv

\* The norms of a layer are in its memory and in no other's.
LEMMA NormsApart ==
    ASSUME NEW l \in Layers, NEW k \in Layers
    PROVE  /\ <<l, "norms">> \in LayerMemory(k) <=> l = k
           /\ <<l, "norms">> # <<"output_norm">>
           /\ <<l, "norms">> # <<k, "wq">>
           /\ LayerMemory(k) \subseteq DeviceMemory
           /\ <<k, "wq">> \in LayerMemory(k)
<1>1. <<l, "norms">> \in LayerMemory(k) <=> l = k
  BY DEF LayerMemory
<1>2. <<l, "norms">> # <<"output_norm">>
  <2>1. Len(<<l, "norms">>) = 2 /\ Len(<<"output_norm">>) = 1
    OBVIOUS
  <2> QED
    BY <2>1
<1>3. <<k, "wq">> \in LayerMemory(k)
  BY DEF LayerMemory, Mats
<1> QED
  BY <1>1, <1>2, <1>3 DEF DeviceMemory

\* The budget and the plan after one more layer of equal matrices.
LEMMA OneLayerMore ==
    ASSUME NEW n \in Nat
    PROVE  /\ PlannedInt8 * n \in Nat /\ Extra * n \in Nat
           /\ PlannedInt8 * (n + 1) = PlannedInt8 * n + PlannedInt8
           /\ Extra * (n + 1) = Extra * n + Extra
  BY SizesNat, ProductGrows

\* A layer is uploaded as it is.
LEMMA RawStep ==
    ASSUME OffloadInv, OffloadRaw
    PROVE  OffloadInv'
<1>1. /\ ldpc = "f16" /\ ldpc' = "f16" /\ nOff' = nOff + 1
      /\ WeightsF16 /\ nOff < maxF16 /\ nOff \in Layers /\ nOff \in Nat
      /\ RawBytes(nOff) <= budget /\ budget' = budget - RawBytes(nOff)
      /\ UNCHANGED <<types, merged, cached, adapters, backend, free, maxF16, nLayers, int8>>
      /\ held' = [held EXCEPT ![nOff] = types[nOff]]
      /\ onGpu' = onGpu \cup LayerMemory(nOff)
  BY OffloadAssumption DEF OffloadRaw, FitsRaw, OffloadInv, OffloadTypeOK, Layers
<1>2. /\ types \in [Layers -> [Mats -> Types]]
      /\ held' \in [Layers -> [Mats -> Types \cup {"INT8", "nothing"}]]
      /\ \A l \in Layers : held'[l] = IF l = nOff THEN types[nOff] ELSE held[l]
  <2>1. types[nOff] \in [Mats -> Types \cup {"INT8", "nothing"}]
    BY <1>1 DEF OffloadInv, OffloadTypeOK
  <2> QED
    BY <1>1, <2>1 DEF OffloadInv, OffloadTypeOK
<1>3. RawBytes(nOff) \in Nat
  BY <1>1, <1>2, LayerSizes
<1>4. OffloadTypeOK' /\ MergedInv' /\ StageInv'
  <2>1. nOff' \in 0 .. N /\ budget' \in Nat
    BY <1>1, <1>3, OffloadAssumption DEF OffloadInv, OffloadTypeOK, Layers
  <2>2. OffloadTypeOK'
    BY <1>1, <1>2, <2>1 DEF OffloadInv, OffloadTypeOK
  <2> QED
    BY <1>1, <2>2 DEF OffloadInv, MergedInv, StageInv
<1>5. MemoryInv'
  <2>1. onGpu' \subseteq DeviceMemory'
    BY <1>1, NormsApart DEF OffloadInv, MemoryInv, DeviceMemory
  <2>2. \A l \in Layers : Uploaded(l)' <=> l < nOff'
    <3>1. SUFFICES ASSUME NEW l \in Layers PROVE Uploaded(l)' <=> l < nOff'
      OBVIOUS
    <3>2. Uploaded(l)' <=> Uploaded(l) \/ l = nOff
      BY <1>1, NormsApart DEF Uploaded
    <3>3. l < nOff' <=> l < nOff \/ l = nOff
      BY <1>1 DEF Layers
    <3> QED
      BY <1>1, <3>2, <3>3 DEF OffloadInv, MemoryInv
  <2> QED
    BY <1>1, <2>1, <2>2 DEF MemoryInv, AllReleased
<1>6. FormatInv'
  <2>1. \A l \in Layers : l >= nOff' => Untouched(l)'
    BY <1>1, <1>2 DEF OffloadInv, FormatInv, Untouched, Layers
  <2>2. \A l \in Layers : l < nOff' => AsItIs(l)'
    <3>1. SUFFICES ASSUME NEW l \in Layers, l < nOff' PROVE AsItIs(l)'
      OBVIOUS
    <3>2. CASE l = nOff
      BY <1>1, <1>2, <3>2 DEF OffloadInv, FormatInv, Untouched, AsItIs, Layers
    <3>3. CASE l # nOff
      <4>1. l < nOff
        BY <1>1, <3>1, <3>3 DEF Layers
      <4> QED
        BY <1>1, <1>2, <3>3, <4>1 DEF OffloadInv, FormatInv, AsItIs
    <3> QED
      BY <3>2, <3>3
  <2>3. \A k, l \in Layers : k < l /\ l < nOff' => \A m \in Mats : int8'[k][m] = FALSE
    <3>1. \A k, l \in Layers : k < l /\ l < nOff' => k < nOff'
      BY <1>1 DEF Layers
    <3> QED
      BY <2>2, <3>1 DEF AsItIs
  <2> QED
    BY <2>1, <2>2, <2>3 DEF FormatInv
<1>7. PlanInv'
  BY <1>1 DEF OffloadInv, PlanInv, Planned, AllF16, Fitting
<1>8. BudgetInv'
  <2>1. SUFFICES ASSUME AllF16
                 PROVE  /\ budget' <= free - Reserve - PlannedInt8 * (nOff + 1)
                        /\ Fitting => /\ nOff + 1 <= maxF16
                                      /\ budget' = free - Reserve - PlannedInt8 * (nOff + 1)
                                                     - Extra * (nOff + 1)
    BY <1>1 DEF BudgetInv, Planned, AllF16, Fitting
  <2>2. /\ budget' = budget - PlannedInt8 - Extra
        /\ budget \in Nat /\ free \in Nat /\ maxF16 \in Nat
        /\ PlannedInt8 \in Nat /\ Extra \in Nat /\ Reserve \in Nat
    BY <1>1, <1>2, <2>1, LayerSizes, SizesNat, OffloadAssumption DEF OffloadInv, OffloadTypeOK
  <2>3. /\ budget <= free - Reserve - PlannedInt8 * nOff
        /\ Fitting => budget = free - Reserve - PlannedInt8 * nOff - Extra * nOff
    BY <1>1, <2>1 DEF OffloadInv, BudgetInv, Planned
  <2> QED
    BY <1>1, <2>2, <2>3, OneLayerMore
<1> QED
  BY <1>4, <1>5, <1>6, <1>7, <1>8 DEF OffloadInv

\* No further layer fits as it is: of a model that fits in INT8, all that were
\* planned.
LEMMA EndRawStep ==
    ASSUME OffloadInv, EndRaw
    PROVE  OffloadInv'
<1>1. /\ ldpc = "f16" /\ ldpc' = "int8" /\ ~FitsRaw
      /\ UNCHANGED <<types, merged, cached, adapters, backend, free, budget, maxF16, nOff,
                     nLayers, held, int8, onGpu>>
  BY DEF EndRaw, GpuUntouched
<1>2. OffloadTypeOK' /\ MergedInv' /\ StageInv'
  BY <1>1 DEF OffloadInv, OffloadTypeOK, OffloadPC, MergedInv, StageInv
<1>3. MemoryInv' /\ FormatInv'
  BY <1>1 DEF OffloadInv, MemoryInv, FormatInv, Uploaded, DeviceMemory, AllReleased, Untouched,
              AsItIs, Quantised
<1>4. PlanInv'
  BY <1>1 DEF OffloadInv, PlanInv, Planned, AllF16, Fitting
<1>5. BudgetInv'
  <2>1. /\ nOff \in Nat /\ nOff <= N /\ maxF16 \in Nat /\ maxF16 <= N /\ N \in Nat
        /\ budget \in Nat /\ free \in Nat /\ Reserve \in Nat
        /\ PlannedInt8 \in Nat /\ Extra \in Nat
    BY OffloadAssumption, SizesNat DEF OffloadInv, OffloadTypeOK
  <2>2. SUFFICES ASSUME AllF16, Fitting
                 PROVE  maxF16 = nOff /\ \A l \in Layers : int8[l]["wq"] => maxF16 <= l
    BY <1>1, <2>1 DEF OffloadInv, BudgetInv, Planned, AllF16, Fitting
  <2>3. /\ nOff <= maxF16
        /\ budget = free - Reserve - PlannedInt8 * nOff - Extra * nOff
        /\ PlannedInt8 * N + Extra * maxF16 <= free - Reserve
    BY <1>1, <2>2 DEF OffloadInv, BudgetInv, PlanInv, Planned
  <2>4. ASSUME nOff < maxF16 PROVE FALSE
    <3>1. nOff \in Layers /\ WeightsF16 /\ nOff < N
      BY <2>1, <2>2, <2>4, OffloadAssumption DEF Layers, AllF16, WeightsF16, Mats
    <3>2. RawBytes(nOff) = PlannedInt8 + Extra
      BY <2>2, <3>1, LayerSizes DEF OffloadInv, OffloadTypeOK
    <3>3. PlannedInt8 * (nOff + 1) <= PlannedInt8 * N /\ Extra * (nOff + 1) <= Extra * maxF16
      <4>1. nOff + 1 \in Nat /\ nOff + 1 <= N /\ nOff + 1 <= maxF16
        BY <2>1, <2>4, <3>1
      <4> QED
        BY <2>1, <4>1, ProductGrows
    <3>4. PlannedInt8 * N \in Nat /\ Extra * maxF16 \in Nat
      BY <2>1, ProductGrows
    <3>5. RawBytes(nOff) <= budget
      BY <2>1, <2>3, <3>2, <3>3, <3>4, OneLayerMore
    <3> QED
      BY <1>1, <2>4, <3>1, <3>5 DEF FitsRaw
  <2>5. \A l \in Layers : int8[l]["wq"] => nOff <= l
    <3>1. \A l \in Layers : l < nOff => int8[l]["wq"] = FALSE
      BY <1>1 DEF OffloadInv, FormatInv, AsItIs, Mats
    <3> QED
      BY <2>1, <3>1 DEF Layers
  <2>6. nOff <= maxF16
    BY <2>3
  <2>7. maxF16 = nOff
    BY ONLY <2>1, <2>4, <2>6
  <2> QED
    BY ONLY <2>5, <2>7
<1> QED
  BY <1>2, <1>3, <1>4, <1>5 DEF OffloadInv

\* A layer is quantised, or what of it can be.
LEMMA Int8Step ==
    ASSUME OffloadInv, OffloadInt8
    PROVE  OffloadInv'
<1> DEFINE F16Mats == {m \in Mats : types[nOff][m] = "F16"}
<1>1. /\ ldpc = "int8" /\ ldpc' = "int8" /\ nOff' = nOff + 1
      /\ nOff \in Layers /\ nOff \in Nat
      /\ Int8Bytes(nOff) <= budget /\ budget' = budget - Int8Bytes(nOff)
      /\ UNCHANGED <<types, merged, cached, adapters, backend, free, maxF16, nLayers>>
      /\ held' = [held EXCEPT ![nOff] =
                     [m \in Mats |-> IF m \in F16Mats THEN "INT8" ELSE held[nOff][m]]]
      /\ int8' = [int8 EXCEPT ![nOff] = [m \in Mats |-> m \in F16Mats]]
      /\ onGpu' = onGpu \cup ({nOff} \X (F16Mats \cup {"norms"}))
  BY OffloadAssumption DEF OffloadInt8, FitsInt8, OffloadInv, OffloadTypeOK, Layers
<1>2. types \in [Layers -> [Mats -> Types]] /\ Untouched(nOff)
  BY <1>1 DEF OffloadInv, OffloadTypeOK, FormatInv
<1>3. /\ held' \in [Layers -> [Mats -> Types \cup {"INT8", "nothing"}]]
      /\ \A l \in Layers : l # nOff => held'[l] = held[l]
      /\ \A m \in Mats : held'[nOff][m] = IF types[nOff][m] = "F16" THEN "INT8" ELSE "nothing"
  <2>1. [m \in Mats |-> IF m \in F16Mats THEN "INT8" ELSE held[nOff][m]]
            \in [Mats -> Types \cup {"INT8", "nothing"}]
    BY <1>2 DEF Untouched
  <2>2. held \in [Layers -> [Mats -> Types \cup {"INT8", "nothing"}]]
    BY DEF OffloadInv, OffloadTypeOK
  <2> QED
    BY <1>1, <1>2, <2>1, <2>2 DEF Untouched
<1>4. /\ int8' \in [Layers -> [Mats -> BOOLEAN]]
      /\ \A l \in Layers : l # nOff => int8'[l] = int8[l]
      /\ \A m \in Mats : int8'[nOff][m] = (types[nOff][m] = "F16")
  <2>1. [m \in Mats |-> m \in F16Mats] \in [Mats -> BOOLEAN]
    OBVIOUS
  <2>2. int8 \in [Layers -> [Mats -> BOOLEAN]]
    BY DEF OffloadInv, OffloadTypeOK
  <2> QED
    BY <1>1, <2>1, <2>2
<1>5. Int8Bytes(nOff) \in Nat
  BY <1>1, <1>2, LayerSizes
<1>6. OffloadTypeOK' /\ MergedInv' /\ StageInv'
  <2>1. nOff' \in 0 .. N /\ budget' \in Nat
    BY <1>1, <1>5, OffloadAssumption DEF OffloadInv, OffloadTypeOK, Layers
  <2>2. OffloadTypeOK'
    BY <1>1, <1>3, <1>4, <2>1 DEF OffloadInv, OffloadTypeOK
  <2> QED
    BY <1>1, <2>2 DEF OffloadInv, MergedInv, StageInv
<1>7. MemoryInv'
  <2>1. {nOff} \X (F16Mats \cup {"norms"}) \subseteq LayerMemory(nOff)
    BY DEF LayerMemory
  <2>2. onGpu' \subseteq DeviceMemory'
    BY <1>1, <2>1, NormsApart DEF OffloadInv, MemoryInv, DeviceMemory
  <2>3. \A l \in Layers : Uploaded(l)' <=> l < nOff'
    <3>1. SUFFICES ASSUME NEW l \in Layers PROVE Uploaded(l)' <=> l < nOff'
      OBVIOUS
    <3>2. Uploaded(l)' <=> Uploaded(l) \/ l = nOff
      BY <1>1 DEF Uploaded
    <3>3. l < nOff' <=> l < nOff \/ l = nOff
      BY <1>1 DEF Layers
    <3> QED
      BY <1>1, <3>2, <3>3 DEF OffloadInv, MemoryInv
  <2> QED
    BY <1>1, <2>2, <2>3 DEF MemoryInv, AllReleased
<1>8. FormatInv'
  <2>1. \A l \in Layers : l >= nOff' => Untouched(l)'
    BY <1>1, <1>3, <1>4 DEF OffloadInv, FormatInv, Untouched, Layers
  <2>2. \A l \in Layers : l = nOff => Quantised(l)'
    <3>1. \A m \in Mats : /\ types'[nOff][m] = types[nOff][m]
                          /\ types[nOff][m] = "F16" => held'[nOff][m] = "INT8" /\ int8'[nOff][m] = TRUE
                          /\ types[nOff][m] # "F16" => held'[nOff][m] = "nothing" /\ int8'[nOff][m] = FALSE
      BY <1>1, <1>3, <1>4
    <3> QED
      BY <3>1 DEF Quantised
  <2>3. \A l \in Layers : l < nOff => /\ AsItIs(l) => AsItIs(l)'
                                      /\ Quantised(l) => Quantised(l)'
                                      /\ int8'[l] = int8[l]
    BY <1>1, <1>3, <1>4 DEF AsItIs, Quantised, Layers
  <2>4. \A l \in Layers : l < nOff' => l < nOff \/ l = nOff
    BY <1>1 DEF Layers
  <2>5. \A l \in Layers : l < nOff' => AsItIs(l)' \/ Quantised(l)'
    BY <2>2, <2>3, <2>4 DEF OffloadInv, FormatInv
  <2>6. ASSUME NEW k \in Layers, NEW l \in Layers, k < l, l < nOff',
               \E m \in Mats : int8'[k][m]
        PROVE  Quantised(l)'
    <3>1. CASE l = nOff
      BY <2>2, <3>1
    <3>2. CASE l < nOff
      <4>1. k < nOff
        BY <1>1, <2>6, <3>2 DEF Layers
      <4> QED
        BY <2>3, <2>6, <3>2, <4>1 DEF OffloadInv, FormatInv
    <3> QED
      BY <2>4, <2>6, <3>1, <3>2
  <2> QED
    BY <1>1, <2>1, <2>5, <2>6 DEF FormatInv
<1>9. PlanInv'
  BY <1>1 DEF OffloadInv, PlanInv, Planned, AllF16, Fitting
<1>10. BudgetInv'
  <2>1. SUFFICES ASSUME AllF16
                 PROVE  /\ budget' <= free - Reserve - PlannedInt8 * (nOff + 1)
                        /\ Fitting => /\ maxF16 <= nOff + 1
                                      /\ budget' = free - Reserve - PlannedInt8 * (nOff + 1)
                                                     - Extra * maxF16
                                      /\ \A l \in Layers : int8'[l]["wq"] => maxF16 <= l
    BY <1>1 DEF BudgetInv, Planned, AllF16, Fitting
  <2>2. /\ budget' = budget - PlannedInt8
        /\ budget \in Nat /\ free \in Nat /\ maxF16 \in Nat
        /\ PlannedInt8 \in Nat /\ Extra * maxF16 \in Nat /\ Reserve \in Nat
    <3>1. budget' = budget - PlannedInt8
      BY <1>1, <1>2, <2>1, LayerSizes
    <3>2. maxF16 \in Nat /\ budget \in Nat /\ free \in Nat
      BY OffloadAssumption DEF OffloadInv, OffloadTypeOK
    <3> QED
      BY <3>1, <3>2, SizesNat, ProductGrows, OffloadAssumption
  <2>3. /\ budget <= free - Reserve - PlannedInt8 * nOff
        /\ Fitting => /\ maxF16 <= nOff
                      /\ budget = free - Reserve - PlannedInt8 * nOff - Extra * maxF16
                      /\ \A l \in Layers : int8[l]["wq"] => maxF16 <= l
    BY <1>1, <2>1 DEF OffloadInv, BudgetInv, Planned
  <2>4. Fitting => \A l \in Layers : int8'[l]["wq"] => maxF16 <= l
    BY <1>4, <2>3
  <2>5. PlannedInt8 * (nOff + 1) = PlannedInt8 * nOff + PlannedInt8 /\ PlannedInt8 * nOff \in Nat
    BY <1>1, OneLayerMore
  <2>6. budget' <= free - Reserve - PlannedInt8 * (nOff + 1)
    BY <2>2, <2>3, <2>5
  <2>7. Fitting => /\ maxF16 <= nOff + 1
                   /\ budget' = free - Reserve - PlannedInt8 * (nOff + 1) - Extra * maxF16
    BY <1>1, <2>2, <2>3, <2>5
  <2> QED
    BY <2>4, <2>6, <2>7
<1> QED
  BY <1>6, <1>7, <1>8, <1>9, <1>10 DEF OffloadInv

\* No further layer fits in INT8: of a model that fits in INT8, all have.
LEMMA EndInt8Step ==
    ASSUME OffloadInv, EndInt8
    PROVE  OffloadInv'
<1>1. /\ ldpc = "int8" /\ ldpc' = "finish" /\ ~FitsInt8
      /\ UNCHANGED <<types, merged, cached, adapters, backend, free, budget, maxF16, nOff,
                     nLayers, held, int8, onGpu>>
  BY DEF EndInt8, GpuUntouched
<1>2. OffloadTypeOK' /\ MergedInv' /\ StageInv'
  BY <1>1 DEF OffloadInv, OffloadTypeOK, OffloadPC, MergedInv, StageInv
<1>3. MemoryInv' /\ FormatInv'
  BY <1>1 DEF OffloadInv, MemoryInv, FormatInv, Uploaded, DeviceMemory, AllReleased,
              Untouched, AsItIs, Quantised
<1>4. PlanInv'
  BY <1>1 DEF OffloadInv, PlanInv, Planned, AllF16, Fitting
<1>5. BudgetInv'
  <2>1. /\ nOff \in Nat /\ nOff <= N /\ maxF16 \in Nat /\ N \in Nat
        /\ budget \in Nat /\ free \in Nat /\ Reserve \in Nat
        /\ PlannedInt8 \in Nat /\ Extra \in Nat
    BY OffloadAssumption, SizesNat DEF OffloadInv, OffloadTypeOK
  <2>2. SUFFICES ASSUME AllF16, Fitting
                 PROVE  nOff = N
    BY <1>1 DEF OffloadInv, BudgetInv, Planned, AllF16, Fitting
  <2>3. /\ budget = free - Reserve - PlannedInt8 * nOff - Extra * maxF16
        /\ PlannedInt8 * N + Extra * maxF16 <= free - Reserve
    BY <1>1, <2>2 DEF OffloadInv, BudgetInv, PlanInv, Planned
  <2>4. ASSUME nOff < N PROVE FALSE
    <3>1. nOff \in Layers /\ WeightsF16
      BY <2>1, <2>2, <2>4, OffloadAssumption DEF Layers, AllF16, WeightsF16, Mats
    <3>2. Int8Bytes(nOff) = PlannedInt8
      BY <2>2, <3>1, LayerSizes DEF OffloadInv, OffloadTypeOK
    <3>3. PlannedInt8 * (nOff + 1) <= PlannedInt8 * N
      <4>1. nOff + 1 \in Nat /\ nOff + 1 <= N
        BY <2>1, <2>4
      <4> QED
        BY <2>1, <4>1, ProductGrows
    <3>4. PlannedInt8 * N \in Nat /\ Extra * maxF16 \in Nat
      BY <2>1, ProductGrows
    <3>5. Int8Bytes(nOff) <= budget
      BY <2>1, <2>3, <3>2, <3>3, <3>4, OneLayerMore
    <3> QED
      BY <1>1, <2>4, <3>1, <3>5 DEF FitsInt8
  <2> QED
    BY <2>1, <2>4
<1> QED
  BY <1>2, <1>3, <1>4, <1>5 DEF OffloadInv

\* The offload is over.
LEMMA FinishStep ==
    ASSUME OffloadInv, Finish
    PROVE  OffloadInv'
<1>1. /\ ldpc = "finish" /\ ldpc' = "ready" /\ backend' = "cuda" /\ nLayers' = nOff
      /\ UNCHANGED <<types, merged, cached, adapters, free, budget, maxF16, nOff, held, int8>>
      /\ onGpu \subseteq onGpu' /\ onGpu' \subseteq onGpu \cup {<<"output_norm">>}
  BY DEF Finish
<1>2. free > Reserve /\ free \in Nat /\ Reserve \in Nat
  BY <1>1, OffloadAssumption DEF OffloadInv, OffloadTypeOK, StageInv
<1>3. OffloadTypeOK' /\ MergedInv' /\ StageInv'
  BY <1>1, <1>2 DEF OffloadInv, OffloadTypeOK, OffloadPC, MergedInv, StageInv
<1>4. MemoryInv'
  <2>1. \A l \in Layers : Uploaded(l)' <=> Uploaded(l)
    BY <1>1, NormsApart DEF Uploaded
  <2> QED
    BY <1>1, <2>1 DEF OffloadInv, MemoryInv, DeviceMemory, AllReleased
<1>5. FormatInv'
  BY <1>1 DEF OffloadInv, FormatInv, Untouched, AsItIs, Quantised
<1>6. PlanInv' /\ BudgetInv'
  BY <1>1 DEF OffloadInv, PlanInv, BudgetInv, Planned, AllF16, Fitting
<1> QED
  BY <1>3, <1>4, <1>5, <1>6 DEF OffloadInv

\* The offload fails: what is on the device stays there, unused.
LEMMA CudaThrowsStep ==
    ASSUME OffloadInv, CudaThrows
    PROVE  OffloadInv'
<1>1. /\ ldpc' = "ready" /\ backend' = "cpu" /\ nLayers' \in {nOff, nLayers}
      /\ UNCHANGED <<types, merged, cached, adapters, free, budget, maxF16, nOff, held, int8>>
      /\ ldpc # "freed"
  BY DEF CudaThrows
<1>2. onGpu' \in {onGpu, onGpu \cup {<<nOff, "wq">>}, onGpu \cup {<<"output_norm">>}}
  BY DEF CudaThrows
<1>3. onGpu' = onGpu \cup {<<nOff, "wq">>} => nOff \in Layers \/ onGpu' = onGpu
                                                \/ onGpu' = onGpu \cup {<<"output_norm">>}
  BY OffloadAssumption DEF CudaThrows, FitsRaw, FitsInt8, Layers, OffloadInv, OffloadTypeOK
<1>4. OffloadTypeOK' /\ MergedInv' /\ StageInv'
  BY <1>1 DEF OffloadInv, OffloadTypeOK, OffloadPC, MergedInv, StageInv
<1>5. MemoryInv'
  <2>1. onGpu' \subseteq DeviceMemory'
    <3>1. onGpu \subseteq DeviceMemory /\ <<"output_norm">> \in DeviceMemory
          /\ DeviceMemory' = DeviceMemory
      BY DEF OffloadInv, MemoryInv, DeviceMemory
    <3>2. nOff \in Layers => <<nOff, "wq">> \in DeviceMemory
      BY NormsApart
    <3> QED
      BY <1>2, <1>3, <3>1, <3>2
  <2>2. \A l \in Layers : Uploaded(l)' <=> Uploaded(l)
    BY <1>2, <1>3, NormsApart DEF Uploaded
  <2> QED
    BY <1>1, <2>1, <2>2 DEF OffloadInv, MemoryInv, AllReleased
<1>6. FormatInv'
  BY <1>1 DEF OffloadInv, FormatInv, Untouched, AsItIs, Quantised
<1>7. PlanInv' /\ BudgetInv'
  BY <1>1 DEF PlanInv, BudgetInv, Planned
<1> QED
  BY <1>4, <1>5, <1>6, <1>7 DEF OffloadInv

\* All the device has is among what the destructor gives back.
LEMMA DestroyStep ==
    ASSUME OffloadInv, DestroyModel
    PROVE  OffloadInv'
<1>1. /\ ldpc = "ready" /\ ldpc' = "freed"
      /\ UNCHANGED <<types, merged, cached, adapters, backend, free, budget, maxF16, nOff,
                     nLayers, held, int8>>
      /\ onGpu' = IF backend = "cuda" THEN onGpu \ DeviceMemory ELSE onGpu
  BY DEF DestroyModel, DeviceMemory
<1>2. OffloadTypeOK' /\ MergedInv' /\ StageInv'
  BY <1>1 DEF OffloadInv, OffloadTypeOK, OffloadPC, MergedInv, StageInv
<1>3. MemoryInv'
  <2>1. onGpu' \subseteq DeviceMemory'
    BY <1>1 DEF OffloadInv, MemoryInv, DeviceMemory
  <2>2. backend \in {"cpu", "cuda"} /\ onGpu \subseteq DeviceMemory
    BY <1>1 DEF OffloadInv, StageInv, MemoryInv
  <2> QED
    BY <1>1, <2>1, <2>2 DEF MemoryInv, AllReleased
<1>4. FormatInv'
  BY <1>1 DEF OffloadInv, FormatInv, Untouched, AsItIs, Quantised
<1>5. PlanInv' /\ BudgetInv'
  BY <1>1 DEF PlanInv, BudgetInv, Planned
<1> QED
  BY <1>2, <1>3, <1>4, <1>5 DEF OffloadInv

-----------------------------------------------------------------------------
(* The theorems.                                                           *)

\* Whatever layers, adapters and memory there are, and wherever a CUDA call
\* fails, the offload keeps its invariant.
THEOREM OffloadInductive == OffloadSpec => []OffloadInv
<1>1. OffloadInit => OffloadInv
  <2> SUFFICES ASSUME OffloadInit PROVE OffloadInv
    OBVIOUS
  <2>1. \A l \in Layers, m \in Mats : held[l][m] = "nothing" /\ int8[l][m] = FALSE
    BY DEF OffloadInit, NoMatrix
  <2>2. OffloadTypeOK
    <3>1. /\ held \in [Layers -> [Mats -> Types \cup {"INT8", "nothing"}]]
          /\ int8 \in [Layers -> [Mats -> BOOLEAN]]
      BY DEF OffloadInit, NoMatrix
    <3>2. types \in [Layers -> [Mats -> Types]] /\ adapters \in Seq(SUBSET (Layers \X Mats))
      BY OffloadAssumption DEF OffloadInit
    <3>3. cached \in BOOLEAN
      BY Zenon DEF OffloadInit
    <3> QED
      BY <3>1, <3>2, <3>3, OffloadAssumption DEF OffloadInit, OffloadTypeOK, OffloadPC, NoMatrix
  <2>3. MergedInv /\ StageInv /\ PlanInv /\ BudgetInv
    BY DEF OffloadInit, MergedInv, StageInv, PlanInv, BudgetInv, Planned
  <2>4. MemoryInv
    BY DEF OffloadInit, MemoryInv, Uploaded, AllReleased, Layers
  <2>5. FormatInv
    <3>1. nOff = 0 /\ \A l \in Layers : ~(l < 0) /\ Untouched(l)
      BY <2>1 DEF OffloadInit, Untouched, Layers, NoMatrix
    <3> QED
      BY <3>1 DEF FormatInv
  <2> QED
    BY <2>2, <2>3, <2>4, <2>5 DEF OffloadInv
<1>2. OffloadInv /\ [OffloadNext]_offloadVars => OffloadInv'
  <2> SUFFICES ASSUME OffloadInv, [OffloadNext]_offloadVars PROVE OffloadInv'
    OBVIOUS
  <2>1. CASE UNCHANGED offloadVars
    <3>1. OffloadTypeOK' /\ MergedInv' /\ StageInv'
      BY <2>1 DEF offloadVars, OffloadInv, OffloadTypeOK, MergedInv, StageInv
    <3>2. MemoryInv' /\ FormatInv'
      BY <2>1 DEF offloadVars, OffloadInv, MemoryInv, FormatInv, Uploaded, DeviceMemory,
                  AllReleased, Untouched, AsItIs, Quantised
    <3>3. PlanInv' /\ BudgetInv'
      BY <2>1 DEF offloadVars, OffloadInv, PlanInv, BudgetInv, Planned, AllF16, Fitting
    <3> QED
      BY <3>1, <3>2, <3>3 DEF OffloadInv
  <2>2. CASE MergeAdapter
    BY <2>2, MergeStep
  <2>3. CASE FileMissing \/ UseCpu \/ \E f \in FreeVram : NoVram(f)
    BY <2>3, NoOffloadStep
  <2>4. CASE \E f \in FreeVram : PlanSplit(f)
    BY <2>4, PlanStep
  <2>5. CASE OffloadRaw
    BY <2>5, RawStep
  <2>6. CASE EndRaw
    BY <2>6, EndRawStep
  <2>7. CASE OffloadInt8
    BY <2>7, Int8Step
  <2>8. CASE EndInt8
    BY <2>8, EndInt8Step
  <2>9. CASE Finish
    BY <2>9, FinishStep
  <2>10. CASE CudaThrows
    BY <2>10, CudaThrowsStep
  <2>11. CASE DestroyModel
    BY <2>11, DestroyStep
  <2>12. CASE (\E l \in AdapterLists \cup {<< >>} : CacheHit(l)) \/ CacheMiss
    BY <2>12, CacheStep
  <2> QED
    BY <2>1, <2>2, <2>3, <2>4, <2>5, <2>6, <2>7, <2>8, <2>9, <2>10, <2>11, <2>12
       DEF OffloadNext
<1> QED
  BY <1>1, <1>2, PTL DEF OffloadSpec

\* Every variable of the offload keeps its type; the budget of the code, which
\* is unsigned, never wraps.
THEOREM OffloadTypeCorrect == OffloadSpec => []OffloadTypeOK
<1>1. OffloadInv => OffloadTypeOK
  BY DEF OffloadInv
<1> QED
  BY <1>1, OffloadInductive, PTL

\* The layers on the GPU are the leading ones, and no F16 layer follows one in
\* INT8: what forward_gpu relies on.
THEOREM LeadingLayersHolds == OffloadSpec => []LeadingLayers
<1>1. OffloadInv => LeadingLayers
  <2> SUFFICES ASSUME OffloadInv PROVE LeadingLayers
    OBVIOUS
  <2>1. \A l \in Layers : ldpc \in OffloadPC \ {"freed"} => (Uploaded(l) <=> l < nOff)
    BY DEF OffloadInv, MemoryInv
  <2>2. \A k, l \in Layers : k < l /\ l < nOff /\ (\E m \in Mats : int8[k][m])
                               => ~ (\E m \in Mats : held[l][m] = "F16")
    BY DEF OffloadInv, FormatInv, Quantised
  <2> QED
    BY <2>1, <2>2 DEF LeadingLayers, OffloadInv, StageInv
<1> QED
  BY <1>1, OffloadInductive, PTL

\* What the adapters have merged into and what was F16 is all F16.
LEMMA UniformIsF16 ==
    ASSUME OffloadInv, Uniform
    PROVE  AllF16
<1>1. \A l \in Layers, m \in Mats : types[l][m] \in Types
  BY DEF OffloadInv, OffloadTypeOK
<1> QED
  BY <1>1 DEF OffloadInv, MergedInv, Uniform, AllF16, Types

\* The kernels read every layer on the GPU as what it is when the model's
\* matrices are all F16, or covered by adapters.
THEOREM F16ReadAsStoredHolds == OffloadSpec => []F16ReadAsStored
<1>1. OffloadInv => F16ReadAsStored
  <2> SUFFICES ASSUME OffloadInv, ldpc = "ready", backend = "cuda", Uniform,
                      NEW l \in 0 .. nLayers - 1, NEW m \in Mats
               PROVE  held[l][m] = ReadAs(l, m)
    BY DEF F16ReadAsStored
  <2>1. l \in Layers /\ l < nOff
    BY OffloadAssumption DEF OffloadInv, OffloadTypeOK, StageInv, Layers
  <2>2. types[l][m] = "F16"
    BY <2>1, UniformIsF16 DEF AllF16
  <2>3. CASE AsItIs(l)
    BY <2>2, <2>3 DEF AsItIs, ReadAs
  <2>4. CASE Quantised(l)
    BY <2>2, <2>4 DEF Quantised, ReadAs
  <2> QED
    BY <2>1, <2>3, <2>4 DEF OffloadInv, FormatInv
<1> QED
  BY <1>1, OffloadInductive, PTL

\* ~Model leaves nothing on the device, unless the CPU backend has taken over.
THEOREM AllReleasedHolds == OffloadSpec => []AllReleased
<1>1. OffloadInv => AllReleased
  BY DEF OffloadInv, MemoryInv
<1> QED
  BY <1>1, OffloadInductive, PTL

\* The split never keeps a layer off the GPU: a uniform model that fits in INT8
\* is offloaded entirely.
THEOREM AllFitIfPossibleHolds == OffloadSpec => []AllFitIfPossible
<1>1. OffloadInv => AllFitIfPossible
  <2> SUFFICES ASSUME OffloadInv, ldpc = "ready", backend = "cuda", Uniform, free > Reserve,
                      PlannedInt8 * N <= free - Reserve
               PROVE  nLayers = N
    BY DEF AllFitIfPossible
  <2>1. AllF16 /\ Fitting /\ Planned
    BY UniformIsF16 DEF Fitting, Planned
  <2> QED
    BY <2>1 DEF OffloadInv, StageInv, BudgetInv
<1> QED
  BY <1>1, OffloadInductive, PTL

\* The split is the best one: when a layer of a uniform model is in INT8, the
\* memory that is left is too little to have kept it F16.
THEOREM NoRoomForF16Holds == OffloadSpec => []NoRoomForF16
<1>1. OffloadInv => NoRoomForF16
  <2> SUFFICES ASSUME OffloadInv, ldpc = "ready", backend = "cuda", Uniform, nLayers = N,
                      NEW l \in Layers, int8[l]["wq"]
               PROVE  budget < Extra
    BY DEF NoRoomForF16, Extra
  <2>1. AllF16 /\ nOff = N
    BY UniformIsF16 DEF OffloadInv, StageInv
  <2>2. /\ budget \in Nat /\ free \in Nat /\ Reserve \in Nat /\ maxF16 \in Nat
        /\ N \in Nat \ {0} /\ l < N /\ l \in Nat
        /\ PlannedInt8 * N \in Nat /\ Extra * maxF16 \in Nat /\ Extra \in Nat
    <3>1. N \in Nat \ {0} /\ maxF16 \in Nat
      BY OffloadAssumption DEF OffloadInv, OffloadTypeOK
    <3> QED
      BY <3>1, SizesNat, ProductGrows, OffloadAssumption DEF OffloadInv, OffloadTypeOK, Layers
  <2>3. free > Reserve /\ Planned
    <3>1. ~(free <= Reserve)
      BY <2>1, <2>2 DEF OffloadInv, StageInv
    <3> QED
      BY <2>2, <3>1 DEF Planned
  <2>4. budget <= free - Reserve - PlannedInt8 * N
    BY <2>1, <2>3 DEF OffloadInv, BudgetInv
  <2>5. Fitting
    BY <2>2, <2>4 DEF Fitting
  <2>6. /\ budget = free - Reserve - PlannedInt8 * N - Extra * maxF16
        /\ maxF16 <= l
    BY <2>1, <2>3, <2>5 DEF OffloadInv, BudgetInv, Planned
  <2>7. free - Reserve < PlannedInt8 * N + Extra * maxF16 + Extra
    BY <2>1, <2>2, <2>3, <2>5, <2>6 DEF OffloadInv, PlanInv
  <2> QED
    BY <2>2, <2>6, <2>7
<1> QED
  BY <1>1, OffloadInductive, PTL

-----------------------------------------------------------------------------
(***************************************************************************)
(* What has been spent on the layers.                                      *)
(***************************************************************************)

\* There is a function of the sums, so that SpentUpTo is one.
LEMMA SumsExist ==
    ASSUME NEW w
    PROVE  \E f : f = [l \in 0 .. N |-> IF l = 0 THEN 0 ELSE f[l - 1] + w[l - 1]]
<1> DEFINE Upto(n, f) == f = [l \in 0 .. n |-> IF l = 0 THEN 0 ELSE f[l - 1] + w[l - 1]]
           S == {n \in 0 .. N : \E f : Upto(n, f)}
<1>1. N \in Nat /\ 0 \in 0 .. N
  BY OffloadAssumption
<1>2. 0 \in S
  <2> DEFINE g == [l \in 0 .. 0 |-> 0]
  <2>1. g = [l \in 0 .. 0 |-> IF l = 0 THEN 0 ELSE g[l - 1] + w[l - 1]]
    OBVIOUS
  <2> QED
    BY <1>1, <2>1
<1>3. ASSUME NEW n \in 0 .. N - 1, n \in S PROVE n + 1 \in S
  <2>1. PICK f : Upto(n, f)
    BY <1>3
  <2> DEFINE g == [l \in 0 .. n + 1 |-> IF l = n + 1 THEN f[n] + w[n] ELSE f[l]]
  <2>2. n \in Nat /\ n + 1 \in 0 .. N /\ n + 1 # 0 /\ n + 1 - 1 = n
    BY <1>1, <1>3
  <2>3. \A l \in 0 .. n + 1 : g[l] = IF l = 0 THEN 0 ELSE g[l - 1] + w[l - 1]
    <3> SUFFICES ASSUME NEW l \in 0 .. n + 1
                 PROVE  g[l] = IF l = 0 THEN 0 ELSE g[l - 1] + w[l - 1]
      OBVIOUS
    <3>1. CASE l = n + 1
      <4>1. n \in 0 .. n + 1 /\ n # n + 1
        BY <2>2
      <4>2. g[l] = f[n] + w[n] /\ g[n] = f[n]
        BY <3>1, <4>1
      <4> QED
        BY <2>2, <3>1, <4>2
    <3>2. CASE l # n + 1
      <4>1. l \in 0 .. n
        BY <2>2, <3>2
      <4>2. f[l] = IF l = 0 THEN 0 ELSE f[l - 1] + w[l - 1]
        BY <2>1, <4>1
      <4>3. l # 0 => l - 1 \in 0 .. n + 1 /\ l - 1 # n + 1
        BY <2>2, <4>1
      <4>4. g[l] = f[l] /\ (l # 0 => g[l - 1] = f[l - 1])
        BY <3>2, <4>3
      <4> QED
        BY <4>2, <4>4
    <3> QED
      BY <3>1, <3>2
  <2>4. g = [l \in 0 .. n + 1 |-> IF l = 0 THEN 0 ELSE g[l - 1] + w[l - 1]]
    <3>1. g = [l \in 0 .. n + 1 |-> g[l]]
      OBVIOUS
    <3> HIDE DEF g
    <3> QED
      BY <2>3, <3>1
  <2> HIDE DEF g
  <2> QED
    BY <2>2, <2>4
<1> HIDE DEF S
<1>4. \A n \in 0 .. N : n \in S
  BY <1>1, <1>2, <1>3, IntervalInduction
<1>5. N \in 0 .. N
  BY <1>1
<1> QED
  BY <1>4, <1>5 DEF S

SpentSums ==
    /\ SpentUpTo[0] = 0
    /\ \A l \in 1 .. N : SpentUpTo[l] = SpentUpTo[l - 1] + Spent(l - 1)

LEMMA SpentUpToDef == SpentSums
<1>1. N \in Nat
  BY OffloadAssumption
<1> DEFINE w == [l \in Layers |-> Spent(l)]
<1>2. PICK f : f = [l \in 0 .. N |-> IF l = 0 THEN 0 ELSE f[l - 1] + w[l - 1]]
  <2> HIDE DEF w
  <2> QED
    BY SumsExist
<1>3. \A l \in 0 .. N : l # 0 => w[l - 1] = Spent(l - 1)
  BY <1>1 DEF Layers
<1>4. f = [l \in 0 .. N |-> IF l = 0 THEN 0 ELSE f[l - 1] + Spent(l - 1)]
  <2> HIDE DEF w
  <2>1. [l \in 0 .. N |-> IF l = 0 THEN 0 ELSE f[l - 1] + w[l - 1]]
            = [l \in 0 .. N |-> IF l = 0 THEN 0 ELSE f[l - 1] + Spent(l - 1)]
    BY <1>3
  <2> QED
    BY <1>2, <2>1
<1>5. SpentUpTo = [l \in 0 .. N |-> IF l = 0 THEN 0 ELSE SpentUpTo[l - 1] + Spent(l - 1)]
  BY <1>4, Zenon DEF SpentUpTo
<1> HIDE DEF w
<1>6. 0 \in 0 .. N /\ \A l \in 1 .. N : l \in 0 .. N /\ l # 0
  BY <1>1
<1>7. \A l \in 0 .. N : SpentUpTo[l] = IF l = 0 THEN 0 ELSE SpentUpTo[l - 1] + Spent(l - 1)
  BY <1>5
<1> QED
  BY <1>6, <1>7 DEF SpentSums

LEMMA SpentType ==
    ASSUME OffloadInv
    PROVE  /\ \A l \in Layers : Spent(l) \in Nat
           /\ \A l \in 0 .. N : SpentUpTo[l] \in Nat
<1>1. ASSUME NEW l \in Layers PROVE Spent(l) \in Nat
  <2>1. \A t \in Types \cup {"INT8", "nothing"} : HeldBytes(t) \in Nat
    BY SizesNat, OffloadAssumption DEF HeldBytes, Types
  <2>2. \A m \in Mats : held[l][m] \in Types \cup {"INT8", "nothing"}
    BY DEF OffloadInv, OffloadTypeOK
  <2>3. /\ HeldBytes(held[l]["wq"]) \in Nat /\ HeldBytes(held[l]["wk"]) \in Nat
        /\ HeldBytes(held[l]["rest"]) \in Nat
    BY <2>1, <2>2 DEF Mats
  <2> QED
    BY <2>3, OffloadAssumption DEF Spent
<1> DEFINE S == {l \in 0 .. N : SpentUpTo[l] \in Nat}
<1>2. N \in Nat /\ 0 \in S
  BY SpentUpToDef, OffloadAssumption DEF SpentSums
<1>3. ASSUME NEW k \in 0 .. N - 1, k \in S PROVE k + 1 \in S
  <2>1. k + 1 \in 1 .. N /\ k + 1 - 1 = k /\ k \in Layers /\ k + 1 \in 0 .. N
    BY <1>2, <1>3 DEF Layers
  <2>2. PICK j \in 1 .. N : j = k + 1
    BY <2>1
  <2>3. SpentUpTo[j] = SpentUpTo[j - 1] + Spent(j - 1)
    BY SpentUpToDef DEF SpentSums
  <2>4. j - 1 = k /\ Spent(k) \in Nat /\ SpentUpTo[k] \in Nat
    BY <1>1, <1>3, <2>1, <2>2
  <2>5. SpentUpTo[j] \in Nat
    BY <2>3, <2>4
  <2> QED
    BY <2>1, <2>2, <2>5
<1> HIDE DEF S
<1>4. \A l \in 0 .. N : l \in S
  BY <1>2, <1>3, IntervalInduction
<1> QED
  BY <1>1, <1>4 DEF S

\* Nothing has been spent on the layers that are not offloaded.
LEMMA SpentTail ==
    ASSUME OffloadInv, ldpc # "freed"
    PROVE  SpentUpTo[N] = SpentUpTo[nOff]
<1>1. N \in Nat /\ nOff \in 0 .. N
  BY OffloadAssumption DEF OffloadInv, OffloadTypeOK
<1> DEFINE S == {l \in 0 .. N : SpentUpTo[l] = SpentUpTo[nOff]}
<1>2. nOff \in S
  BY <1>1
<1>3. ASSUME NEW k \in nOff .. N - 1, k \in S PROVE k + 1 \in S
  <2>1. k + 1 \in 1 .. N /\ k + 1 - 1 = k /\ k \in Layers /\ k + 1 \in 0 .. N /\ ~(k < nOff)
        /\ k \in 0 .. N
    BY <1>1, <1>3 DEF Layers
  <2>2. PICK j \in 1 .. N : j = k + 1
    BY <2>1
  <2>3. SpentUpTo[j] = SpentUpTo[j - 1] + Spent(j - 1)
    BY SpentUpToDef DEF SpentSums
  <2>4. ~Uploaded(k)
    BY <2>1 DEF OffloadInv, MemoryInv
  <2>5. j - 1 = k /\ Spent(k) = 0 /\ SpentUpTo[k] \in Nat
    BY <2>1, <2>2, <2>4, SpentType DEF Spent
  <2>6. SpentUpTo[j] = SpentUpTo[k]
    BY <2>3, <2>5
  <2> QED
    BY <1>3, <2>1, <2>2, <2>6
<1> HIDE DEF S
<1>4. \A l \in nOff .. N : l \in S
  BY <1>1, <1>2, <1>3, IntervalInduction
<1>5. N \in nOff .. N
  BY <1>1
<1> QED
  BY <1>4, <1>5 DEF S

\* What was spent on the first n layers stays spent.
LEMMA SpentFrame ==
    ASSUME NEW n \in 0 .. N, \A l \in Layers : l < n => Spent(l)' = Spent(l)
    PROVE  SpentUpTo'[n] = SpentUpTo[n]
<1>1. N \in Nat /\ n \in Nat
  BY OffloadAssumption
<1>2. /\ SpentUpTo'[0] = 0
      /\ \A l \in 1 .. N : SpentUpTo'[l] = SpentUpTo'[l - 1] + Spent(l - 1)'
  <2>1. SpentSums'
    BY SpentUpToDef, PTL
  <2> QED
    BY <2>1 DEF SpentSums
<1> DEFINE S == {l \in 0 .. N : SpentUpTo'[l] = SpentUpTo[l]}
<1>3. 0 \in S
  BY <1>1, <1>2, SpentUpToDef DEF SpentSums
<1>4. ASSUME NEW k \in 0 .. n - 1, k \in S PROVE k + 1 \in S
  <2>1. k + 1 \in 1 .. N /\ k + 1 - 1 = k /\ k \in Layers /\ k < n /\ k + 1 \in 0 .. N
    BY <1>1, <1>4 DEF Layers
  <2>2. PICK j \in 1 .. N : j = k + 1
    BY <2>1
  <2>3. j - 1 = k
    BY <2>1, <2>2
  <2>4. SpentUpTo[j] = SpentUpTo[k] + Spent(k)
    BY <2>3, SpentUpToDef DEF SpentSums
  <2>5. SpentUpTo'[j] = SpentUpTo'[k] + Spent(k)'
    BY <1>2, <2>3
  <2>6. SpentUpTo'[j] = SpentUpTo[j]
    BY <1>4, <2>1, <2>4, <2>5
  <2> QED
    BY <2>1, <2>2, <2>6
<1> HIDE DEF S
<1>5. \A l \in 0 .. n : l \in S
  BY <1>1, <1>3, <1>4, IntervalInduction
<1>6. n \in 0 .. n
  BY <1>1
<1> QED
  BY <1>5, <1>6 DEF S

SpentInv == Offloading => SpentUpTo[nOff] + budget = free - Reserve

\* One more layer is offloaded, of b bytes.
LEMMA SpentOnOneMore ==
    ASSUME OffloadInv, SpentInv, Offloading, NEW n \in Layers, nOff = n, nOff' = n + 1,
           free' = free, NEW b \in Nat, budget' = budget - b, Spent(n)' = b,
           \A l \in Layers : l < n => Spent(l)' = Spent(l)
    PROVE  SpentInv'
<1>1. /\ N \in Nat /\ n \in Nat /\ n \in 0 .. N /\ n + 1 \in 1 .. N /\ n + 1 - 1 = n
      /\ budget \in Nat
  BY OffloadAssumption DEF Layers, OffloadInv, OffloadTypeOK
<1>2. PICK j \in 1 .. N : j = n + 1
  BY <1>1
<1>3. SpentUpTo'[j] = SpentUpTo'[j - 1] + Spent(j - 1)'
  <2>1. SpentSums'
    BY SpentUpToDef, PTL
  <2> QED
    BY <2>1 DEF SpentSums
<1>4. j - 1 = n
  BY <1>1, <1>2
<1>5. SpentUpTo'[n] = SpentUpTo[n] /\ SpentUpTo[n] \in Nat
  BY <1>1, SpentFrame, SpentType
<1>6. SpentUpTo'[j - 1] = SpentUpTo'[n] /\ Spent(j - 1)' = b
  BY <1>4
<1>7. SpentUpTo'[j] = SpentUpTo[n] + b
  BY <1>3, <1>5, <1>6
<1>8. SpentUpTo[n] + budget = free - Reserve
  BY DEF SpentInv
<1>9. free \in Nat /\ Reserve \in Nat
  BY OffloadAssumption DEF OffloadInv, OffloadTypeOK
<1>10. SpentUpTo'[j] + budget' = free' - Reserve
  BY <1>1, <1>5, <1>7, <1>8, <1>9
<1> QED
  BY <1>2, <1>10 DEF SpentInv

LEMMA StepSpent ==
    ASSUME OffloadInv, SpentInv, [OffloadNext]_offloadVars
    PROVE  SpentInv'
<1>1. /\ types \in [Layers -> [Mats -> Types]] /\ nOff \in 0 .. N
      /\ held \in [Layers -> [Mats -> Types \cup {"INT8", "nothing"}]]
      /\ onGpu \subseteq DeviceMemory
  BY DEF OffloadInv, OffloadTypeOK, MemoryInv
<1>2. \A t \in Types : HeldBytes(t) = Bytes(t)
  BY DEF HeldBytes, Types
<1>3. CASE OffloadRaw
  <2>1. PICK n \in Layers : n = nOff
    BY <1>1, <1>3, OffloadAssumption DEF OffloadRaw, FitsRaw, Layers
  <2>2. /\ ldpc = "f16" /\ nOff' = n + 1 /\ free' = free
        /\ budget' = budget - RawBytes(n) /\ types' = types
        /\ held' = [held EXCEPT ![n] = types[n]] /\ onGpu' = onGpu \cup LayerMemory(n)
    BY <1>3, <2>1 DEF OffloadRaw
  <2>3. RawBytes(n) \in Nat
    BY <1>1, <2>2, LayerSizes
  <2>4. held'[n] = types[n] /\ \A l \in Layers : l # n => held'[l] = held[l]
    BY <1>1, <2>2
  <2>5. \A l \in Layers : Uploaded(l)' <=> Uploaded(l) \/ l = n
    BY <2>2, NormsApart DEF Uploaded
  <2>6. ASSUME NEW l \in Layers, l < n PROVE Spent(l)' = Spent(l)
    <3>1. l # n
      BY <2>6 DEF Layers
    <3>2. held'[l] = held[l] /\ (Uploaded(l)' <=> Uploaded(l))
      BY <2>4, <2>5, <3>1
    <3> QED
      BY <3>2 DEF Spent
  <2>7. Spent(n)' = RawBytes(n)
    <3>1. /\ types[n]["wq"] \in Types /\ types[n]["wk"] \in Types
          /\ types[n]["rest"] \in Types
      BY <1>1, <2>2 DEF Mats
    <3>2. Spent(n)' = HeldBytes(types[n]["wq"]) + HeldBytes(types[n]["wk"])
                             + 5 * HeldBytes(types[n]["rest"]) + NormBytes
      BY <2>2, <2>4, <2>5 DEF Spent
    <3> QED
      BY <1>2, <3>1, <3>2 DEF RawBytes
  <2> QED
    BY <2>1, <2>2, <2>3, <2>6, <2>7, SpentOnOneMore DEF Offloading
<1>4. CASE OffloadInt8
  <2>1. PICK n \in Layers : n = nOff
    BY <1>1, <1>4, OffloadAssumption DEF OffloadInt8, FitsInt8, Layers
  <2> DEFINE F16Mats == {m \in Mats : types[n][m] = "F16"}
  <2>2. /\ ldpc = "int8" /\ nOff' = n + 1 /\ free' = free
        /\ budget' = budget - Int8Bytes(n) /\ types' = types
        /\ held' = [held EXCEPT ![n] =
                       [m \in Mats |-> IF m \in F16Mats THEN "INT8" ELSE held[n][m]]]
        /\ onGpu' = onGpu \cup ({n} \X (F16Mats \cup {"norms"}))
    BY <1>4, <2>1 DEF OffloadInt8
  <2>3. Int8Bytes(n) \in Nat
    BY <1>1, <2>2, LayerSizes
  <2>4. /\ \A m \in Mats : held'[n][m] = IF types[n][m] = "F16" THEN "INT8" ELSE held[n][m]
        /\ \A l \in Layers : l # n => held'[l] = held[l]
    BY <1>1, <2>2
  <2>5. \A l \in Layers : Uploaded(l)' <=> Uploaded(l) \/ l = n
    BY <2>2 DEF Uploaded
  <2>6. ASSUME NEW l \in Layers, l < n PROVE Spent(l)' = Spent(l)
    <3>1. l # n
      BY <2>6 DEF Layers
    <3>2. held'[l] = held[l] /\ (Uploaded(l)' <=> Uploaded(l))
      BY <2>4, <2>5, <3>1
    <3> QED
      BY <3>2 DEF Spent
  <2>7. Spent(n)' = Int8Bytes(n)
    <3>1. \A m \in Mats : held[n][m] = "nothing"
      BY <2>1 DEF OffloadInv, FormatInv, Untouched, Layers
    <3>2. \A m \in Mats : HeldBytes(held'[n][m]) = QuantBytes(types[n][m])
      BY <2>4, <3>1 DEF HeldBytes, QuantBytes
    <3>3. Spent(n)' = HeldBytes(held'[n]["wq"]) + HeldBytes(held'[n]["wk"])
                             + 5 * HeldBytes(held'[n]["rest"]) + NormBytes
      BY <2>2, <2>5 DEF Spent
    <3> QED
      BY <3>2, <3>3 DEF Int8Bytes, Mats
  <2> QED
    BY <2>1, <2>2, <2>3, <2>6, <2>7, SpentOnOneMore DEF Offloading
<1>5. CASE EndRaw \/ EndInt8 \/ UNCHANGED offloadVars
  <2>1. /\ UNCHANGED <<nOff, budget, free, held, onGpu>> /\ (Offloading' => Offloading)
    BY <1>5 DEF EndRaw, EndInt8, GpuUntouched, offloadVars, Offloading
  <2>2. \A l \in Layers : Spent(l)' = Spent(l)
    BY <2>1 DEF Spent, Uploaded, HeldBytes, Bytes
  <2>3. PICK n \in 0 .. N : n = nOff
    BY <1>1
  <2>4. SpentUpTo'[n] = SpentUpTo[n]
    BY <2>2, SpentFrame
  <2> QED
    BY <2>1, <2>3, <2>4 DEF SpentInv
<1>6. CASE \E f \in FreeVram : PlanSplit(f)
  <2>1. nOff' = 0 /\ budget' = free' - Reserve /\ budget' \in Int
    BY <1>6, OffloadAssumption DEF PlanSplit, OffloadInv, StageInv
  <2>2. SpentUpTo'[0] = 0
    <3>1. SpentSums'
      BY SpentUpToDef, PTL
    <3> QED
      BY <3>1 DEF SpentSums
  <2> QED
    BY <2>1, <2>2 DEF SpentInv
<1>7. CASE \/ (\E l \in AdapterLists \cup {<< >>} : CacheHit(l)) \/ CacheMiss
           \/ FileMissing \/ UseCpu \/ \E f \in FreeVram : NoVram(f)
           \/ Finish \/ CudaThrows \/ DestroyModel \/ MergeAdapter
  <2>1. ~Offloading'
    BY <1>7 DEF CacheHit, CacheMiss, FileMissing, UseCpu, NoVram, Finish, CudaThrows, DestroyModel, MergeAdapter,
                Offloading
  <2> QED
    BY <2>1 DEF SpentInv
<1> QED
  BY <1>3, <1>4, <1>5, <1>6, <1>7 DEF OffloadNext

\* Whatever sizes the layers have, the budget of the loops is what the device
\* had less the reserve and what the layers on it take: the reserve is never
\* spent, and the budget never wraps.
THEOREM ReserveKeptHolds == OffloadSpec => []ReserveKept
<1>1. OffloadInit => SpentInv
  BY DEF OffloadInit, SpentInv, Offloading
<1>2. OffloadInv /\ SpentInv /\ [OffloadNext]_offloadVars => SpentInv'
  BY StepSpent
<1>3. OffloadInv /\ SpentInv => ReserveKept
  <2> SUFFICES ASSUME OffloadInv, SpentInv, Offloading
               PROVE  SpentUpTo[N] + budget = free - Reserve /\ budget >= 0
    BY DEF ReserveKept
  <2>1. SpentUpTo[N] = SpentUpTo[nOff]
    BY SpentTail DEF Offloading
  <2>2. budget \in Nat
    BY DEF OffloadInv, OffloadTypeOK
  <2> QED
    BY <2>1, <2>2 DEF SpentInv
<1> QED
  BY <1>1, <1>2, <1>3, OffloadInductive, PTL DEF OffloadSpec

-----------------------------------------------------------------------------
(***************************************************************************)
(* The weights of an I2_S matrix, which a merge unpacks: see               *)
(* MergeReadsBase of Program.                                              *)
(***************************************************************************)

\* Quotient and remainder are the only ones there are.
LEMMA DivisionUnique ==
    ASSUME NEW b \in Nat \ {0}, NEW q \in Nat, NEW r \in 0 .. b - 1,
           NEW a \in Nat, a = b * q + r
    PROVE  a \div b = q /\ a % b = r
<1>1. PICK d \in Nat : d = a \div b /\ b * d <= a /\ a < b * d + b
  BY DivisionFacts
<1>2. d = q
  <2>1. CASE d < q
    <3>1. b * (d + 1) <= b * q /\ b * (d + 1) = b * d + b
      BY <2>1, ProductGrows
    <3> QED
      BY <1>1, <3>1, ProductGrows
  <2>2. CASE q < d
    <3>1. b * (q + 1) <= b * d /\ b * (q + 1) = b * q + b /\ b * q \in Nat
      BY <2>2, ProductGrows
    <3> QED
      BY <1>1, <3>1
  <2> QED
    BY <2>1, <2>2
<1>3. a % b = a - b * (a \div b)
  BY SMT
<1> QED
  BY <1>1, <1>2, <1>3, ProductGrows

LEMMA DivisionSplit ==
    ASSUME NEW a \in Nat, NEW b \in Nat \ {0}
    PROVE  \E q \in Nat, r \in 0 .. b - 1 : a = b * q + r /\ q = a \div b /\ r = a % b
<1>1. PICK q \in Nat : q = a \div b /\ b * q <= a /\ a < b * q + b
  BY DivisionFacts
<1>2. b * q \in Nat
  BY ProductGrows
<1>3. PICK r \in 0 .. b - 1 : a = b * q + r
  <2>1. a - b * q \in 0 .. b - 1 /\ a = b * q + (a - b * q)
    BY <1>1, <1>2
  <2> QED
    BY <2>1
<1>4. r = a % b
  BY <1>3, DivisionUnique
<1> QED
  BY <1>1, <1>3, <1>4

\* A byte gives back each of the four fields it was made of.
ByteOf(c0, c1, c2, c3) == 64 * c0 + 16 * c1 + 4 * c2 + c3

Gives(byte, c0, c1, c2, c3) ==
    /\ FieldOf(byte, 0) = c0 /\ FieldOf(byte, 1) = c1
    /\ FieldOf(byte, 2) = c2 /\ FieldOf(byte, 3) = c3

LEMMA FieldsComeBack ==
    \A c0, c1, c2, c3 \in 0 .. 2 : Gives(ByteOf(c0, c1, c2, c3), c0, c1, c2, c3)
  BY DEF FieldOf, ByteOf, Gives

\* The i-th weight is weight g of quarter k of block b, and that quarter of the
\* block has it, be the block as short as it may.
LEMMA WeightPlace ==
    ASSUME NEW n \in Nat, NEW i \in 0 .. n - 1
    PROVE  \E b \in Nat, k \in 0 .. 3, g \in 0 .. Group - 1 :
              /\ b = i \div Block /\ k = (i % Block) \div Group /\ g = i % Group
              /\ b * Block + k * Group + g = i
              /\ b * Group + g \in 0 .. Blocks(n) * Group - 1
              /\ (b * Group + g) \div Group = b /\ (b * Group + g) % Group = g
              /\ g < Columns(BlockLen(n, b), k)
<1>1. Group \in Nat \ {0} /\ Block \in Nat \ {0} /\ Block = 4 * Group
  BY GroupAssumption DEF Block
<1>2. PICK b \in Nat, r \in 0 .. Block - 1 :
         i = Block * b + r /\ b = i \div Block /\ r = i % Block
  BY <1>1, DivisionSplit
<1>3. PICK k \in Nat, g \in 0 .. Group - 1 :
         r = Group * k + g /\ k = r \div Group /\ g = r % Group
  <2>1. r \in Nat
    BY <1>1
  <2> QED
    BY <1>1, <2>1, DivisionSplit
<1>4. k \in 0 .. 3
  <2>1. CASE k >= 4
    <3>1. PICK x \in Nat : x = Group * k
      BY <1>1, ProductGrows
    <3>2. Group * 4 <= x
      BY <1>1, <2>1, <3>1, ProductGrows
    <3>3. r = x + g
      BY <1>3, <3>1
    <3> QED
      BY <1>1, <3>2, <3>3
  <2> QED
    BY <2>1
<1>5. g = i % Group
  <2>1. PICK q \in Nat : q = 4 * b + k
    BY <1>4
  <2>2. i = Group * q + g
    <3>1. Block * b + Group * k = Group * q
      BY <1>1, <1>4, <2>1
    <3>2. PICK x \in Nat, y \in Nat : x = Block * b /\ y = Group * k
      BY <1>1, <1>4, ProductGrows
    <3>3. i = x + (y + g)
      BY <1>2, <1>3, <3>2
    <3>4. i = (x + y) + g
      BY <1>1, <3>3
    <3> QED
      BY <3>1, <3>2, <3>4
  <2> QED
    BY <1>1, <2>2, DivisionUnique
<1>6. b * Block + k * Group + g = i
  <2>1. b * Block = Block * b /\ k * Group = Group * k
    BY <1>1, <1>4
  <2>2. PICK x \in Nat, y \in Nat : x = Block * b /\ y = Group * k
    BY <1>1, <1>4, ProductGrows
  <2>3. i = x + (y + g)
    BY <1>2, <1>3, <2>2
  <2>4. i = x + y + g
    BY <1>1, <2>3
  <2> QED
    BY <2>1, <2>2, <2>4
<1>7. (b * Group + g) \div Group = b /\ (b * Group + g) % Group = g
  <2>1. b * Group = Group * b /\ Group * b \in Nat
    BY <1>1, ProductGrows
  <2>2. PICK a \in Nat : a = Group * b + g
    BY <1>1, <2>1
  <2>3. a \div Group = b /\ a % Group = g
    BY <1>1, <2>2, DivisionUnique
  <2> QED
    BY <2>1, <2>2, <2>3
\* The block is one of those that the matrix has.
<1>8. b * Group + g \in 0 .. Blocks(n) * Group - 1
  <2>1. PICK a \in Nat : a = n + Block - 1
    BY <1>1
  <2>2. PICK q \in Nat : q = Blocks(n) /\ Block * q <= a /\ a < Block * q + Block
    BY <1>1, <2>1, DivisionFacts DEF Blocks
  <2>3. b < q
    <3>1. CASE q <= b
      <4>1. Block * q <= Block * b /\ Block * b \in Nat /\ Block * q \in Nat
        BY <1>1, <3>1, ProductGrows
      <4> QED
        BY <1>1, <1>2, <2>1, <2>2, <4>1
    <3> QED
      BY <3>1
  <2>4. Group * (b + 1) <= Group * q /\ Group * (b + 1) = Group * b + Group
    BY <1>1, <2>3, ProductGrows
  <2>5. b * Group = Group * b /\ q * Group = Group * q /\ Group * b \in Nat /\ Group * q \in Nat
    BY <1>1, ProductGrows
  <2>6. b * Group + g \in 0 .. q * Group - 1
    BY <1>1, <2>4, <2>5
  <2> QED
    BY <2>2, <2>6
<1>9. g < Columns(BlockLen(n, b), k)
  <2>1. PICK m \in Nat : m = BlockLen(n, b) /\ r < m
    <3>1. PICK c \in Nat : c = b * Block /\ i = c + r
      BY <1>1, <1>2, ProductGrows
    <3>2. BlockLen(n, b) = IF n - c < Block THEN n - c ELSE Block
      BY <3>1 DEF BlockLen
    <3>3. n - c \in Nat /\ r < n - c
      BY <1>1, <1>2, <3>1
    <3> QED
      BY <1>1, <1>2, <3>2, <3>3
  <2>2. PICK e \in Nat : e = k * Group /\ r = e + g /\ (k + 1) * Group = e + Group
    <3>1. k * Group = Group * k /\ (k + 1) * Group = Group * (k + 1) /\ Group * k \in Nat
          /\ Group * (k + 1) = Group * k + Group
      BY <1>1, <1>4, ProductGrows
    <3> QED
      BY <1>3, <3>1
  <2>3. Columns(m, k) = IF m >= e + Group THEN Group ELSE IF m > e THEN m - e ELSE 0
    BY <2>2 DEF Columns
  <2>4. g < Columns(m, k)
    BY <1>1, <2>1, <2>2, <2>3
  <2> QED
    BY <2>1, <2>4
<1> QED
  BY <1>2, <1>3, <1>4, <1>5, <1>6, <1>7, <1>8, <1>9

\* Quantising a matrix of any length and reading it back, as the merge of an
\* adapter does, gives every weight its sign.
THEOREM SignsReturn ==
    \A n \in Nat : \A ws \in [0 .. n - 1 -> Int] : SignsComeBack(ws, n)
<1> SUFFICES ASSUME NEW n \in Nat, NEW ws \in [0 .. n - 1 -> Int], NEW i \in 0 .. n - 1
             PROVE  Unpack(Pack(ws, n), n)[i] = Value(Code(ws[i]))
  BY DEF SignsComeBack
<1>1. PICK b \in Nat, k \in 0 .. 3, g \in 0 .. Group - 1 :
         /\ b = i \div Block /\ k = (i % Block) \div Group /\ g = i % Group
         /\ b * Block + k * Group + g = i
         /\ b * Group + g \in 0 .. Blocks(n) * Group - 1
         /\ (b * Group + g) \div Group = b /\ (b * Group + g) % Group = g
         /\ g < Columns(BlockLen(n, b), k)
  BY WeightPlace
<1>2. PICK j \in 0 .. Blocks(n) * Group - 1 : j = b * Group + g
  BY <1>1
<1>3. j \div Group = b /\ j % Group = g
  BY <1>1, <1>2
<1>4. ASSUME NEW h \in 0 .. 3
      PROVE  /\ Field(ws, n, j, h) \in 0 .. 2
             /\ h = k => Field(ws, n, j, h) = Code(ws[i])
  <2>1. Field(ws, n, j, h) = IF g < Columns(BlockLen(n, b), h)
                             THEN Code(ws[b * Block + h * Group + g]) ELSE 0
    BY <1>3 DEF Field
  <2>2. \A w : Code(w) \in 0 .. 2
    BY DEF Code
  <2> QED
    BY <1>1, <2>1, <2>2
<1>5. PICK c0 \in 0 .. 2, c1 \in 0 .. 2, c2 \in 0 .. 2, c3 \in 0 .. 2 :
         /\ c0 = Field(ws, n, j, 0) /\ c1 = Field(ws, n, j, 1)
         /\ c2 = Field(ws, n, j, 2) /\ c3 = Field(ws, n, j, 3)
  BY <1>4
<1>6. Pack(ws, n)[j] = ByteOf(c0, c1, c2, c3)
  BY <1>5 DEF Pack, ByteOf
<1>7. FieldOf(Pack(ws, n)[j], k) = Field(ws, n, j, k)
  <2>1. Gives(ByteOf(c0, c1, c2, c3), c0, c1, c2, c3)
    <3>1. c0 \in 0 .. 2 /\ c1 \in 0 .. 2 /\ c2 \in 0 .. 2 /\ c3 \in 0 .. 2
      OBVIOUS
    <3> QED
      BY <3>1, FieldsComeBack, Zenon
  <2>2. k = 0 \/ k = 1 \/ k = 2 \/ k = 3
    OBVIOUS
  <2> QED
    BY <1>5, <1>6, <2>1, <2>2 DEF Gives
<1>8. Unpack(Pack(ws, n), n)[i] = IF g < Columns(BlockLen(n, b), k)
                                  THEN Value(FieldOf(Pack(ws, n)[b * Group + g], k)) ELSE 0
  BY <1>1 DEF Unpack
<1>9. Field(ws, n, j, k) = Code(ws[i])
  BY <1>4
<1> QED
  BY <1>1, <1>2, <1>7, <1>8, <1>9

-----------------------------------------------------------------------------
(***************************************************************************)
(* The exported file (GgufExport).                                         *)
(***************************************************************************)

\* A tensor has elements; an F16 tensor has two bytes for each of them.
Tensor == [f16 : BOOLEAN, elems : Nat \ {0}, bytes : Nat]
Plans == {ts \in Seq(Tensor) :
            /\ Len(ts) > 0
            /\ \A i \in 1 .. Len(ts) : ts[i].f16 => 2 * ts[i].elems <= ts[i].bytes}

\* The export, and the later run that reads the file.  In Program the plan is
\* that of the loaded model.
ExportNext ==
    \/ \E ts \in Plans, keys \in Nat : BeginExport(ts, keys)
    \/ WriterStep
    \/ ReaderStep

ExportSpec == ExportInit /\ [][ExportNext]_exportVars

-----------------------------------------------------------------------------
(* The inductive invariant.                                                *)

\* Where the keys and the table end, and where the data of the i-th tensor
\* begin as both sides compute it.
EntryLen == NameLen + InfoLen
KeysEnd(k) == HeadLen + KeyLen * k
TableEnd(k) == KeysEnd(nMeta) + EntryLen * k
DataBegin == RoundUp(TableEnd(Len(tensors)))
Begin(i) == DataBegin + Offset(tensors, i)

Writing == {"keys", "table", "data", "written"}
Reading == {"rkeys", "rtable", "rdata", "reloaded"}
Left == {"broken", "closed", "refused"}

ExportTypeInv ==
    /\ xpc \in {"idle"} \cup Writing \cup Left \cup Reading
    /\ xpc # "idle" => tensors \in Plans
    /\ tokKeys \in Nat /\ nMeta \in Nat
    /\ nMeta = IF xpc = "idle" THEN 0 ELSE FixedKeys + tokKeys
    /\ dataAt \in Seq(Nat)
    /\ Len(dataAt) <= Len(tensors)
    /\ xpc = "data" => Len(dataAt) < Len(tensors)
    /\ pos \in Nat /\ tdo \in Nat /\ rptr \in Nat /\ rrec \in Nat

\* What is in the file before the data: the keys, and after them the table.
KeysWritten == \A k \in 1 .. nMeta : records[k].len = KeyLen
TableWritten ==
    /\ Len(records) = nMeta + Len(tensors)
    /\ \A i \in 1 .. Len(tensors) : records[nMeta + i] = InfoRecord(i)

RecordsInv ==
    /\ xpc \in {"idle", "keys"} => dataAt = << >>
    /\ xpc = "keys" => pos = KeysEnd(0)
    /\ xpc = "table" => /\ dataAt = << >> /\ pos = KeysEnd(nMeta)
                        /\ records \in Seq({KeyRecord}) /\ Len(records) = nMeta
    /\ xpc \notin {"idle", "keys"} => KeysWritten
    /\ xpc \in {"data", "written", "closed"} => TableWritten
    /\ xpc \in Left \cup Reading => TableWritten \/ (Len(records) = nMeta /\ dataAt = << >>)

\* The data of a tensor are where they should begin, or both places are beyond
\* what ftell can return.
At(p, i) == p = Begin(i) \/ (p > LongMax /\ Begin(i) > LongMax)

PlaceInv ==
    /\ xpc # "idle" => \A i \in 1 .. Len(dataAt) : At(dataAt[i], i)
    /\ xpc = "data" => At(pos, Len(dataAt) + 1)
    /\ xpc \notin {"idle", "keys", "table"} /\ TableWritten /\ Len(dataAt) < Len(tensors)
          => pos <= Begin(Len(dataAt) + 1) \/ Begin(Len(dataAt) + 1) > LongMax

\* The reader has found the first entries of the table, or none because the
\* keys were cut short.
InfosRight ==
    /\ TableWritten
    /\ \A k \in 1 .. Len(infos) : infos[k] = InfoRecord(k)

InTable ==
    /\ rrec = nMeta + Len(infos) + 1
    /\ rptr = TableEnd(Len(infos))
    /\ infos # << >> => InfosRight

\* Not all of the table was there: no data either, or a file that ends in it.
CutInTable == dataAt = << >> \/ pos < TableEnd(Len(tensors))

ReaderInv ==
    /\ xpc \in {"idle"} \cup Writing \cup {"broken", "closed", "rkeys"} => infos = << >>
    /\ xpc \in {"idle"} \cup Writing \cup {"broken", "closed"} => rrec = 1
    /\ infos \in Seq({InfoRecord(i) : i \in 1 .. Len(tensors)})
    /\ Len(infos) <= Len(tensors)
    /\ xpc = "rkeys" => rrec \in 1 .. nMeta + 1 /\ rptr = KeysEnd(rrec - 1)
    /\ xpc = "rtable" =>
          \/ InTable
          \/ infos = << >> /\ rptr = pos /\ CutInTable
    /\ xpc \in {"rdata", "reloaded"} =>
          /\ infos # << >> => InfosRight
          /\ Len(infos) < Len(tensors) => CutInTable
          /\ Len(infos) = Len(tensors) => tdo = DataBegin
          /\ infos # << >> /\ Len(infos) < Len(tensors) =>
                pos < tdo + NameLen \/ pos < tdo + InfoLen - 4

ResultInv == xpc = "reloaded" => loaded = [i \in 1 .. Len(tensors) |-> LoadResult(i)]

ExportInv == ExportTypeInv /\ RecordsInv /\ PlaceInv /\ ReaderInv /\ ResultInv

\* The first tensor is the embedding: it has at least as many bytes, as it is
\* and as F16, as the name or the rest of a table entry.
LargeFirst ==
    LET t == tensors[1]
    IN  \A n \in {NameLen, InfoLen - 4} : n <= 2 * t.elems /\ n <= t.bytes

-----------------------------------------------------------------------------
(* Arithmetic.                                                             *)

\* The multiples of Align, and what RoundUp does.
Aligned(n) == n \in Nat /\ \E q \in Nat : n = Align * q

LEMMA RoundUpFacts ==
    ASSUME NEW n \in Nat
    PROVE  /\ RoundUp(n) \in Nat /\ n <= RoundUp(n) /\ RoundUp(n) < n + Align
           /\ Aligned(RoundUp(n))
<1>1. Align \in Nat \ {0} /\ n + Align - 1 \in Nat
  BY ExportAssumption
<1>2. PICK a \in Nat, q \in Nat : a = n + Align - 1 /\ q = a \div Align
  BY <1>1, DivisionFacts
<1>3. Align * q <= a /\ a < Align * q + Align
  BY <1>1, <1>2, DivisionFacts
<1>4. RoundUp(n) = Align * q /\ Align * q \in Nat
  <2>1. RoundUp(n) = q * Align
    BY <1>2 DEF RoundUp
  <2> QED
    BY <1>1, <2>1, ProductFacts
<1>5. PICK m \in Nat : m = Align * q
  BY <1>4
<1>6. n <= m /\ m < n + Align
  BY <1>1, <1>2, <1>3, <1>5
<1> QED
  BY <1>4, <1>5, <1>6 DEF Aligned

\* There is one multiple in any Align consecutive numbers.
LEMMA AlignedUnique ==
    ASSUME NEW a, NEW b, Aligned(a), Aligned(b), a <= b, b < a + Align
    PROVE  a = b
<1>1. Align \in Nat \ {0}
  BY ExportAssumption
<1>2. PICK p \in Nat, q \in Nat : a = Align * p /\ b = Align * q
  BY DEF Aligned
<1>3. SUFFICES ASSUME p # q PROVE FALSE
  BY <1>2
<1>4. CASE p < q
  <2>1. Align * (p + 1) <= Align * q /\ Align * (p + 1) = Align * p + Align
    BY <1>1, <1>4, ProductFacts
  <2> QED
    BY <1>1, <1>2, <2>1 DEF Aligned
<1>5. CASE q < p
  <2>1. Align * (q + 1) <= Align * p /\ Align * (q + 1) = Align * q + Align
    BY <1>1, <1>5, ProductFacts
  <2> QED
    BY <1>1, <1>2, <2>1 DEF Aligned
<1> QED
  BY <1>3, <1>4, <1>5

LEMMA AlignedSum ==
    ASSUME NEW a, NEW b, Aligned(a), Aligned(b)
    PROVE  Aligned(a + b)
<1>1. Align \in Nat \ {0}
  BY ExportAssumption
<1>2. PICK p \in Nat, q \in Nat : a = Align * p /\ b = Align * q
  BY DEF Aligned
<1>3. Align * (p + q) = a + b
  BY <1>1, <1>2, ProductFacts
<1> QED
  BY <1>2, <1>3 DEF Aligned

\* Padding does not depend on where the padded thing begins.
LEMMA RoundUpShift ==
    ASSUME NEW a, Aligned(a), NEW n \in Nat
    PROVE  RoundUp(a + n) = a + RoundUp(n)
<1>1. a \in Nat /\ a + n \in Nat /\ Align \in Nat \ {0}
  BY ExportAssumption DEF Aligned
<1>2. /\ RoundUp(n) \in Nat /\ n <= RoundUp(n) /\ RoundUp(n) < n + Align /\ Aligned(RoundUp(n))
  BY RoundUpFacts
<1>3. /\ RoundUp(a + n) \in Nat /\ a + n <= RoundUp(a + n) /\ RoundUp(a + n) < a + n + Align
      /\ Aligned(RoundUp(a + n))
  BY <1>1, RoundUpFacts
<1>4. Aligned(a + RoundUp(n))
  BY <1>2, AlignedSum
<1>5. PICK r \in Nat, s \in Nat : r = RoundUp(a + n) /\ s = a + RoundUp(n)
  BY <1>1, <1>2, <1>3
<1>6. r < s + Align /\ s < r + Align /\ (r <= s \/ s <= r)
  BY <1>1, <1>2, <1>3, <1>5
<1>7. r = s
  <2>1. Aligned(r) /\ Aligned(s)
    BY <1>3, <1>4, <1>5
  <2> QED
    BY <1>6, <2>1, AlignedUnique
<1> QED
  BY <1>5, <1>7

-----------------------------------------------------------------------------
(* Where the data of a tensor begin in the data section.                   *)

\* f has the offsets of the first n tensors.
Offsets(ts, n, f) ==
    f = [k \in 1 .. n |-> IF k = 1 THEN 0 ELSE f[k - 1] + RoundUp(ts[k - 1].bytes)]

LEMMA OffsetsExist ==
    ASSUME NEW ts, NEW n \in Nat \ {0}
    PROVE  \E f : Offsets(ts, n, f)
<1> DEFINE S == {k \in 1 .. n : \E f : Offsets(ts, k, f)}
<1>1. 1 \in 1 .. n /\ n \in 1 .. n
  OBVIOUS
<1>2. 1 \in S
  <2> DEFINE g == [k \in 1 .. 1 |-> 0]
  <2>1. Offsets(ts, 1, g)
    BY DEF Offsets
  <2> QED
    BY <1>1, <2>1
<1>3. ASSUME NEW k \in 1 .. n - 1, k \in S PROVE k + 1 \in S
  <2>1. PICK f : Offsets(ts, k, f)
    BY <1>3
  <2>2. k \in Nat /\ k + 1 \in 1 .. n /\ k + 1 # 1 /\ k + 1 - 1 = k /\ k \in 1 .. k
    BY <1>3
  <2>3. PICK m \in 1 .. n : m = k + 1
    BY <2>2
  <2> DEFINE g == [l \in 1 .. m |-> IF l = m THEN f[k] + RoundUp(ts[k].bytes) ELSE f[l]]
  <2>4. \A l \in 1 .. m : g[l] = IF l = 1 THEN 0 ELSE g[l - 1] + RoundUp(ts[l - 1].bytes)
    <3> SUFFICES ASSUME NEW l \in 1 .. m
                 PROVE  g[l] = IF l = 1 THEN 0 ELSE g[l - 1] + RoundUp(ts[l - 1].bytes)
      OBVIOUS
    <3>1. CASE l = m
      <4>1. k \in 1 .. m /\ k # m /\ l - 1 = k /\ l # 1
        BY <2>2, <2>3, <3>1
      <4>2. g[l] = f[k] + RoundUp(ts[k].bytes) /\ g[k] = f[k]
        BY <3>1, <4>1
      <4> QED
        BY <4>1, <4>2
    <3>2. CASE l # m
      <4>1. l \in 1 .. k
        BY <2>2, <2>3, <3>2
      <4>2. f[l] = IF l = 1 THEN 0 ELSE f[l - 1] + RoundUp(ts[l - 1].bytes)
        BY <2>1, <4>1 DEF Offsets
      <4>3. l # 1 => l - 1 \in 1 .. m /\ l - 1 # m
        BY <2>2, <2>3, <4>1
      <4>4. g[l] = f[l] /\ (l # 1 => g[l - 1] = f[l - 1])
        BY <3>2, <4>3
      <4> QED
        BY <4>2, <4>4
    <3> QED
      BY <3>1, <3>2
  <2>5. Offsets(ts, m, g)
    <3>1. g = [l \in 1 .. m |-> g[l]]
      OBVIOUS
    <3> HIDE DEF g
    <3> QED
      BY <2>4, <3>1 DEF Offsets
  <2> HIDE DEF g
  <2> QED
    BY <2>2, <2>3, <2>5
<1> HIDE DEF S
<1>4. \A k \in 1 .. n : k \in S
  BY <1>1, <1>2, <1>3, IntervalInduction
<1> QED
  BY <1>1, <1>4 DEF S

LEMMA OffsetIsOne ==
    ASSUME NEW ts, NEW n \in Nat \ {0}
    PROVE  \E f : Offsets(ts, n, f) /\ Offset(ts, n) = f[n]
<1> DEFINE before == CHOOSE before : before = [k \in 1 .. n |->
                IF k = 1 THEN 0 ELSE before[k - 1] + RoundUp(ts[k - 1].bytes)]
<1>1. PICK f : Offsets(ts, n, f)
  BY OffsetsExist
<1>2. Offsets(ts, n, before)
  BY <1>1, Zenon DEF Offsets
<1>3. Offset(ts, n) = before[n]
  BY Zenon DEF Offset
<1> QED
  BY <1>2, <1>3

LEMMA OffsetNext ==
    ASSUME NEW ts
    PROVE  /\ Offset(ts, 1) = 0
           /\ \A n \in Nat \ {0} : Offset(ts, n + 1) = Offset(ts, n) + RoundUp(ts[n].bytes)
<1>1. Offset(ts, 1) = 0
  <2>1. PICK f : Offsets(ts, 1, f) /\ Offset(ts, 1) = f[1]
    BY OffsetIsOne
  <2>2. 1 \in 1 .. 1
    OBVIOUS
  <2> QED
    BY <2>1, <2>2 DEF Offsets
<1>2. ASSUME NEW n \in Nat \ {0}
      PROVE  Offset(ts, n + 1) = Offset(ts, n) + RoundUp(ts[n].bytes)
  <2>1. PICK m \in Nat \ {0} : m = n + 1
    OBVIOUS
  <2>2. PICK f : Offsets(ts, n, f) /\ Offset(ts, n) = f[n]
    BY OffsetIsOne
  <2>3. PICK g : Offsets(ts, m, g) /\ Offset(ts, m) = g[m]
    BY OffsetIsOne
  <2> DEFINE S == {k \in 1 .. n : f[k] = g[k]}
  <2>4. \A k \in 1 .. n : f[k] = IF k = 1 THEN 0 ELSE f[k - 1] + RoundUp(ts[k - 1].bytes)
    BY <2>2 DEF Offsets
  <2>5. \A k \in 1 .. m : g[k] = IF k = 1 THEN 0 ELSE g[k - 1] + RoundUp(ts[k - 1].bytes)
    BY <2>3 DEF Offsets
  <2>6. 1 \in S
    BY <2>1, <2>4, <2>5
  <2>7. ASSUME NEW k \in 1 .. n - 1, k \in S PROVE k + 1 \in S
    <3>1. PICK j \in 1 .. n : j = k + 1
      BY <2>7
    <3>2. j # 1 /\ j - 1 = k /\ j \in 1 .. m
      BY <2>1, <3>1
    <3>3. f[j] = f[k] + RoundUp(ts[k].bytes) /\ g[j] = g[k] + RoundUp(ts[k].bytes)
      BY <2>4, <2>5, <3>2
    <3>4. f[j] = g[j]
      BY <2>7, <3>3
    <3> QED
      BY <3>1, <3>4
  <2> HIDE DEF S
  <2>8. \A k \in 1 .. n : k \in S
    BY <2>6, <2>7, IntervalInduction
  <2>9. n \in 1 .. n /\ m \in 1 .. m /\ m # 1 /\ m - 1 = n
    BY <2>1
  <2>10. f[n] = g[n]
    BY <2>8, <2>9 DEF S
  <2>11. g[m] = g[n] + RoundUp(ts[n].bytes)
    BY <2>5, <2>9
  <2> QED
    BY <2>1, <2>2, <2>3, <2>10, <2>11
<1> QED
  BY <1>1, <1>2

LEMMA OffsetFacts ==
    ASSUME NEW ts \in Plans
    PROVE  /\ \A i \in 1 .. Len(ts) + 1 : Aligned(Offset(ts, i))
           /\ \A i, j \in 1 .. Len(ts) + 1 : i <= j => Offset(ts, i) <= Offset(ts, j)
           /\ \A i \in 2 .. Len(ts) + 1 : ts[1].bytes <= Offset(ts, i)
<1>1. /\ Len(ts) \in Nat \ {0}
      /\ \A i \in 1 .. Len(ts) : ts[i].bytes \in Nat
  <2>1. ts \in Seq(Tensor) /\ Len(ts) > 0
    BY DEF Plans
  <2>2. \A i \in 1 .. Len(ts) : ts[i] \in Tensor
    BY <2>1
  <2>3. \A t \in Tensor : t.bytes \in Nat
    BY DEF Tensor
  <2> QED
    BY <2>1, <2>2, <2>3
<1>2. PICK n \in Nat \ {0} : n = Len(ts) + 1
  BY <1>1
<1>3. ASSUME NEW i \in 1 .. n - 1
      PROVE  /\ ts[i].bytes \in Nat /\ RoundUp(ts[i].bytes) \in Nat
             /\ ts[i].bytes <= RoundUp(ts[i].bytes) /\ Aligned(RoundUp(ts[i].bytes))
  <2>1. PICK b \in Nat : b = ts[i].bytes
    BY <1>1, <1>2
  <2>2. RoundUp(b) \in Nat /\ b <= RoundUp(b) /\ Aligned(RoundUp(b))
    BY RoundUpFacts
  <2> QED
    BY <2>1, <2>2
<1>4. \A i \in 1 .. n : Aligned(Offset(ts, i))
  <2> DEFINE S == {i \in 1 .. n : Aligned(Offset(ts, i))}
  <2>1. 1 \in S
    <3>1. Align * 0 = 0
      BY ExportAssumption
    <3>2. Aligned(0)
      BY <3>1 DEF Aligned
    <3> QED
      BY <3>2, OffsetNext
  <2>2. ASSUME NEW k \in 1 .. n - 1, k \in S PROVE k + 1 \in S
    <3>1. k \in Nat \ {0} /\ k + 1 \in 1 .. n
      BY <2>2
    <3>2. Offset(ts, k + 1) = Offset(ts, k) + RoundUp(ts[k].bytes)
      BY <3>1, OffsetNext
    <3>3. Aligned(Offset(ts, k) + RoundUp(ts[k].bytes))
      BY <1>3, <2>2, AlignedSum
    <3> QED
      BY <3>1, <3>2, <3>3
  <2> HIDE DEF S
  <2>3. \A k \in 1 .. n : k \in S
    BY <2>1, <2>2, IntervalInduction
  <2> QED
    BY <2>3 DEF S
<1>5. \A i \in 1 .. n : Offset(ts, i) \in Nat
  BY <1>4 DEF Aligned
<1>6. ASSUME NEW i \in 1 .. n
      PROVE  \A j \in i .. n : Offset(ts, i) <= Offset(ts, j)
  <2> DEFINE S == {j \in i .. n : Offset(ts, i) <= Offset(ts, j)}
  <2>1. i \in S /\ i \in Nat
    BY <1>5
  <2>2. ASSUME NEW k \in i .. n - 1, k \in S PROVE k + 1 \in S
    <3>1. k \in Nat \ {0} /\ k + 1 \in i .. n /\ k \in 1 .. n - 1
      BY <2>2
    <3>2. Offset(ts, k + 1) = Offset(ts, k) + RoundUp(ts[k].bytes)
      BY <3>1, OffsetNext
    <3>3. /\ Offset(ts, k) \in Nat /\ RoundUp(ts[k].bytes) \in Nat /\ Offset(ts, i) \in Nat
          /\ Offset(ts, i) <= Offset(ts, k)
      BY <1>3, <1>5, <2>2, <3>1
    <3>4. Offset(ts, i) <= Offset(ts, k + 1)
      BY <3>2, <3>3
    <3> QED
      BY <3>1, <3>4
  <2> HIDE DEF S
  <2>3. \A j \in i .. n : j \in S
    BY <2>1, <2>2, IntervalInduction
  <2> QED
    BY <2>3 DEF S
<1>7. \A i, j \in 1 .. n : i <= j => Offset(ts, i) <= Offset(ts, j)
  <2>1. \A i, j \in 1 .. n : i <= j => j \in i .. n
    OBVIOUS
  <2> QED
    BY <1>6, <2>1
<1>8. \A i \in 2 .. n : ts[1].bytes <= Offset(ts, i)
  <2>1. Offset(ts, 2) = RoundUp(ts[1].bytes)
    <3>1. Offset(ts, 1 + 1) = Offset(ts, 1) + RoundUp(ts[1].bytes) /\ Offset(ts, 1) = 0
      BY OffsetNext
    <3> QED
      BY <1>1, <1>2, <1>3, <3>1
  <2>2. ts[1].bytes \in Nat /\ ts[1].bytes <= RoundUp(ts[1].bytes) /\ RoundUp(ts[1].bytes) \in Nat
    <3>1. 1 \in 1 .. n - 1
      BY <1>1, <1>2
    <3> QED
      BY <1>3, <3>1
  <2>3. \A i \in 2 .. n : Offset(ts, 2) <= Offset(ts, i) /\ Offset(ts, i) \in Nat
    BY <1>5, <1>7
  <2> QED
    BY <2>1, <2>2, <2>3
<1> QED
  BY <1>2, <1>4, <1>7, <1>8

-----------------------------------------------------------------------------
(* Places in the file.                                                     *)

LEMMA PlanFacts ==
    ASSUME NEW ts \in Plans
    PROVE  /\ ts \in Seq(Tensor) /\ Len(ts) \in Nat \ {0}
           /\ \A i \in 1 .. Len(ts) : /\ ts[i].bytes \in Nat /\ ts[i].elems \in Nat \ {0}
                                      /\ ts[i].f16 => 2 * ts[i].elems <= ts[i].bytes
<1>1. ts \in Seq(Tensor) /\ Len(ts) > 0
  BY DEF Plans
<1>2. \A i \in 1 .. Len(ts) : ts[i] \in Tensor
  BY <1>1
<1>3. \A t \in Tensor : t.bytes \in Nat /\ t.elems \in Nat \ {0}
  BY DEF Tensor
<1> QED
  BY <1>1, <1>2, <1>3 DEF Plans

LEMMA KeysFacts ==
    /\ \A k \in Nat : KeysEnd(k) \in Nat /\ KeysEnd(k + 1) = KeysEnd(k) + KeyLen
    /\ \A j, k \in Nat : j <= k => KeysEnd(j) <= KeysEnd(k)
    /\ KeysEnd(0) = HeadLen
<1>1. HeadLen \in Nat /\ KeyLen \in Nat \ {0}
  BY ExportAssumption
<1>2. ASSUME NEW j \in Nat, NEW k \in Nat
      PROVE  /\ KeysEnd(k) \in Nat /\ KeysEnd(k + 1) = KeysEnd(k) + KeyLen
             /\ j <= k => KeysEnd(j) <= KeysEnd(k)
  <2>1. /\ KeyLen * j \in Nat /\ KeyLen * k \in Nat /\ KeyLen * (k + 1) = KeyLen * k + KeyLen
        /\ j <= k => KeyLen * j <= KeyLen * k
    BY <1>1, ProductFacts
  <2> QED
    BY <1>1, <2>1 DEF KeysEnd
<1>3. KeyLen * 0 = 0
  BY <1>1
<1> QED
  BY <1>1, <1>2, <1>3 DEF KeysEnd

LEMMA TableFacts ==
    ASSUME nMeta \in Nat
    PROVE  /\ \A k \in Nat : TableEnd(k) \in Nat /\ TableEnd(k + 1) = TableEnd(k) + EntryLen
           /\ \A j, k \in Nat : j <= k => TableEnd(j) <= TableEnd(k)
           /\ TableEnd(0) = KeysEnd(nMeta)
           /\ EntryLen \in Nat /\ EntryLen = NameLen + InfoLen
<1>1. EntryLen \in Nat /\ EntryLen = NameLen + InfoLen
  BY ExportAssumption DEF EntryLen
<1>2. KeysEnd(nMeta) \in Nat
  BY KeysFacts
<1>3. ASSUME NEW j \in Nat, NEW k \in Nat
      PROVE  /\ TableEnd(k) \in Nat /\ TableEnd(k + 1) = TableEnd(k) + EntryLen
             /\ j <= k => TableEnd(j) <= TableEnd(k)
  <2>1. /\ EntryLen * j \in Nat /\ EntryLen * k \in Nat
        /\ EntryLen * (k + 1) = EntryLen * k + EntryLen
        /\ j <= k => EntryLen * j <= EntryLen * k
    BY <1>1, ProductFacts
  <2> QED
    BY <1>1, <1>2, <2>1 DEF TableEnd
<1>4. TableEnd(0) = KeysEnd(nMeta)
  <2>1. EntryLen * 0 = 0
    BY <1>1
  <2> QED
    BY <1>2, <2>1 DEF TableEnd
<1> QED
  BY <1>1, <1>3, <1>4

LEMMA DataFacts ==
    ASSUME nMeta \in Nat, tensors \in Plans
    PROVE  /\ DataBegin \in Nat /\ TableEnd(Len(tensors)) <= DataBegin
           /\ Begin(1) = DataBegin
           /\ \A i \in 1 .. Len(tensors) + 1 : Aligned(Begin(i)) /\ Begin(i) \in Nat
           /\ \A i, j \in 1 .. Len(tensors) + 1 : i <= j => Begin(i) <= Begin(j)
           /\ \A i \in 1 .. Len(tensors) : Begin(i + 1) = Begin(i) + RoundUp(tensors[i].bytes)
           /\ \A i \in 2 .. Len(tensors) + 1 : DataBegin + tensors[1].bytes <= Begin(i)
           /\ \A i \in 1 .. Len(tensors) + 1 : Offset(tensors, i) \in Nat
<1>1. PICK l \in Nat \ {0} : l = Len(tensors)
  BY PlanFacts
<1>2. TableEnd(l) \in Nat
  BY TableFacts
<1>3. Aligned(DataBegin) /\ DataBegin \in Nat /\ TableEnd(l) <= DataBegin
  BY <1>1, <1>2, RoundUpFacts DEF DataBegin
<1>4. \A i \in 1 .. l + 1 : Aligned(Offset(tensors, i)) /\ Offset(tensors, i) \in Nat
  BY <1>1, OffsetFacts DEF Aligned
<1>5. \A i \in 1 .. l + 1 : Aligned(Begin(i)) /\ Begin(i) \in Nat
  BY <1>3, <1>4, AlignedSum DEF Begin, Aligned
<1>6. \A i, j \in 1 .. l + 1 : i <= j => Begin(i) <= Begin(j)
  <2>1. \A i, j \in 1 .. l + 1 : i <= j => Offset(tensors, i) <= Offset(tensors, j)
    BY <1>1, OffsetFacts
  <2> QED
    BY <1>3, <1>4, <2>1 DEF Begin
<1>7. ASSUME NEW i \in 1 .. l PROVE Begin(i + 1) = Begin(i) + RoundUp(tensors[i].bytes)
  <2>1. Offset(tensors, i + 1) = Offset(tensors, i) + RoundUp(tensors[i].bytes)
    BY OffsetNext
  <2>2. Offset(tensors, i) \in Nat
    BY <1>4
  <2>3. RoundUp(tensors[i].bytes) \in Nat
    <3>1. tensors[i].bytes \in Nat
      BY <1>1, PlanFacts
    <3> QED
      BY <3>1, RoundUpFacts
  <2> QED
    BY <1>3, <2>1, <2>2, <2>3 DEF Begin
<1>8. Begin(1) = DataBegin
  BY <1>3, OffsetNext DEF Begin
<1>9. \A i \in 2 .. l + 1 : DataBegin + tensors[1].bytes <= Begin(i)
  <2>1. \A i \in 2 .. l + 1 : tensors[1].bytes <= Offset(tensors, i)
    BY <1>1, OffsetFacts
  <2>2. tensors[1].bytes \in Nat
    BY <1>1, PlanFacts
  <2> QED
    BY <1>3, <1>4, <2>1, <2>2 DEF Begin
<1> QED
  BY <1>1, <1>3, <1>4, <1>5, <1>6, <1>7, <1>8, <1>9

\* Padding after something that begins at p and ends b further.
LEMMA PaddedAt ==
    ASSUME NEW a \in Nat, Aligned(a), NEW b \in Nat, NEW p \in Nat,
           p = a \/ (p > LongMax /\ a > LongMax)
    PROVE  LET q == Padded(p + b)
               e == a + RoundUp(b)
           IN  q \in Nat /\ (q = e \/ (q > LongMax /\ e > LongMax))
<1>1. LongMax \in Nat
  BY ExportAssumption
<1>2. RoundUp(b) \in Nat /\ b <= RoundUp(b) /\ RoundUp(p + b) \in Nat
  BY RoundUpFacts
<1>3. CASE p + b > LongMax
  BY <1>1, <1>2, <1>3 DEF Padded
<1>4. CASE ~(p + b > LongMax)
  <2>1. p = a
    BY <1>1, <1>4
  <2>2. RoundUp(a + b) = a + RoundUp(b)
    BY RoundUpShift
  <2> QED
    BY <1>2, <1>4, <2>1, <2>2 DEF Padded
<1> QED
  BY <1>3, <1>4

\* What does not change while the plan stays what it is.
LEMMA Frame ==
    ASSUME tensors' = tensors, nMeta' = nMeta
    PROVE  /\ \A i : InfoRecord(i)' = InfoRecord(i)
           /\ \A i : Begin(i)' = Begin(i)
           /\ \A p, i : At(p, i)' <=> At(p, i)
           /\ \A k : TableEnd(k)' = TableEnd(k)
           /\ TableEnd(Len(tensors))' = TableEnd(Len(tensors))
           /\ DataBegin' = DataBegin
<1>1. \A k : TableEnd(k)' = TableEnd(k)
  BY DEF TableEnd
<1>2. TableEnd(Len(tensors))' = TableEnd(Len(tensors))
  BY DEF TableEnd
<1>3. DataBegin' = DataBegin
  BY <1>2 DEF DataBegin
<1>4. \A i : Begin(i)' = Begin(i)
  BY <1>3 DEF Begin
<1>5. \A i : InfoRecord(i)' = InfoRecord(i)
  BY DEF InfoRecord
<1> QED
  BY <1>1, <1>2, <1>3, <1>4, <1>5 DEF At

LEMMA FrameRecords ==
    ASSUME tensors' = tensors, nMeta' = nMeta, records' = records
    PROVE  /\ TableWritten' <=> TableWritten
           /\ KeysWritten' <=> KeysWritten
  BY Frame DEF TableWritten, KeysWritten

-----------------------------------------------------------------------------
(* The writer's steps.                                                     *)

LEMMA InitExport == ExportInit => ExportInv
<1> SUFFICES ASSUME ExportInit PROVE ExportInv
  OBVIOUS
<1>1. /\ xpc = "idle" /\ tensors = << >> /\ tokKeys = 0 /\ nMeta = 0 /\ dataAt = << >>
      /\ pos = 0 /\ tdo = 0 /\ rptr = 0 /\ rrec = 1 /\ infos = << >>
  BY DEF ExportInit
<1>2. ExportTypeInv
  BY <1>1 DEF ExportTypeInv
<1>3. RecordsInv
  BY <1>1 DEF RecordsInv, Left, Reading
<1>4. PlaceInv
  BY <1>1 DEF PlaceInv
<1>5. ReaderInv
  BY <1>1 DEF ReaderInv
<1> QED
  BY <1>1, <1>2, <1>3, <1>4, <1>5 DEF ExportInv, ResultInv

\* The reader has not begun.
LEMMA WriterLeavesReader ==
    ASSUME ExportInv, UNCHANGED readerVars, xpc \in {"idle"} \cup Writing,
           xpc' \in Writing \cup {"broken", "closed"}
    PROVE  ReaderInv' /\ ResultInv'
<1>1. infos' = << >> /\ rrec' = 1
  BY DEF ExportInv, ReaderInv, readerVars
<1> QED
  BY <1>1 DEF ReaderInv, ResultInv, Writing

LEMMA BeginExportStep ==
    ASSUME ExportInv, NEW ts \in Plans, NEW keys \in Nat, BeginExport(ts, keys)
    PROVE  ExportInv'
<1>1. /\ xpc = "idle" /\ xpc' = "keys" /\ tensors' = ts /\ tokKeys' = keys
      /\ nMeta' = FixedKeys + keys /\ pos' = HeadLen
      /\ dataAt' = dataAt /\ UNCHANGED readerVars
  BY DEF BeginExport
<1>2. dataAt' = << >>
  BY <1>1 DEF ExportInv, RecordsInv
<1>3. ExportTypeInv'
  <2>1. Len(ts) \in Nat \ {0}
    BY PlanFacts
  <2>2. tdo' \in Nat /\ rptr' \in Nat /\ rrec' \in Nat
    BY <1>1 DEF ExportInv, ExportTypeInv, readerVars
  <2>3. /\ pos' \in Nat /\ nMeta' \in Nat /\ nMeta' = FixedKeys + tokKeys'
    BY <1>1, ExportAssumption
  <2> QED
    BY <1>1, <1>2, <2>1, <2>2, <2>3 DEF ExportTypeInv, Writing
<1>4. RecordsInv'
  BY <1>1, <1>2, KeysFacts DEF RecordsInv, Left, Reading
<1>5. PlaceInv'
  BY <1>1, <1>2 DEF PlaceInv
<1>6. ReaderInv' /\ ResultInv'
  BY <1>1, WriterLeavesReader DEF Writing
<1> QED
  BY <1>3, <1>4, <1>5, <1>6 DEF ExportInv

LEMMA WriteKeysStep ==
    ASSUME ExportInv, WriteKeys
    PROVE  ExportInv'
<1>1. /\ xpc = "keys" /\ xpc' = "table" /\ tensors' = tensors /\ tokKeys' = tokKeys
      /\ nMeta' = nMeta /\ pos' = pos + KeyLen * (FixedKeys + tokKeys)
      /\ records' = [i \in 1 .. FixedKeys + tokKeys |-> KeyRecord]
      /\ dataAt' = dataAt /\ UNCHANGED readerVars
  BY DEF WriteKeys
<1>2. /\ dataAt' = << >> /\ nMeta = FixedKeys + tokKeys /\ nMeta \in Nat
      /\ pos = HeadLen
  BY <1>1, KeysFacts DEF ExportInv, RecordsInv, ExportTypeInv
<1>3. pos' = KeysEnd(nMeta) /\ KeysEnd(nMeta) \in Nat
  BY <1>1, <1>2, KeysFacts DEF KeysEnd
<1>4. ExportTypeInv'
  <2>1. tdo' \in Nat /\ rptr' \in Nat /\ rrec' \in Nat
    BY <1>1 DEF ExportInv, ExportTypeInv, readerVars
  <2> QED
    BY <1>1, <1>3, <2>1 DEF ExportInv, ExportTypeInv, Writing
<1>5. records' \in Seq({KeyRecord}) /\ Len(records') = nMeta
      /\ \A k \in 1 .. nMeta : records'[k] = KeyRecord
  <2> DEFINE key == KeyRecord
  <2>1. records' = [i \in 1 .. nMeta |-> key]
    BY <1>1, <1>2
  <2> HIDE DEF key
  <2>2. records' \in Seq({key}) /\ Len(records') = nMeta /\ \A k \in 1 .. nMeta : records'[k] = key
    BY <1>2, <2>1
  <2> QED
    BY <2>2 DEF key
<1>6. KeysWritten'
  <2>1. KeyRecord.len = KeyLen
    BY DEF KeyRecord
  <2> QED
    BY <1>1, <1>5, <2>1 DEF KeysWritten
<1>7. RecordsInv'
  BY <1>1, <1>2, <1>3, <1>5, <1>6 DEF RecordsInv, Left, Reading
<1>8. PlaceInv'
  BY <1>1, <1>2 DEF PlaceInv
<1>9. ReaderInv' /\ ResultInv'
  BY <1>1, WriterLeavesReader DEF Writing
<1> QED
  BY <1>4, <1>7, <1>8, <1>9 DEF ExportInv

LEMMA WriteTableStep ==
    ASSUME ExportInv, WriteTable
    PROVE  ExportInv'
<1>1. /\ xpc = "table" /\ xpc' = "data" /\ tensors' = tensors /\ tokKeys' = tokKeys
      /\ nMeta' = nMeta /\ pos' = Padded(pos + Len(tensors) * (NameLen + InfoLen))
      /\ records' = records \o [i \in 1 .. Len(tensors) |-> InfoRecord(i)]
      /\ dataAt' = dataAt /\ UNCHANGED readerVars
  BY DEF WriteTable
<1>2. /\ dataAt' = << >> /\ nMeta \in Nat /\ pos = KeysEnd(nMeta)
      /\ records \in Seq({KeyRecord}) /\ Len(records) = nMeta /\ KeysWritten
      /\ tensors \in Plans
  BY <1>1 DEF ExportInv, RecordsInv, ExportTypeInv
<1>3. PICK l \in Nat \ {0} : l = Len(tensors)
  BY <1>2, PlanFacts
<1>4. pos' \in Nat /\ At(pos', 1)
  <2>1. pos + l * (NameLen + InfoLen) = TableEnd(l) /\ TableEnd(l) \in Nat
    <3>1. EntryLen \in Nat /\ EntryLen = NameLen + InfoLen /\ TableEnd(l) \in Nat
      BY <1>2, TableFacts
    <3>2. l * EntryLen = EntryLen * l
      BY <3>1, ProductFacts
    <3> QED
      BY <1>2, <3>1, <3>2 DEF TableEnd
  <2>2. DataBegin = RoundUp(TableEnd(l)) /\ TableEnd(l) <= DataBegin /\ DataBegin \in Nat
    BY <1>2, <1>3, DataFacts DEF DataBegin
  <2>3. pos' = Padded(TableEnd(l))
    BY <1>1, <1>3, <2>1
  <2>4. pos' = DataBegin \/ (pos' > LongMax /\ DataBegin > LongMax)
    BY <2>1, <2>2, <2>3, ExportAssumption DEF Padded
  <2>5. pos' \in Nat
    BY <2>1, <2>2, <2>3 DEF Padded
  <2>6. Begin(1) = DataBegin
    BY <1>2, DataFacts
  <2> QED
    BY <2>4, <2>5, <2>6 DEF At
<1>5. ExportTypeInv'
  <2>1. tdo' \in Nat /\ rptr' \in Nat /\ rrec' \in Nat
    BY <1>1 DEF ExportInv, ExportTypeInv, readerVars
  <2> QED
    BY <1>1, <1>2, <1>3, <1>4, <2>1 DEF ExportInv, ExportTypeInv, Writing
<1>6. KeysWritten' /\ TableWritten'
  <2> DEFINE entries == [i \in 1 .. l |-> InfoRecord(i)]
             S == {KeyRecord} \cup {InfoRecord(i) : i \in 1 .. l}
  <2>1. records' = records \o entries
    BY <1>1, <1>3
  <2>2. records \in Seq(S) /\ entries \in Seq(S) /\ Len(entries) = l
    BY <1>2
  <2>3. \A i \in 1 .. l : entries[i] = InfoRecord(i)
    OBVIOUS
  <2> HIDE DEF entries, S
  <2>4. /\ Len(records') = nMeta + l
        /\ \A k \in 1 .. nMeta : records'[k] = records[k]
        /\ \A i \in 1 .. l : records'[nMeta + i] = entries[i]
    <3>1. /\ Len(records') = Len(records) + Len(entries)
          /\ \A k \in 1 .. Len(records) + Len(entries) :
                records'[k] = IF k <= Len(records) THEN records[k] ELSE entries[k - Len(records)]
      BY <2>1, <2>2, ConcatProperties
    <3>2. ASSUME NEW i \in 1 .. l PROVE records'[nMeta + i] = entries[i]
      <4>1. PICK k \in 1 .. nMeta + l : k = nMeta + i
        BY <1>2
      <4>2. ~(k <= nMeta) /\ k - nMeta = i
        BY <1>2, <4>1
      <4> QED
        BY <1>2, <2>2, <3>1, <4>1, <4>2
    <3> QED
      BY <1>2, <2>2, <3>1, <3>2
  <2>5. \A i : InfoRecord(i)' = InfoRecord(i)
    BY <1>1, Frame
  <2> QED
    BY <1>1, <1>2, <1>3, <2>3, <2>4, <2>5 DEF KeysWritten, TableWritten
<1>7. RecordsInv'
  BY <1>1, <1>2, <1>6 DEF RecordsInv, Left, Reading
<1>8. PlaceInv'
  <2>1. Len(dataAt') = 0 /\ Len(dataAt') + 1 = 1
    BY <1>2
  <2>2. /\ \A p, i : At(p, i)' <=> At(p, i)
        /\ \A i : Begin(i)' = Begin(i)
    BY <1>1, Frame
  <2>3. At(pos, Len(dataAt) + 1)'
    BY <1>4, <2>1, <2>2
  <2>4. pos' <= Begin(1) \/ Begin(1) > LongMax
    <3>1. Begin(1) \in Nat
      BY <1>2, <1>3, DataFacts
    <3> QED
      BY <1>4, <3>1 DEF At
  <2>5. pos' <= Begin(Len(dataAt) + 1)' \/ Begin(Len(dataAt) + 1)' > LongMax
    BY <2>1, <2>2, <2>4
  <2> QED
    BY <1>1, <2>1, <2>3, <2>5 DEF PlaceInv
<1>9. ReaderInv' /\ ResultInv'
  BY <1>1, WriterLeavesReader DEF Writing
<1> QED
  BY <1>5, <1>7, <1>8, <1>9 DEF ExportInv

LEMMA WriteDataStep ==
    ASSUME ExportInv, WriteData
    PROVE  ExportInv'
<1>1. /\ xpc = "data" /\ tensors' = tensors /\ tokKeys' = tokKeys /\ nMeta' = nMeta
      /\ records' = records /\ UNCHANGED readerVars
      /\ dataAt' = Append(dataAt, pos)
      /\ pos' = Padded(pos + tensors[Len(dataAt) + 1].bytes)
      /\ xpc' = IF Len(dataAt) + 1 = Len(tensors) THEN "written" ELSE "data"
  BY DEF WriteData
<1>2. /\ nMeta \in Nat /\ tensors \in Plans /\ dataAt \in Seq(Nat) /\ pos \in Nat
      /\ KeysWritten /\ TableWritten
  BY <1>1 DEF ExportInv, RecordsInv, ExportTypeInv
<1>3. PICK l \in Nat \ {0}, n \in Nat : l = Len(tensors) /\ n = Len(dataAt) /\ n < l
  BY <1>1, <1>2, PlanFacts DEF ExportInv, ExportTypeInv
<1>4. PICK j \in 1 .. l : j = n + 1
  BY <1>3
<1>5. /\ dataAt' \in Seq(Nat) /\ Len(dataAt') = j /\ dataAt'[j] = pos
      /\ \A i \in 1 .. n : dataAt'[i] = dataAt[i]
  BY <1>1, <1>2, <1>3, <1>4
<1>6. At(pos, j) /\ \A i \in 1 .. n : At(dataAt[i], i)
  BY <1>1, <1>3, <1>4 DEF ExportInv, PlaceInv
<1>7. /\ Begin(j) \in Nat /\ Aligned(Begin(j))
      /\ j + 1 \in 1 .. l + 1 /\ Begin(j + 1) \in Nat
      /\ Begin(j + 1) = Begin(j) + RoundUp(tensors[j].bytes)
  BY <1>2, <1>3, <1>4, DataFacts
<1>8. pos' \in Nat /\ At(pos', j + 1)
  <2>1. PICK a \in Nat, b \in Nat : a = Begin(j) /\ b = tensors[j].bytes
    BY <1>2, <1>3, <1>4, <1>7, PlanFacts
  <2>2. pos = a \/ (pos > LongMax /\ a > LongMax)
    BY <1>6, <2>1 DEF At
  <2>3. LET q == Padded(pos + b)
            e == a + RoundUp(b)
        IN  q \in Nat /\ (q = e \/ (q > LongMax /\ e > LongMax))
    BY <1>2, <1>7, <2>1, <2>2, PaddedAt
  <2>4. pos' = Padded(pos + b)
    BY <1>1, <1>3, <1>4, <2>1
  <2> QED
    BY <1>7, <2>1, <2>3, <2>4 DEF At
<1>9. ExportTypeInv'
  <2>1. tdo' \in Nat /\ rptr' \in Nat /\ rrec' \in Nat
    BY <1>1 DEF ExportInv, ExportTypeInv, readerVars
  <2>2. tokKeys' \in Nat /\ nMeta' \in Nat /\ nMeta' = FixedKeys + tokKeys'
    BY <1>1 DEF ExportInv, ExportTypeInv
  <2>3. Len(dataAt') <= Len(tensors') /\ (xpc' = "data" => Len(dataAt') < Len(tensors'))
    BY <1>1, <1>3, <1>4, <1>5
  <2>4. xpc' \in {"data", "written"}
    BY <1>1
  <2> QED
    BY <1>1, <1>2, <1>5, <1>8, <2>1, <2>2, <2>3, <2>4 DEF ExportTypeInv, Writing
<1>10. RecordsInv'
  <2>1. KeysWritten' /\ TableWritten'
    BY <1>1, <1>2, FrameRecords
  <2> QED
    BY <1>1, <2>1 DEF RecordsInv, Left, Reading
<1>11. PlaceInv'
  <2>1. /\ \A p, i : At(p, i)' <=> At(p, i)
        /\ \A i : Begin(i)' = Begin(i)
    BY <1>1, Frame
  <2>2. ASSUME NEW i \in 1 .. j PROVE At(dataAt'[i], i)
    <3>1. CASE i = j
      BY <1>5, <1>6, <3>1
    <3>2. CASE i # j
      <4>1. i \in 1 .. n
        BY <1>4, <3>2
      <4> QED
        BY <1>5, <1>6, <4>1
    <3> QED
      BY <3>1, <3>2
  <2>3. \A i \in 1 .. Len(dataAt') : At(dataAt[i], i)'
    BY <1>5, <2>1, <2>2
  <2>4. At(pos, Len(dataAt) + 1)'
    BY <1>5, <1>8, <2>1
  <2>5. pos' <= Begin(j + 1) \/ Begin(j + 1) > LongMax
    BY <1>7, <1>8 DEF At
  <2>6. pos' <= Begin(Len(dataAt) + 1)' \/ Begin(Len(dataAt) + 1)' > LongMax
    BY <1>5, <2>1, <2>5
  <2> QED
    BY <2>3, <2>4, <2>6 DEF PlaceInv
<1>12. ReaderInv' /\ ResultInv'
  <2>1. xpc \in {"idle"} \cup Writing /\ xpc' \in Writing \cup {"broken", "closed"}
    BY <1>1 DEF Writing
  <2> QED
    BY <1>1, <2>1, WriterLeavesReader
<1> QED
  BY <1>9, <1>10, <1>11, <1>12 DEF ExportInv

\* The file gets no longer when fwrite or fclose fails, and nothing else
\* changes.
LEMMA CutStep ==
    ASSUME ExportInv, NEW p \in 0 .. pos, ExportThrows(p) \/ CloseExport(p)
    PROVE  ExportInv'
<1>1. /\ xpc \in {"table", "data", "written"} /\ pos' = p
      /\ xpc' = "broken" \/ (xpc' = "closed" /\ xpc = "written")
      /\ tensors' = tensors /\ tokKeys' = tokKeys /\ nMeta' = nMeta /\ records' = records
      /\ dataAt' = dataAt /\ UNCHANGED readerVars
  BY DEF ExportThrows, CloseExport
<1>2. /\ pos \in Nat /\ p \in Nat /\ p <= pos /\ nMeta \in Nat /\ tensors \in Plans
      /\ Len(tensors) \in Nat \ {0} /\ Len(dataAt) \in Nat
  BY <1>1, PlanFacts DEF ExportInv, ExportTypeInv
<1>3. ExportTypeInv'
  BY <1>1, <1>2 DEF ExportInv, ExportTypeInv, readerVars, Left
<1>4. /\ KeysWritten' /\ (TableWritten' <=> TableWritten)
      /\ xpc = "table" => dataAt = << >> /\ Len(records) = nMeta
      /\ xpc # "table" => TableWritten
  BY <1>1, FrameRecords DEF ExportInv, RecordsInv
<1>5. RecordsInv'
  BY <1>1, <1>4 DEF RecordsInv, Left, Reading
<1>6. PlaceInv'
  <2>1. /\ \A q, i : At(q, i)' <=> At(q, i)
        /\ \A i : Begin(i)' = Begin(i)
    BY <1>1, Frame
  <2>2. \A i \in 1 .. Len(dataAt') : At(dataAt[i], i)'
    BY <1>1, <2>1 DEF ExportInv, PlaceInv
  <2>3. ASSUME TableWritten, Len(dataAt) < Len(tensors)
        PROVE  p <= Begin(Len(dataAt) + 1) \/ Begin(Len(dataAt) + 1) > LongMax
    <3>1. xpc # "table"
      BY <1>2, <1>4, <2>3 DEF TableWritten
    <3>2. pos <= Begin(Len(dataAt) + 1) \/ Begin(Len(dataAt) + 1) > LongMax
      BY <1>1, <2>3, <3>1 DEF ExportInv, PlaceInv
    <3>3. Begin(Len(dataAt) + 1) \in Nat
      <4>1. \A i \in 1 .. Len(tensors) + 1 : Begin(i) \in Nat
        BY <1>2, DataFacts
      <4>2. Len(dataAt) + 1 \in 1 .. Len(tensors) + 1
        BY <1>2, <2>3
      <4> QED
        BY <4>1, <4>2
    <3> QED
      BY <1>2, <3>2, <3>3
  <2>4. xpc' # "data"
    BY <1>1
  <2>5. TableWritten' /\ Len(dataAt') < Len(tensors') =>
           pos' <= Begin(Len(dataAt) + 1)' \/ Begin(Len(dataAt) + 1)' > LongMax
    BY <1>1, <1>4, <2>1, <2>3
  <2> QED
    BY <2>2, <2>4, <2>5 DEF PlaceInv
<1>7. ReaderInv' /\ ResultInv'
  BY <1>1, WriterLeavesReader DEF Writing
<1> QED
  BY <1>3, <1>5, <1>6, <1>7 DEF ExportInv

-----------------------------------------------------------------------------
(* The reader's steps.                                                     *)

\* The file is what it was.
LEMMA ReaderLeavesFile ==
    ASSUME ExportInv, UNCHANGED writerVars, xpc \in {"broken", "closed"} \cup Reading,
           xpc' \in {"refused"} \cup Reading
    PROVE  /\ RecordsInv' /\ PlaceInv'
           /\ tdo' \in Nat /\ rptr' \in Nat /\ rrec' \in Nat => ExportTypeInv'
<1>1. /\ tensors' = tensors /\ tokKeys' = tokKeys /\ nMeta' = nMeta /\ records' = records
      /\ dataAt' = dataAt /\ pos' = pos
  BY DEF writerVars
<1>2. RecordsInv'
  <2>1. KeysWritten /\ (TableWritten \/ (Len(records) = nMeta /\ dataAt = << >>))
    BY DEF ExportInv, RecordsInv, Left, Reading
  <2>2. KeysWritten' /\ (TableWritten' <=> TableWritten)
    BY <1>1, <2>1, FrameRecords
  <2>3. xpc' \notin {"idle", "keys", "table", "data", "written", "closed"}
    BY DEF Reading
  <2> QED
    BY <1>1, <2>1, <2>2, <2>3 DEF RecordsInv
<1>3. PlaceInv'
  <2>1. /\ \A q, i : At(q, i)' <=> At(q, i)
        /\ \A i : Begin(i)' = Begin(i)
    BY <1>1, Frame
  <2>2. xpc \notin {"idle", "keys", "table"} /\ xpc' \notin {"idle", "data"}
    BY DEF Reading
  <2>3. \A i \in 1 .. Len(dataAt') : At(dataAt[i], i)'
    BY <1>1, <2>1, <2>2 DEF ExportInv, PlaceInv
  <2>4. TableWritten' /\ Len(dataAt') < Len(tensors') =>
           pos' <= Begin(Len(dataAt) + 1)' \/ Begin(Len(dataAt) + 1)' > LongMax
    BY <1>1, <2>1, <2>2, FrameRecords DEF ExportInv, PlaceInv
  <2> QED
    BY <2>2, <2>3, <2>4 DEF PlaceInv
<1>4. ASSUME tdo' \in Nat, rptr' \in Nat, rrec' \in Nat
      PROVE  ExportTypeInv'
  BY <1>1, <1>4 DEF ExportInv, ExportTypeInv, Reading, Left
<1> QED
  BY <1>2, <1>3, <1>4

LEMMA OpenFileStep ==
    ASSUME ExportInv, OpenFile
    PROVE  ExportInv'
<1>1. /\ xpc \in {"broken", "closed"} /\ rptr' = HeadLen /\ xpc' \in {"refused", "rkeys"}
      /\ UNCHANGED writerVars /\ tdo' = tdo /\ rrec' = rrec /\ infos' = infos
  BY DEF OpenFile
<1>2. rrec = 1 /\ infos = << >> /\ nMeta \in Nat /\ tdo \in Nat
  BY <1>1 DEF ExportInv, ReaderInv, ExportTypeInv
<1>3. RecordsInv' /\ PlaceInv' /\ ExportTypeInv'
  <2>1. xpc \in {"broken", "closed"} \cup Reading /\ xpc' \in {"refused"} \cup Reading
    BY <1>1 DEF Reading
  <2>2. tdo' \in Nat /\ rptr' \in Nat /\ rrec' \in Nat
    BY <1>1, <1>2, ExportAssumption
  <2> QED
    BY <1>1, <2>1, <2>2, ReaderLeavesFile
<1>4. ReaderInv'
  <2>1. nMeta' = nMeta /\ tensors' = tensors /\ Len(tensors) \in Nat
    BY <1>1, PlanFacts DEF writerVars, ExportInv, ExportTypeInv
  <2>2. rrec' \in 1 .. nMeta' + 1 /\ rptr' = KeysEnd(rrec' - 1)
    BY <1>1, <1>2, <2>1, KeysFacts
  <2> QED
    BY <1>1, <1>2, <2>1, <2>2 DEF ReaderInv, Writing
<1> QED
  BY <1>1, <1>3, <1>4 DEF ExportInv, ResultInv

LEMMA ReadKeyStep ==
    ASSUME ExportInv, ReadKey
    PROVE  ExportInv'
<1>1. /\ xpc = "rkeys" /\ xpc' = "rkeys" /\ rrec <= nMeta
      /\ rptr' = rptr + records[rrec].len /\ rrec' = rrec + 1
      /\ UNCHANGED writerVars /\ tdo' = tdo /\ infos' = infos
  BY DEF ReadKey
<1>2. /\ infos = << >> /\ nMeta \in Nat /\ tdo \in Nat
      /\ rrec \in 1 .. nMeta /\ rptr = KeysEnd(rrec - 1) /\ tensors \in Plans
      /\ KeysWritten
  BY <1>1 DEF ExportInv, ReaderInv, ExportTypeInv, RecordsInv
<1>3. PICK k \in Nat : k + 1 = rrec
  BY <1>2
<1>4. rptr' = KeysEnd(k + 1) /\ KeysEnd(k + 1) \in Nat /\ rrec' \in 1 .. nMeta + 1
      /\ rrec' - 1 = k + 1
  <2>1. records[rrec].len = KeyLen
    BY <1>2 DEF KeysWritten
  <2>2. rrec - 1 = k
    BY <1>2, <1>3
  <2>3. rptr = KeysEnd(k)
    BY <1>2, <2>2
  <2>4. KeysEnd(k + 1) = KeysEnd(k) + KeyLen /\ KeysEnd(k + 1) \in Nat
    BY KeysFacts
  <2> QED
    BY <1>1, <1>2, <1>3, <2>1, <2>3, <2>4
<1>5. RecordsInv' /\ PlaceInv' /\ ExportTypeInv'
  <2>1. xpc \in {"broken", "closed"} \cup Reading /\ xpc' \in {"refused"} \cup Reading
    BY <1>1 DEF Reading
  <2>2. tdo' \in Nat /\ rptr' \in Nat /\ rrec' \in Nat
    BY <1>1, <1>2, <1>4
  <2> QED
    BY <1>1, <2>1, <2>2, ReaderLeavesFile
<1>6. ReaderInv'
  <2>1. nMeta' = nMeta /\ tensors' = tensors /\ Len(tensors) \in Nat
    BY <1>1, <1>2, PlanFacts DEF writerVars
  <2>2. rrec' \in 1 .. nMeta' + 1 /\ rptr' = KeysEnd(rrec' - 1)
    BY <1>4, <2>1
  <2> QED
    BY <1>1, <1>2, <2>1, <2>2 DEF ReaderInv, Writing
<1> QED
  BY <1>1, <1>5, <1>6 DEF ExportInv, ResultInv

LEMMA EndKeysStep ==
    ASSUME ExportInv, EndKeys
    PROVE  ExportInv'
<1>1. /\ xpc = "rkeys" /\ xpc' = "rtable"
      /\ ~(rrec <= nMeta /\ rrec <= Len(records) /\ Whole(records[rrec].len))
      /\ rptr' = IF rrec > nMeta THEN rptr ELSE pos
      /\ UNCHANGED writerVars /\ tdo' = tdo /\ rrec' = rrec /\ infos' = infos
  BY DEF EndKeys
<1>2. /\ infos = << >> /\ nMeta \in Nat /\ tdo \in Nat /\ pos \in Nat
      /\ rrec \in 1 .. nMeta + 1 /\ rptr = KeysEnd(rrec - 1) /\ tensors \in Plans
      /\ KeysWritten /\ rptr \in Nat
      /\ TableWritten \/ (Len(records) = nMeta /\ dataAt = << >>)
  BY <1>1 DEF ExportInv, ReaderInv, ExportTypeInv, RecordsInv, Reading
<1>3. /\ nMeta' = nMeta /\ tensors' = tensors /\ records' = records /\ dataAt' = dataAt
      /\ pos' = pos
  BY <1>1 DEF writerVars
<1>4. PICK l \in Nat \ {0} : l = Len(tensors)
  BY <1>2, PlanFacts
<1>5. RecordsInv' /\ PlaceInv' /\ ExportTypeInv'
  <2>1. xpc \in {"broken", "closed"} \cup Reading /\ xpc' \in {"refused"} \cup Reading
    BY <1>1 DEF Reading
  <2>2. tdo' \in Nat /\ rptr' \in Nat /\ rrec' \in Nat
    BY <1>1, <1>2
  <2> QED
    BY <1>1, <2>1, <2>2, ReaderLeavesFile
<1>6. CASE rrec > nMeta
  <2>1. rrec = nMeta + 1 /\ rrec - 1 = nMeta
    BY <1>2, <1>6
  <2>2. rptr' = TableEnd(0)
    BY <1>1, <1>2, <1>6, <2>1, TableFacts
  <2>3. TableEnd(0)' = TableEnd(0)
    BY <1>3, Frame
  <2>4. InTable'
    BY <1>1, <1>2, <1>3, <2>1, <2>2, <2>3 DEF InTable
  <2> QED
    BY <1>1, <1>2, <1>3, <1>5, <2>4 DEF ReaderInv, ExportInv, ResultInv, Writing
<1>7. CASE ~(rrec > nMeta)
  <2>1. rptr' = pos /\ rrec <= nMeta
    BY <1>1, <1>2, <1>7
  <2>2. PICK k \in Nat : k + 1 = rrec
    BY <1>2
  <2>3. k + 1 <= nMeta /\ rrec - 1 = k /\ rrec \in 1 .. nMeta
    BY <1>2, <2>1, <2>2
  <2>4. rptr = KeysEnd(k) /\ records[rrec].len = KeyLen
    BY <1>2, <2>3 DEF KeysWritten
  <2>5. /\ KeysEnd(k + 1) = KeysEnd(k) + KeyLen /\ KeysEnd(k + 1) <= KeysEnd(nMeta)
        /\ KeysEnd(k) \in Nat /\ KeysEnd(nMeta) \in Nat /\ KeyLen \in Nat
    <3>1. KeysEnd(k + 1) = KeysEnd(k) + KeyLen /\ KeysEnd(k) \in Nat /\ KeysEnd(nMeta) \in Nat
      BY <1>2, KeysFacts
    <3>2. PICK m \in Nat : m = k + 1
      OBVIOUS
    <3>3. KeysEnd(m) <= KeysEnd(nMeta)
      BY <1>2, <2>3, <3>2, KeysFacts
    <3>4. KeysEnd(k + 1) <= KeysEnd(nMeta)
      BY <3>2, <3>3
    <3> QED
      BY <3>1, <3>4, ExportAssumption
  <2>6. rrec <= Len(records)
    BY <1>2, <1>4, <2>1 DEF TableWritten
  <2>7. ~(rptr + KeyLen <= pos)
    BY <1>1, <2>1, <2>4, <2>6 DEF Whole
  <2>8. pos < KeysEnd(nMeta)
    BY <1>2, <2>4, <2>5, <2>7
  <2>9. TableEnd(0) = KeysEnd(nMeta) /\ TableEnd(0) <= TableEnd(l) /\ TableEnd(l) \in Nat
    <3>1. 0 \in Nat /\ l \in Nat /\ 0 <= l
      OBVIOUS
    <3>2. TableEnd(0) <= TableEnd(l)
      BY <1>2, <3>1, TableFacts
    <3>3. TableEnd(0) = KeysEnd(nMeta) /\ TableEnd(l) \in Nat
      BY <1>2, <3>1, TableFacts
    <3> QED
      BY <3>2, <3>3
  <2>10. pos < TableEnd(Len(tensors))
    BY <1>2, <1>4, <2>5, <2>8, <2>9
  <2>11. TableEnd(Len(tensors))' = TableEnd(Len(tensors))
    BY <1>3, Frame
  <2>12. CutInTable'
    BY <1>3, <2>10, <2>11 DEF CutInTable
  <2> QED
    BY <1>1, <1>2, <1>3, <1>5, <2>1, <2>12 DEF ReaderInv, ExportInv, ResultInv, Writing
<1> QED
  BY <1>6, <1>7

LEMMA ReadInfoStep ==
    ASSUME ExportInv, ReadInfo
    PROVE  ExportInv'
<1>1. /\ xpc = "rtable" /\ xpc' = "rtable" /\ Len(infos) < Len(tensors) /\ Readable
      /\ infos' = Append(infos, records[rrec])
      /\ rptr' = rptr + NameLen + InfoLen /\ rrec' = rrec + 1
      /\ UNCHANGED writerVars /\ tdo' = tdo
  BY DEF ReadInfo
<1>2. /\ nMeta \in Nat /\ tdo \in Nat /\ pos \in Nat /\ tensors \in Plans /\ rptr \in Nat
      /\ TableWritten \/ (Len(records) = nMeta /\ dataAt = << >>)
      /\ infos \in Seq({InfoRecord(i) : i \in 1 .. Len(tensors)})
      /\ InTable \/ (infos = << >> /\ rptr = pos /\ CutInTable)
  BY <1>1 DEF ExportInv, ReaderInv, ExportTypeInv, RecordsInv, Reading
<1>3. /\ nMeta' = nMeta /\ tensors' = tensors /\ records' = records /\ dataAt' = dataAt
      /\ pos' = pos
  BY <1>1 DEF writerVars
<1>4. PICK l \in Nat \ {0}, n \in Nat : l = Len(tensors) /\ n = Len(infos) /\ n < l
  BY <1>1, <1>2, PlanFacts
<1>5. PICK j \in 1 .. l : j = n + 1
  BY <1>4
<1>6. /\ NameLen \in Nat /\ InfoLen \in Nat /\ InfoLen > 4 /\ EntryLen = NameLen + InfoLen
      /\ rrec <= Len(records) /\ rptr + (NameLen + InfoLen - 4) <= pos
  BY <1>1, <1>2, TableFacts, ExportAssumption DEF Readable, Whole
<1>7. rptr # pos
  BY <1>2, <1>6
<1>8. InTable
  BY <1>2, <1>7
<1>9. rrec = nMeta + j /\ rptr = TableEnd(n)
  BY <1>2, <1>4, <1>5, <1>8 DEF InTable
<1>10. TableWritten
  BY <1>2, <1>5, <1>6, <1>9
<1>11. records[rrec] = InfoRecord(j) /\ (infos # << >> => InfosRight)
  BY <1>4, <1>8, <1>9, <1>10 DEF TableWritten, InTable
<1>12. rptr' = TableEnd(j) /\ TableEnd(j) \in Nat /\ rrec' = nMeta + j + 1 /\ rrec' \in Nat
  <2>1. TableEnd(n + 1) = TableEnd(n) + EntryLen /\ TableEnd(n) \in Nat
    BY <1>2, TableFacts
  <2>2. TableEnd(j) = TableEnd(n) + EntryLen
    BY <1>5, <2>1
  <2>3. TableEnd(j) \in Nat /\ rptr' = TableEnd(j)
    <3>1. PICK t \in Nat : t = TableEnd(n)
      BY <2>1
    <3>2. TableEnd(j) = t + (NameLen + InfoLen)
      BY <1>6, <2>2, <3>1
    <3>3. rptr' = t + NameLen + InfoLen
      BY <1>1, <1>9, <3>1
    <3> QED
      BY <1>6, <3>2, <3>3
  <2>4. rrec' = nMeta + j + 1 /\ rrec' \in Nat
    BY <1>1, <1>2, <1>5, <1>9
  <2> QED
    BY <2>3, <2>4
<1>13. /\ infos' \in Seq({InfoRecord(i) : i \in 1 .. l}) /\ Len(infos') = j
       /\ infos' # << >>
       /\ \A k \in 1 .. j : infos'[k] = InfoRecord(k)
  <2> DEFINE S == {InfoRecord(i) : i \in 1 .. l}
             entry == InfoRecord(j)
  <2>1. infos \in Seq(S) /\ entry \in S /\ infos' = Append(infos, entry)
    BY <1>1, <1>2, <1>4, <1>11
  <2>2. \A k \in 1 .. n : infos[k] = InfoRecord(k)
    BY <1>4, <1>11 DEF InfosRight
  <2> HIDE DEF S, entry
  <2>3. /\ infos' \in Seq(S) /\ Len(infos') = n + 1 /\ infos'[n + 1] = entry
        /\ \A k \in 1 .. n : infos'[k] = infos[k]
    BY <1>4, <2>1
  <2>4. Len(infos') = j /\ infos'[j] = entry
    BY <1>5, <2>3
  <2>5. ASSUME NEW k \in 1 .. j PROVE infos'[k] = InfoRecord(k)
    <3>1. CASE k = j
      BY <2>4, <3>1 DEF entry
    <3>2. CASE k # j
      <4>1. k \in 1 .. n
        BY <1>5, <3>2
      <4> QED
        BY <2>2, <2>3, <4>1
    <3> QED
      BY <3>1, <3>2
  <2>6. infos' # << >>
    BY <1>5, <2>4
  <2> QED
    BY <2>3, <2>4, <2>5, <2>6 DEF S
<1>14. RecordsInv' /\ PlaceInv' /\ ExportTypeInv'
  <2>1. xpc \in {"broken", "closed"} \cup Reading /\ xpc' \in {"refused"} \cup Reading
    BY <1>1 DEF Reading
  <2>2. tdo' \in Nat /\ rptr' \in Nat /\ rrec' \in Nat
    BY <1>1, <1>2, <1>12
  <2> QED
    BY <1>1, <2>1, <2>2, ReaderLeavesFile
<1>15. ReaderInv'
  <2>1. /\ \A i : InfoRecord(i)' = InfoRecord(i)
        /\ TableEnd(j)' = TableEnd(j) /\ (TableWritten' <=> TableWritten)
    BY <1>3, Frame, FrameRecords
  <2>2. InfosRight'
    BY <1>10, <1>13, <2>1 DEF InfosRight
  <2>3. InTable'
    <3>1. TableEnd(Len(infos))' = TableEnd(j)'
      BY <1>13
    <3> QED
      BY <1>3, <1>5, <1>12, <1>13, <2>1, <2>2, <3>1 DEF InTable
  <2>4. infos' \in Seq({InfoRecord(i) : i \in 1 .. Len(tensors)})'
    BY <1>3, <1>4, <1>13, <2>1
  <2>5. Len(infos') <= Len(tensors')
    BY <1>3, <1>4, <1>5, <1>13
  <2> QED
    BY <1>1, <2>3, <2>4, <2>5 DEF ReaderInv, Writing
<1> QED
  BY <1>1, <1>14, <1>15 DEF ExportInv, ResultInv

LEMMA EndTableStep ==
    ASSUME ExportInv, EndTable
    PROVE  ExportInv'
<1>1. /\ xpc = "rtable" /\ xpc' = "rdata" /\ ~(Len(infos) < Len(tensors) /\ Readable)
      /\ rptr' = IF Len(infos) < Len(tensors) /\ Whole(NameLen) THEN rptr + NameLen ELSE rptr
      /\ tdo' = RoundUp(rptr')
      /\ UNCHANGED writerVars /\ rrec' = rrec /\ infos' = infos
  BY DEF EndTable
<1>2. /\ nMeta \in Nat /\ tdo \in Nat /\ pos \in Nat /\ tensors \in Plans /\ rptr \in Nat
      /\ rrec \in Nat
      /\ infos \in Seq({InfoRecord(i) : i \in 1 .. Len(tensors)})
      /\ Len(infos) <= Len(tensors)
      /\ InTable \/ (infos = << >> /\ rptr = pos /\ CutInTable)
  BY <1>1 DEF ExportInv, ReaderInv, ExportTypeInv
<1>3. TableWritten \/ dataAt = << >>
  BY <1>1 DEF ExportInv, RecordsInv, Reading
<1>4. /\ nMeta' = nMeta /\ tensors' = tensors /\ records' = records /\ dataAt' = dataAt
      /\ pos' = pos
  BY <1>1 DEF writerVars
<1>5. PICK l \in Nat \ {0}, n \in Nat : l = Len(tensors) /\ n = Len(infos) /\ n <= l
  BY <1>2, PlanFacts
<1>6. NameLen \in Nat \ {0} /\ InfoLen \in Nat /\ InfoLen > 4 /\ EntryLen = NameLen + InfoLen
  BY <1>2, TableFacts, ExportAssumption
<1>7. rptr' \in Nat /\ tdo' \in Nat /\ rptr' <= tdo'
  <2>1. rptr' \in Nat
    BY <1>1, <1>2, <1>6
  <2>2. PICK r \in Nat : r = rptr'
    BY <2>1
  <2>3. RoundUp(r) \in Nat /\ r <= RoundUp(r)
    BY RoundUpFacts
  <2> QED
    BY <1>1, <2>1, <2>2, <2>3
<1>8. infos # << >> => InfosRight /\ n # 0
  <2>1. infos # << >> => InTable
    BY <1>2
  <2>2. infos # << >> => n # 0
    BY <1>2, <1>5
  <2> QED
    BY <2>1, <2>2 DEF InTable
\* The table ends before its time: either what is missing was never written,
\* or the file ends in the next entry.
<1>9. ASSUME n < l
      PROVE  /\ CutInTable
             /\ infos # << >> => pos < tdo' + NameLen \/ pos < tdo' + InfoLen - 4
  <2>1. CASE infos = << >> /\ CutInTable
    BY <2>1
  <2>2. CASE InTable
    <3>1. rrec = nMeta + n + 1 /\ rptr = TableEnd(n)
      BY <1>5, <2>2 DEF InTable
    <3>2. CASE rrec > Len(records)
      <4>1. ~TableWritten
        BY <1>2, <1>5, <1>9, <3>1, <3>2 DEF TableWritten
      <4>2. infos = << >> /\ dataAt = << >>
        BY <1>3, <1>8, <4>1 DEF InfosRight
      <4> QED
        BY <4>2 DEF CutInTable
    <3>3. CASE ~(rrec > Len(records))
      <4>1. ~Whole(NameLen + InfoLen - 4)
        <5>1. ~Readable
          BY <1>1, <1>5, <1>9
        <5>2. Len(records) \in Nat => rrec <= Len(records)
          BY <1>2, <3>3
        <5>3. Len(records) \in Nat
          <6>1. Len(records) = nMeta \/ Len(records) = nMeta + Len(tensors)
            BY <1>1 DEF ExportInv, RecordsInv, Reading, TableWritten
          <6> QED
            BY <1>2, <1>5, <6>1
        <5> QED
          BY <5>1, <5>2, <5>3 DEF Readable
      <4>2. pos < rptr + (NameLen + InfoLen - 4)
        BY <1>2, <1>6, <4>1 DEF Whole
      <4>3. CutInTable
        <5>1. PICK j \in Nat : j = n + 1
          OBVIOUS
        <5>2. TableEnd(n + 1) = TableEnd(n) + EntryLen
          BY <1>2, TableFacts
        <5>3. TableEnd(j) <= TableEnd(l) /\ TableEnd(l) \in Nat
          BY <1>2, <1>5, <1>9, <5>1, TableFacts
        <5>4. TableEnd(j) = rptr + NameLen + InfoLen
          BY <1>2, <1>6, <3>1, <5>1, <5>2
        <5>5. pos < TableEnd(l)
          BY <1>2, <1>6, <4>2, <5>3, <5>4
        <5> QED
          BY <1>5, <5>5 DEF CutInTable
      <4>4. pos < tdo' + NameLen \/ pos < tdo' + InfoLen - 4
        <5>1. CASE Whole(NameLen)
          <6>1. rptr' = rptr + NameLen
            BY <1>1, <1>5, <1>9, <5>1
          <6> QED
            <7>1. PICK t \in Nat : t = tdo'
              BY <1>7
            <7>2. rptr + NameLen <= t
              BY <1>7, <6>1, <7>1
            <7>3. pos < t + InfoLen - 4
              BY <1>2, <1>6, <4>2, <7>2
            <7> QED
              BY <7>1, <7>3
        <5>2. CASE ~Whole(NameLen)
          <6>1. rptr' = rptr /\ pos < rptr + NameLen
            BY <1>1, <1>2, <1>6, <5>2 DEF Whole
          <6> QED
            <7>1. PICK t \in Nat : t = tdo'
              BY <1>7
            <7>2. rptr <= t
              BY <1>7, <6>1, <7>1
            <7>3. pos < t + NameLen
              BY <1>2, <1>6, <6>1, <7>2
            <7> QED
              BY <7>1, <7>3
        <5> QED
          BY <5>1, <5>2
      <4> QED
        BY <4>3, <4>4
    <3> QED
      BY <3>2, <3>3
  <2> QED
    BY <1>2, <2>1, <2>2
<1>10. ASSUME n = l PROVE tdo' = DataBegin
  <2>1. infos # << >>
    BY <1>5, <1>10
  <2>2. rptr = TableEnd(Len(tensors))
    BY <1>2, <1>5, <1>10, <2>1 DEF InTable
  <2>3. rptr' = rptr
    BY <1>1, <1>5, <1>10
  <2> QED
    BY <1>1, <2>2, <2>3 DEF DataBegin
<1>11. RecordsInv' /\ PlaceInv' /\ ExportTypeInv'
  <2>1. xpc \in {"broken", "closed"} \cup Reading /\ xpc' \in {"refused"} \cup Reading
    BY <1>1 DEF Reading
  <2>2. tdo' \in Nat /\ rptr' \in Nat /\ rrec' \in Nat
    BY <1>1, <1>2, <1>7
  <2> QED
    BY <1>1, <2>1, <2>2, ReaderLeavesFile
<1>12. ReaderInv'
  <2>1. /\ \A i : InfoRecord(i)' = InfoRecord(i)
        /\ TableEnd(Len(tensors))' = TableEnd(Len(tensors)) /\ DataBegin' = DataBegin
        /\ (TableWritten' <=> TableWritten)
    BY <1>4, Frame, FrameRecords
  <2>2. InfosRight' <=> InfosRight
    BY <1>1, <2>1 DEF InfosRight
  <2>3. CutInTable' <=> CutInTable
    BY <1>4, <2>1 DEF CutInTable
  <2>4. infos' \in Seq({InfoRecord(i) : i \in 1 .. Len(tensors)})' /\ Len(infos') <= Len(tensors')
    BY <1>1, <1>2, <1>4, <2>1
  <2>5. Len(infos') = n /\ Len(tensors') = l
    BY <1>1, <1>4, <1>5
  <2>6. /\ infos' # << >> => InfosRight'
        /\ Len(infos') < Len(tensors') => CutInTable'
        /\ Len(infos') = Len(tensors') => tdo' = DataBegin'
        /\ infos' # << >> /\ Len(infos') < Len(tensors') =>
              pos' < tdo' + NameLen \/ pos' < tdo' + InfoLen - 4
    BY <1>1, <1>4, <1>8, <1>9, <1>10, <2>1, <2>2, <2>3, <2>5
  <2> QED
    BY <1>1, <2>4, <2>6 DEF ReaderInv, Writing
<1> QED
  BY <1>1, <1>11, <1>12 DEF ExportInv, ResultInv

LEMMA FrameResult ==
    ASSUME UNCHANGED <<tensors, dataAt, pos, tdo, infos>>
    PROVE  \A i : LoadResult(i)' = LoadResult(i)
  BY DEF LoadResult

LEMMA LoadTensorsStep ==
    ASSUME ExportInv, LoadTensors
    PROVE  ExportInv'
<1>1. /\ xpc = "rdata" /\ xpc' = "reloaded" /\ UNCHANGED writerVars
      /\ loaded' = [i \in 1 .. Len(tensors) |-> LoadResult(i)]
      /\ tdo' = tdo /\ rptr' = rptr /\ rrec' = rrec /\ infos' = infos
  BY DEF LoadTensors
<1>2. /\ nMeta' = nMeta /\ tensors' = tensors /\ records' = records /\ dataAt' = dataAt
      /\ pos' = pos
  BY <1>1 DEF writerVars
<1>3. RecordsInv' /\ PlaceInv' /\ ExportTypeInv'
  <2>1. xpc \in {"broken", "closed"} \cup Reading /\ xpc' \in {"refused"} \cup Reading
    BY <1>1 DEF Reading
  <2>2. tdo' \in Nat /\ rptr' \in Nat /\ rrec' \in Nat
    BY <1>1 DEF ExportInv, ExportTypeInv
  <2> QED
    BY <1>1, <2>1, <2>2, ReaderLeavesFile
<1>4. ReaderInv'
  <2>1. /\ \A i : InfoRecord(i)' = InfoRecord(i)
        /\ TableEnd(Len(tensors))' = TableEnd(Len(tensors)) /\ DataBegin' = DataBegin
        /\ (TableWritten' <=> TableWritten)
    BY <1>2, Frame, FrameRecords
  <2>2. /\ InfosRight' <=> InfosRight
        /\ CutInTable' <=> CutInTable
    BY <1>1, <1>2, <2>1 DEF InfosRight, CutInTable
  <2>3. infos' \in Seq({InfoRecord(i) : i \in 1 .. Len(tensors)})' /\ Len(infos') <= Len(tensors')
    BY <1>1, <1>2, <2>1 DEF ExportInv, ReaderInv
  <2>4. /\ infos' # << >> => InfosRight'
        /\ Len(infos') < Len(tensors') => CutInTable'
        /\ Len(infos') = Len(tensors') => tdo' = DataBegin'
        /\ infos' # << >> /\ Len(infos') < Len(tensors') =>
              pos' < tdo' + NameLen \/ pos' < tdo' + InfoLen - 4
    BY <1>1, <1>2, <2>1, <2>2 DEF ExportInv, ReaderInv
  <2> QED
    BY <1>1, <2>3, <2>4 DEF ReaderInv, Writing
<1>5. ResultInv'
  <2>1. \A i : LoadResult(i)' = LoadResult(i)
    BY <1>1, <1>2, FrameResult
  <2> QED
    BY <1>1, <1>2, <2>1 DEF ResultInv
<1> QED
  BY <1>3, <1>4, <1>5 DEF ExportInv

LEMMA ExportStutter ==
    ASSUME ExportInv, UNCHANGED exportVars
    PROVE  ExportInv'
<1>1. /\ tensors' = tensors /\ tokKeys' = tokKeys /\ nMeta' = nMeta /\ records' = records
      /\ dataAt' = dataAt /\ pos' = pos /\ xpc' = xpc /\ loaded' = loaded
      /\ tdo' = tdo /\ rptr' = rptr /\ rrec' = rrec /\ infos' = infos
  BY DEF exportVars
<1>2. /\ \A i : InfoRecord(i)' = InfoRecord(i)
      /\ \A p, i : At(p, i)' <=> At(p, i)
      /\ \A i : Begin(i)' = Begin(i) /\ \A k : TableEnd(k)' = TableEnd(k)
      /\ TableEnd(Len(tensors))' = TableEnd(Len(tensors)) /\ DataBegin' = DataBegin
      /\ (TableWritten' <=> TableWritten) /\ (KeysWritten' <=> KeysWritten)
  BY <1>1, Frame, FrameRecords
<1>3. ExportTypeInv'
  BY <1>1 DEF ExportInv, ExportTypeInv
<1>4. RecordsInv'
  BY <1>1, <1>2 DEF ExportInv, RecordsInv
<1>5. PlaceInv'
  BY <1>1, <1>2 DEF ExportInv, PlaceInv
<1>6. ReaderInv'
  <2>1. (InfosRight' <=> InfosRight) /\ (CutInTable' <=> CutInTable)
    BY <1>1, <1>2 DEF InfosRight, CutInTable
  <2>2. InTable' <=> InTable
    BY <1>1, <1>2, <2>1 DEF InTable
  <2> QED
    BY <1>1, <1>2, <2>1, <2>2 DEF ExportInv, ReaderInv
<1>7. ResultInv'
  <2>1. \A i : LoadResult(i)' = LoadResult(i)
    BY <1>1, FrameResult
  <2> QED
    BY <1>1, <2>1 DEF ExportInv, ResultInv
<1> QED
  BY <1>3, <1>4, <1>5, <1>6, <1>7 DEF ExportInv

\* The inductive invariant of the export and of reading it back.
LEMMA ExportKeeps ==
    ASSUME ExportInv, [ExportNext]_exportVars
    PROVE  ExportInv'
<1>1. CASE \E ts \in Plans, keys \in Nat : BeginExport(ts, keys)
  BY <1>1, BeginExportStep
<1>2. CASE WriterStep
  BY <1>2, WriteKeysStep, WriteTableStep, WriteDataStep, CutStep DEF WriterStep
<1>3. CASE ReaderStep
  BY <1>3, OpenFileStep, ReadKeyStep, EndKeysStep, ReadInfoStep, EndTableStep,
     LoadTensorsStep DEF ReaderStep
<1>4. CASE UNCHANGED exportVars
  BY <1>4, ExportStutter
<1> QED
  BY <1>1, <1>2, <1>3, <1>4 DEF ExportNext

\* The writer and the reader go through the same places of the file.
THEOREM ExportInductive == ExportSpec => []ExportInv
<1>1. ExportInv /\ [ExportNext]_exportVars => ExportInv'
  BY ExportKeeps
<1> QED
  BY <1>1, InitExport, PTL DEF ExportSpec

-----------------------------------------------------------------------------
(* What is loaded.                                                         *)

\* The entry of a tensor is found if the reader got that far.
LEMMA LoadedFromEntry ==
    ASSUME ExportInv, xpc = "reloaded", NEW i \in 1 .. Len(tensors)
    PROVE  loaded[i] = IF i > Len(infos) \/ tdo + Offset(tensors, i) + 2 * tensors[i].elems > pos
                       THEN "empty"
                       ELSE IF i <= Len(dataAt) /\ tdo + Offset(tensors, i) = dataAt[i]
                            THEN IF tensors[i].f16 THEN "same" ELSE "retyped"
                       ELSE "foreign"
<1>1. loaded[i] = LoadResult(i)
  BY DEF ExportInv, ResultInv
<1>2. PICK n \in Nat : n = Len(infos)
  BY DEF ExportInv, ReaderInv
<1>3. \A k \in 1 .. n : infos[k] = InfoRecord(k)
  <2>1. CASE infos = << >>
    BY <1>2, <2>1
  <2>2. CASE infos # << >>
    BY <1>2, <2>2 DEF ExportInv, ReaderInv, InfosRight
  <2> QED
    BY <2>1, <2>2
<1>4. ASSUME NEW k \in 1 .. n
      PROVE  /\ infos[k].kind = "info" /\ infos[k].of = k
             /\ infos[k].elems = tensors[k].elems
             /\ infos[k].offset = Offset(tensors, k)
  <2>1. infos[k] = InfoRecord(k)
    BY <1>3
  <2>2. /\ InfoRecord(k).kind = "info" /\ InfoRecord(k).of = k
        /\ InfoRecord(k).elems = tensors[k].elems
        /\ InfoRecord(k).offset = Offset(tensors, k)
    BY DEF InfoRecord
  <2> QED
    BY <2>1, <2>2
<1> DEFINE mine == {k \in 1 .. Len(infos) : infos[k].kind = "info" /\ infos[k].of = i}
           result(e) == IF tdo + e.offset + 2 * e.elems > pos THEN "empty"
                        ELSE IF i <= Len(dataAt) /\ tdo + e.offset = dataAt[i]
                             THEN IF tensors[i].f16 THEN "same" ELSE "retyped"
                        ELSE "foreign"
<1>5. LoadResult(i) = IF mine = {} THEN "empty" ELSE result(infos[CHOOSE k \in mine : TRUE])
  BY DEF LoadResult
<1>6. CASE i > n
  <2>1. mine = {}
    BY <1>2, <1>4, <1>6
  <2> QED
    BY <1>1, <1>2, <1>5, <1>6, <2>1
<1>7. CASE ~(i > n)
  <2>1. i \in 1 .. n
    BY <1>2, <1>7
  <2>2. mine = {i}
    BY <1>2, <1>4, <2>1
  <2> HIDE DEF mine
  <2>3. (CHOOSE k \in mine : TRUE) = i /\ mine # {}
    BY <2>2
  <2>4. LoadResult(i) = result(infos[i])
    BY <1>5, <2>3
  <2>5. infos[i].elems = tensors[i].elems /\ infos[i].offset = Offset(tensors, i)
    BY <1>4, <2>1
  <2> QED
    BY <1>1, <1>2, <1>7, <2>4, <2>5
<1> QED
  BY <1>6, <1>7

\* For any plan, any number of keys and any alignment: the data of a complete
\* file begin where the reader looks for them.
THEOREM ExportReloadsHolds == ExportSpec => []ExportReloads
<1>1. ASSUME ExportInv PROVE ExportReloads
  <2> SUFFICES ASSUME xpc = "reloaded", Finished, dataAt[Len(tensors)] <= LongMax,
                      NEW i \in 1 .. Len(tensors), tensors[i].f16
               PROVE  loaded[i] = "same"
    BY DEF ExportReloads
  <2>1. /\ nMeta \in Nat /\ tensors \in Plans /\ pos \in Nat /\ tdo \in Nat /\ LongMax \in Nat
        /\ dataAt \in Seq(Nat)
    BY <1>1, ExportAssumption DEF ExportInv, ExportTypeInv
  <2>2. PICK l \in Nat \ {0} : l = Len(tensors)
    BY <2>1, PlanFacts
  <2>3. Len(dataAt) = l /\ pos >= dataAt[l] + tensors[l].bytes /\ dataAt[l] <= LongMax
    BY <2>2 DEF Finished
  <2>4. \A k \in 1 .. l : At(dataAt[k], k) /\ dataAt[k] \in Nat
    BY <1>1, <2>1, <2>3 DEF ExportInv, PlaceInv
  <2>5. \A k \in 1 .. l + 1 : Begin(k) \in Nat
    BY <2>1, <2>2, DataFacts
  <2>6. \A k \in 1 .. l : tensors[k].bytes \in Nat /\ tensors[k].elems \in Nat
    BY <2>1, <2>2, PlanFacts
  <2>7. dataAt[l] = Begin(l)
    BY <2>1, <2>2, <2>3, <2>4, <2>5 DEF At
  <2>8. Begin(i) <= Begin(l) /\ Begin(i) \in Nat /\ Begin(l) \in Nat
    <3>1. i \in 1 .. l + 1 /\ l \in 1 .. l + 1 /\ i <= l
      BY <2>2
    <3> QED
      BY <2>1, <2>2, <3>1, DataFacts
  <2>9. dataAt[i] = Begin(i)
    <3>1. ~(Begin(i) > LongMax)
      BY <2>1, <2>3, <2>7, <2>8
    <3> QED
      BY <2>2, <2>4, <3>1 DEF At
  \* All of the table was in the file.
  <2>10. Len(infos) = l /\ tdo = DataBegin
    <3>1. ~CutInTable
      <4>1. dataAt # << >>
        BY <2>2, <2>3
      <4>2. /\ TableEnd(l) <= DataBegin /\ DataBegin \in Nat /\ TableEnd(l) \in Nat
            /\ Begin(1) = DataBegin
        BY <2>1, <2>2, DataFacts, TableFacts
      <4>3. Begin(1) <= Begin(l)
        <5>1. 1 \in 1 .. l + 1 /\ l \in 1 .. l + 1 /\ 1 <= l
          BY <2>2
        <5> QED
          BY <2>1, <2>2, <5>1, DataFacts
      <4>4. tensors[l].bytes \in Nat
        BY <2>2, <2>6
      <4>5. TableEnd(l) <= pos
        <5>1. PICK a \in Nat, b \in Nat, c \in Nat, e \in Nat :
                 a = TableEnd(l) /\ b = DataBegin /\ c = Begin(l) /\ e = tensors[l].bytes
          BY <2>8, <4>2, <4>4
        <5>2. a <= b /\ b <= c /\ pos >= c + e /\ pos \in Nat
          BY <2>1, <2>3, <2>7, <4>2, <4>3, <5>1
        <5> QED
          BY ONLY <5>1, <5>2
      <4>6. ~(pos < TableEnd(Len(tensors)))
        BY <2>1, <2>2, <4>2, <4>5
      <4> QED
        BY <4>1, <4>6 DEF CutInTable
    <3>2. PICK n \in Nat : n = Len(infos) /\ n <= l
      BY <1>1, <2>2 DEF ExportInv, ReaderInv
    <3>3. ~(n < l)
      BY <1>1, <2>2, <3>1, <3>2 DEF ExportInv, ReaderInv
    <3>4. n = l
      BY <3>2, <3>3
    <3> QED
      BY <1>1, <2>2, <3>2, <3>4 DEF ExportInv, ReaderInv
  <2>11. tdo + Offset(tensors, i) = dataAt[i]
    BY <2>9, <2>10 DEF Begin
  <2>12. ~(tdo + Offset(tensors, i) + 2 * tensors[i].elems > pos)
    <3>1. /\ 2 * tensors[i].elems <= tensors[i].bytes
          /\ tensors[i].elems \in Nat /\ tensors[i].bytes \in Nat
      BY <2>1, PlanFacts
    <3>2. Begin(i) + tensors[i].bytes <= pos
      <4>1. CASE i = l
        BY <2>3, <2>7, <4>1
      <4>2. CASE i # l
        <5>1. PICK j \in 1 .. l : j = i + 1
          BY <2>2, <4>2
        <5>2. Begin(i + 1) = Begin(i) + RoundUp(tensors[i].bytes)
          BY <2>1, DataFacts
        <5>3. RoundUp(tensors[i].bytes) \in Nat /\ tensors[i].bytes <= RoundUp(tensors[i].bytes)
          BY <3>1, RoundUpFacts
        <5>4. Begin(j) <= Begin(l)
          <6>1. j \in 1 .. l + 1 /\ l \in 1 .. l + 1 /\ j <= l
            BY <2>2
          <6> QED
            BY <2>1, <2>2, <6>1, DataFacts
        <5>5. Begin(j) = Begin(i) + RoundUp(tensors[i].bytes)
          BY <5>1, <5>2
        <5>6. tensors[l].bytes \in Nat
          BY <2>2, <2>6
        <5>7. PICK a \in Nat, e \in Nat, b \in Nat, r \in Nat, c \in Nat :
                 /\ a = Begin(i) /\ e = Begin(l) /\ b = tensors[i].bytes
                 /\ r = RoundUp(tensors[i].bytes) /\ c = tensors[l].bytes
          BY <2>8, <3>1, <5>3, <5>6
        <5>8. b <= r /\ a + r <= e
          BY <5>3, <5>4, <5>5, <5>7
        <5>9. e + c <= pos
          BY <2>1, <2>3, <2>7, <5>7
        <5>10. pos \in Nat
          BY <2>1
        <5>11. a + b <= pos
          BY <5>8, <5>9, <5>10
        <5> QED
          BY <5>7, <5>11
      <4> QED
        BY <4>1, <4>2
    <3> QED
      <4>1. PICK a \in Nat, b \in Nat, e \in Nat :
               a = Begin(i) /\ b = tensors[i].bytes /\ e = tensors[i].elems
        BY <2>8, <3>1
      <4>2. 2 * e <= b /\ a + b <= pos /\ pos \in Nat
        BY <2>1, <3>1, <3>2, <4>1
      <4>3. ~(a + 2 * e > pos)
        BY <4>2
      <4>4. tdo + Offset(tensors, i) = a
        BY <2>9, <2>11, <4>1
      <4> QED
        BY <4>1, <4>3, <4>4
  <2>13. ~(i > Len(infos)) /\ i <= Len(dataAt)
    BY <2>2, <2>3, <2>10
  <2>14. loaded[i] = IF i > Len(infos) \/ tdo + Offset(tensors, i) + 2 * tensors[i].elems > pos
                     THEN "empty"
                     ELSE IF i <= Len(dataAt) /\ tdo + Offset(tensors, i) = dataAt[i]
                          THEN IF tensors[i].f16 THEN "same" ELSE "retyped"
                     ELSE "foreign"
    BY <1>1, LoadedFromEntry
  <2> QED
    BY <2>11, <2>12, <2>13, <2>14
<1> QED
  BY <1>1, ExportInductive, PTL

\* However short the file was cut, no tensor gets the bytes of another, as long
\* as the first tensor is not smaller than an entry of the table.
THEOREM CutNotMisreadHolds == ExportSpec => [](LargeFirst => CutNotMisread)
<1>1. ASSUME ExportInv, LargeFirst PROVE CutNotMisread
  <2> SUFFICES ASSUME xpc = "reloaded", pos <= LongMax, NEW i \in 1 .. Len(tensors),
                      ~(i > Len(infos)),
                      ~(tdo + Offset(tensors, i) + 2 * tensors[i].elems > pos)
               PROVE  i <= Len(dataAt) /\ tdo + Offset(tensors, i) = dataAt[i]
    BY <1>1, LoadedFromEntry DEF CutNotMisread
  <2>1. /\ nMeta \in Nat /\ tensors \in Plans /\ pos \in Nat /\ tdo \in Nat /\ LongMax \in Nat
        /\ dataAt \in Seq(Nat) /\ NameLen \in Nat /\ InfoLen \in Nat /\ InfoLen > 4
    BY <1>1, ExportAssumption DEF ExportInv, ExportTypeInv
  <2>2. PICK l \in Nat \ {0}, n \in Nat :
           l = Len(tensors) /\ n = Len(infos) /\ n <= l /\ i <= n
    BY <1>1, <2>1, PlanFacts DEF ExportInv, ReaderInv
  <2>3. infos # << >> /\ TableWritten
    <3>1. infos # << >>
      BY <2>2
    <3> QED
      BY <1>1, <3>1 DEF ExportInv, ReaderInv, InfosRight
  <2>4. /\ Offset(tensors, i) \in Nat /\ tensors[i].elems \in Nat \ {0}
        /\ tensors[1].bytes \in Nat /\ tensors[1].elems \in Nat
    <3>1. 1 \in 1 .. l /\ i \in 1 .. l + 1
      BY <2>2
    <3> QED
      BY <2>1, <2>2, <3>1, PlanFacts, DataFacts
  <2>5. PICK o \in Nat, e \in Nat \ {0} : o = Offset(tensors, i) /\ e = tensors[i].elems
    BY <2>4
  <2>6. tdo + o + 2 * e <= pos
    <3>1. ~(tdo + o + 2 * e > pos)
      BY <2>5
    <3>2. \A a, b, c, d \in Nat : ~(a + b + 2 * c > d) => a + b + 2 * c <= d
      OBVIOUS
    <3>3. tdo \in Nat /\ o \in Nat /\ e \in Nat /\ pos \in Nat
      BY <2>1, <2>5
    <3> QED
      BY <3>1, <3>2, <3>3, Zenon
  <2>7. CASE n = l
    <3>1. tdo = DataBegin
      BY <1>1, <2>2, <2>7 DEF ExportInv, ReaderInv
    <3>2. PICK b \in Nat : b = Begin(i) /\ tdo + o = b
      BY <2>1, <2>5, <3>1 DEF Begin
    <3>3. b < pos /\ b <= LongMax
      <4>1. b + 2 * e <= pos
        BY <2>6, <3>2
      <4>2. pos \in Nat /\ LongMax \in Nat
        BY <2>1
      <4>3. b < pos
        BY <4>1, <4>2
      <4> QED
        BY <4>2, <4>3
    <3>4. PICK d \in Nat : d = Len(dataAt)
      BY <2>1
    <3>5. i <= d
      <4> SUFFICES ASSUME ~(i <= d) PROVE FALSE
        OBVIOUS
      <4>1. PICK k \in 1 .. l : k = d + 1 /\ k <= i
        BY <2>2, <3>4
      <4>2. pos <= Begin(k) \/ Begin(k) > LongMax
        <5>1. Len(dataAt) < Len(tensors)
          BY <2>2, <3>4, <4>1
        <5>2. pos <= Begin(Len(dataAt) + 1) \/ Begin(Len(dataAt) + 1) > LongMax
          BY <1>1, <2>3, <5>1 DEF ExportInv, PlaceInv
        <5> QED
          BY <3>4, <4>1, <5>2
      <4>3. Begin(k) <= Begin(i) /\ Begin(k) \in Nat
        <5>1. k \in 1 .. l + 1 /\ i \in 1 .. l + 1
          BY <2>2
        <5> QED
          BY <2>1, <2>2, <4>1, <5>1, DataFacts
      <4>4. Begin(k) <= b
        BY <3>2, <4>3
      <4> QED
        BY <2>1, <3>2, <3>3, <4>2, <4>3, <4>4
    <3>6. At(dataAt[i], i)
      BY <1>1, <3>4, <3>5 DEF ExportInv, PlaceInv
    <3>7. ~(Begin(i) > LongMax)
      BY <2>1, <3>2, <3>3
    <3>8. dataAt[i] = b
      BY <3>2, <3>6, <3>7 DEF At
    <3> QED
      BY <2>5, <3>2, <3>4, <3>5, <3>8
  <2>8. CASE n # l
    <3>1. pos < tdo + NameLen \/ pos < tdo + InfoLen - 4
      BY <1>1, <2>2, <2>3, <2>8 DEF ExportInv, ReaderInv
    <3>2. o + 2 * e >= NameLen /\ o + 2 * e >= InfoLen - 4
      <4>1. /\ NameLen <= 2 * tensors[1].elems /\ NameLen <= tensors[1].bytes
            /\ InfoLen - 4 <= 2 * tensors[1].elems /\ InfoLen - 4 <= tensors[1].bytes
        BY <1>1 DEF LargeFirst
      <4>2. CASE i = 1
        <5>1. 2 * e >= NameLen /\ 2 * e >= InfoLen - 4
          BY <2>5, <4>1, <4>2
        <5>2. NameLen \in Nat /\ InfoLen \in Nat
          BY <2>1
        <5> QED
          BY <5>1, <5>2
      <4>3. CASE i # 1
        <5>1. i \in 2 .. Len(tensors) + 1
          BY <2>2, <4>3
        <5>2. PICK b \in Nat : b = tensors[1].bytes
          BY <2>4
        <5>3. b <= o
          BY <2>1, <2>5, <5>1, <5>2, OffsetFacts
        <5>4. NameLen <= b /\ InfoLen - 4 <= b
          BY <4>1, <5>2
        <5> QED
          BY <2>1, <5>3, <5>4
      <4> QED
        BY <4>2, <4>3
    <3> QED
      BY <2>1, <2>6, <3>1, <3>2
  <2> QED
    BY <2>7, <2>8
<1> QED
  BY <1>1, ExportInductive, PTL

=============================================================================
