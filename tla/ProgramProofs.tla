---------------------------- MODULE ProgramProofs ----------------------------
(***************************************************************************)
(* The whole program: what an exit code of 0 means, what generation does   *)
(* to the cache, what the scoring requests are answered, and that the      *)
(* offload and the export keep in it what is proved of them alone.         *)
(***************************************************************************)
EXTENDS Program, ModelFileProofs, BytePairProofs, FiniteSetTheorems

-----------------------------------------------------------------------------
(* Scoring.                                                                *)

\* The end of a joined text is the second part.
LEMMA EndOfJoin ==
    ASSUME NEW T, NEW u \in Seq(T), NEW v \in Seq(T)
    PROVE  /\ Len(v) <= Len(u \o v)
           /\ SubSeq(u \o v, Len(u \o v) - Len(v) + 1, Len(u \o v)) = v
           /\ SubSeq(u \o v, Len(u) + 1, Len(u \o v)) = v
<1>1. PICK a \in Nat, b \in Nat : a = Len(u) /\ b = Len(v) /\ Len(u \o v) = a + b
  BY ConcatProperties
<1>2. a + b - b + 1 = a + 1 /\ b <= a + b
  OBVIOUS
<1>3. SubSeq(u \o v, a + 1, a + b) = v
  <2>1. CASE b = 0
    <3>1. v = << >>
      BY <1>1, <2>1, EmptySeq
    <3>2. SubSeq(u \o v, a + 1, a + b) = << >>
      BY <2>1, SubSeqEmpty
    <3> QED
      BY <3>1, <3>2
  <2>2. CASE b # 0
    <3>1. a + 1 \in Len(u) + 1 .. Len(u) + Len(v) /\ a + b \in Len(u) + 1 .. Len(u) + Len(v)
      BY <1>1, <2>2
    <3>2. SubSeq(u \o v, a + 1, a + b) = SubSeq(v, a + 1 - Len(u), a + b - Len(u))
      BY <3>1, SubSeqOfConcat2
    <3>3. a + 1 - Len(u) = 1 /\ a + b - Len(u) = Len(v)
      BY <1>1
    <3> QED
      BY <3>2, <3>3, SubSeqFull
  <2> QED
    BY <2>1, <2>2
<1> QED
  BY <1>1, <1>2, <1>3

\* What /v1/logprobs scores: the tokens of the text from the place on that the
\* prompt alone would end at.
LEMMA ContinuationIs ==
    ASSUME NEW p \in Token, NEW c \in Token
    PROVE  /\ ContinuationTokens(p, c)
                = SubSeq(EncodeAll(p \o c), Len(EncodeAll(p)) + 1, Len(EncodeAll(p \o c)))
           /\ EncodeAll(p) \in Seq(AllTokens) /\ EncodeAll(p \o c) \in Seq(AllTokens)
<1>1. p \o c \in Token
  BY DEF Token
<1>2. Vocab \cup Specials \subseteq AllTokens /\ Bos \in AllTokens
  BY DEF AllTokens
<1>3. PICK before \in Seq(AllTokens) : before = EncodeAll(p)
  BY <1>2, EncodeAllSpells, SeqMonotonic
<1>4. PICK body \in Seq(AllTokens) : body = EncodeAll(p \o c)
  BY <1>1, <1>2, EncodeAllSpells, SeqMonotonic
<1>5. PICK a \in Nat, b \in Nat : a = Len(before) /\ b = Len(body)
  OBVIOUS
<1>6. PICK one \in Seq(AllTokens) : one = <<Bos>> /\ Len(one) = 1
  <2>1. PICK bos \in AllTokens : bos = Bos
    BY <1>2
  <2>2. <<bos>> \in Seq(AllTokens) /\ Len(<<bos>>) = 1
    OBVIOUS
  <2> QED
    BY <2>1, <2>2
<1>7. Len(one \o before) = a + 1 /\ Len(one \o body) = b + 1
  BY <1>5, <1>6, ConcatProperties
<1>8. Encode(p) = one \o before /\ Encode(p \o c) = one \o body
  BY <1>3, <1>4, <1>6, Zenon DEF Encode
<1>9. Scored(one \o body, 0) = body
  <2>1. FirstScored(0) + 1 = Len(one) + 1
    BY <1>6 DEF FirstScored
  <2>2. SubSeq(one \o body, Len(one) + 1, Len(one \o body)) = body
    BY EndOfJoin
  <2> QED
    BY <2>1, <2>2, Zenon DEF Scored
<1>10. Len(one \o body) - 1 = b
  BY <1>7
<1>11. ContinuationTokens(p, c) = SubSeq(body, a + 1, b)
  BY <1>7, <1>8, <1>9, <1>10, Zenon DEF ContinuationTokens
<1> QED
  BY <1>3, <1>4, <1>5, <1>11

LEMMA AllTokensAreTexts == AllTokens \subseteq Token
  BY TokensAreTexts DEF VocabIsTokens, AllTokens

LEMMA DecodeAll ==
    ASSUME NEW ids_ \in Seq(AllTokens)
    PROVE  Decode(ids_, FALSE) = FlattenSeq(ids_)
<1>1. Decode(ids_, FALSE) = FlattenSeq([i \in DOMAIN ids_ |-> ids_[i]])
  BY Zenon DEF Decode
<1>2. [i \in DOMAIN ids_ |-> ids_[i]] = ids_
  OBVIOUS
<1> QED
  BY <1>1, <1>2

\* The pieces of the two parts are encoded each for itself.
LEMMA SegmentsJoin ==
    ASSUME NEW p \in Token, NEW c \in Token, Pieces(p \o c) = Pieces(p) \o Pieces(c)
    PROVE  EncodeSegment(p \o c) = EncodeSegment(p) \o EncodeSegment(c)
<1>1. PICK ps \in Seq(Token), cs \in Seq(Token) : ps = Pieces(p) /\ cs = Pieces(c)
  BY PiecesCut
<1> DEFINE both == ps \o cs
           enc(s) == [i \in DOMAIN s |-> EncodePiece(s[i])]
<1>2. ASSUME NEW s \in Seq(Token)
      PROVE  /\ enc(s) \in Seq(Seq(Vocab)) /\ Len(enc(s)) = Len(s)
             /\ \A i \in 1 .. Len(s) : enc(s)[i] = EncodePiece(s[i])
  <2>1. PICK n \in Nat : n = Len(s) /\ DOMAIN s = 1 .. n /\ \A i \in 1 .. n : s[i] \in Token
    OBVIOUS
  <2>2. \A i \in 1 .. n : EncodePiece(s[i]) \in Seq(Vocab)
    BY <2>1, EncodePieceSpells
  <2> QED
    BY <2>1, <2>2
<1>3. both \in Seq(Token) /\ Len(both) = Len(ps) + Len(cs)
  BY ConcatProperties
<1>4. enc(both) = enc(ps) \o enc(cs)
  <2>1. PICK e1 \in Seq(Seq(Vocab)) : e1 = enc(ps) /\ Len(e1) = Len(ps)
                                     /\ \A i \in 1 .. Len(ps) : e1[i] = EncodePiece(ps[i])
    BY <1>2
  <2>2. PICK e2 \in Seq(Seq(Vocab)) : e2 = enc(cs) /\ Len(e2) = Len(cs)
                                     /\ \A i \in 1 .. Len(cs) : e2[i] = EncodePiece(cs[i])
    BY <1>2
  <2>3. PICK e3 \in Seq(Seq(Vocab)) : e3 = enc(both) /\ Len(e3) = Len(both)
                                     /\ \A i \in 1 .. Len(both) : e3[i] = EncodePiece(both[i])
    BY <1>2, <1>3
  <2>4. PICK a \in Nat, b \in Nat : a = Len(ps) /\ b = Len(cs) /\ Len(both) = a + b
    BY <1>3
  <2>5. e1 \o e2 \in Seq(Seq(Vocab)) /\ Len(e1 \o e2) = a + b
        /\ \A i \in 1 .. a + b : (e1 \o e2)[i] = IF i <= a THEN e1[i] ELSE e2[i - a]
    <3> DEFINE W == Seq(Vocab)
    <3>1. e1 \in Seq(W) /\ e2 \in Seq(W) /\ Len(e1) = a /\ Len(e2) = b
      BY <2>1, <2>2, <2>4
    <3> HIDE DEF W
    <3>2. e1 \o e2 \in Seq(W) /\ Len(e1 \o e2) = a + b
          /\ \A i \in 1 .. a + b : (e1 \o e2)[i] = IF i <= a THEN e1[i] ELSE e2[i - a]
      BY <3>1, ConcatProperties
    <3> QED
      BY <3>2 DEF W
  <2>6. \A i \in 1 .. a + b : e3[i] = (e1 \o e2)[i]
    <3> SUFFICES ASSUME NEW i \in 1 .. a + b PROVE e3[i] = (e1 \o e2)[i]
      OBVIOUS
    <3>1. i \in 1 .. Len(ps) + Len(cs) /\ i \in 1 .. Len(e1) + Len(e2)
      BY <2>1, <2>2, <2>4
    <3>2. both[i] = IF i <= a THEN ps[i] ELSE cs[i - a]
      BY <2>4, <3>1, ConcatProperties
    <3>3. (e1 \o e2)[i] = IF i <= a THEN e1[i] ELSE e2[i - a]
      BY <2>5
    <3>4. e3[i] = EncodePiece(both[i])
      BY <2>3, <2>4
    <3>5. CASE i <= a
      BY <2>1, <2>4, <3>2, <3>3, <3>4, <3>5
    <3>6. CASE ~(i <= a)
      <4>1. PICK j \in 1 .. b : j = i - a
        BY <3>6
      <4> QED
        BY <2>2, <2>4, <3>2, <3>3, <3>4, <3>6, <4>1
    <3> QED
      BY <3>5, <3>6
  <2>7. e3 = e1 \o e2
    BY <2>3, <2>4, <2>5, <2>6, SeqEqual
  <2> QED
    BY <2>1, <2>2, <2>3, <2>7, Zenon
<1>5. /\ EncodeSegment(p) = FlattenSeq(enc(ps)) /\ EncodeSegment(c) = FlattenSeq(enc(cs))
      /\ EncodeSegment(p \o c) = FlattenSeq(enc(both))
  BY <1>1, Zenon DEF EncodeSegment
<1>6. PICK e1 \in Seq(Seq(Vocab)), e2 \in Seq(Seq(Vocab)) : e1 = enc(ps) /\ e2 = enc(cs)
  BY <1>2
<1>7. FlattenSeq(e1 \o e2) = FlattenSeq(e1) \o FlattenSeq(e2)
  BY FlattenConcat
<1>8. enc(both) = e1 \o e2
  BY <1>4, <1>6, Zenon
<1> QED
  BY <1>5, <1>6, <1>7, <1>8, Zenon

\* A continuation that the tokenizer separates from the prompt is what is scored.
LEMMA ContinuationIsSpelled ==
    ASSUME NEW p \in Token, NEW c \in Token, Spellable(p \o c), CleanSplit(p, c)
    PROVE  SpellsContinuation(p, c)
<1>1. PICK a \in Nat, b \in Nat :
         /\ a = Len(p) /\ b = Len(c) /\ Len(p \o c) = a + b
         /\ \A i \in 1 .. a : (p \o c)[i] = p[i]
         /\ \A i \in 1 .. b : (p \o c)[a + i] = c[i]
  <2>1. Len(p) \in Nat /\ Len(c) \in Nat /\ Len(p \o c) = Len(p) + Len(c)
    BY ConcatProperties DEF Token
  <2>2. \A i \in 1 .. Len(p) + Len(c) :
           (p \o c)[i] = IF i <= Len(p) THEN p[i] ELSE c[i - Len(p)]
    BY ConcatProperties DEF Token
  <2>3. PICK a \in Nat, b \in Nat : a = Len(p) /\ b = Len(c)
    BY <2>1
  <2>4. ASSUME NEW i \in 1 .. b PROVE (p \o c)[a + i] = c[i]
    <3>1. PICK j \in 1 .. a + b : j = a + i /\ ~(j <= a) /\ j - a = i
      OBVIOUS
    <3> QED
      BY <2>2, <2>3, <3>1
  <2>5. ASSUME NEW i \in 1 .. a PROVE (p \o c)[i] = p[i]
    <3>1. i \in 1 .. a + b /\ i <= a
      OBVIOUS
    <3> QED
      BY <2>2, <2>3, <3>1
  <2> QED
    BY <2>1, <2>3, <2>4, <2>5
<1>2. p \o c \in Token /\ DOMAIN (p \o c) = 1 .. a + b
  BY <1>1 DEF Token
<1>3. \A i \in 1 .. a + b : (p \o c)[i] \notin LeadBytes
  BY <1>2 DEF CleanSplit
<1>4. \A i \in 1 .. a : p[i] \notin LeadBytes
  <2>1. \A i \in 1 .. a : i \in 1 .. a + b
    OBVIOUS
  <2> QED
    BY <1>1, <1>3, <2>1
<1>5. Spellable(c)
  <2> SUFFICES ASSUME NEW i \in 1 .. b PROVE <<c[i]>> \in Vocab
    BY <1>1 DEF Spellable
  <2>1. a + i \in 1 .. a + b
    OBVIOUS
  <2>2. <<(p \o c)[a + i]>> \in Vocab
    BY <1>1, <2>1 DEF Spellable
  <2> QED
    BY <1>1, <2>2
<1>6. EncodeAll(p) = EncodeSegment(p) /\ EncodeAll(p \o c) = EncodeSegment(p \o c)
  BY <1>1, <1>2, <1>3, <1>4, OneSegment
<1>7. EncodeSegment(p \o c) = EncodeSegment(p) \o EncodeSegment(c)
  BY SegmentsJoin DEF CleanSplit
<1>8. PICK u \in Seq(Vocab), v \in Seq(Vocab) :
         u = EncodeSegment(p) /\ v = EncodeSegment(c) /\ FlattenSeq(v) = c
  BY <1>5, EncodeSegmentSpells
<1>9. ContinuationTokens(p, c) = SubSeq(u \o v, Len(u) + 1, Len(u \o v))
  BY <1>6, <1>7, <1>8, ContinuationIs, Zenon
<1>10. SubSeq(u \o v, Len(u) + 1, Len(u \o v)) = v
  BY EndOfJoin
<1>11. v \in Seq(AllTokens)
  <2>1. Vocab \subseteq AllTokens
    BY DEF AllTokens
  <2> QED
    BY <2>1, SeqMonotonic
<1> QED
  BY <1>8, <1>9, <1>10, <1>11, DecodeAll DEF SpellsContinuation

-----------------------------------------------------------------------------
(* Loading and exporting in the program.                                   *)

\* run_server up to the accept loop.
ServerStarts == ServerListens \/ NoSockets \/ ServerHangs

LEMMA OffloadStepInProgram ==
    ASSUME [Next]_vars
    PROVE  [OffloadNext]_offloadVars
<1>1. CASE LoadModel
  BY <1>1 DEF LoadModel, OffloadNext
<1>2. CASE Leave
  BY <1>2 DEF Leave, OffloadNext
<1>3. CASE Serve
  BY <1>3 DEF Serve, Completion, Echo, Logprobs, Score
<1>4. CASE ~LoadModel /\ ~Leave /\ ~Serve
  BY <1>4, Zenon DEF Next, vars, ParseArg, CheckArgs, PrintInfo, OpenBase, ModelLoaded, RefuseExport,
     StartExport, WriteExport, ExportCut, ExportEnds, ReadExport, EncodePrompt, RunPrompt,
     SampleNext, SampleWithoutLogits, EnoughTokens, ForwardNext, Respond, Reply, ServerListens,
     NoSockets, ServerHangs
<1> QED
  BY <1>1, <1>2, <1>3, <1>4

\* main reaches the offload only through Model::load and ~Model.
THEOREM ProgramOffloads == Spec => OffloadSpec
<1>1. Init => OffloadInit
  BY DEF Init
<1>2. [Next]_vars => [OffloadNext]_offloadVars
  BY OffloadStepInProgram
<1> QED
  BY <1>1, <1>2, PTL DEF Spec, OffloadSpec

\* What has been loaded, planned and uploaded fits together in the program, too.
THEOREM ProgramInvOffload == Spec => []OffloadInv
  BY ProgramOffloads, OffloadInductive, PTL

\* The plan of a loaded model is one that the export is about.
LEMMA PlanIsPlan ==
    ASSUME job \in JobType, types \in [Layers -> [Mats -> Types]]
    PROVE  Plan \in Plans
<1> DEFINE Good == {t \in Tensor : t.f16 => 2 * t.elems <= t.bytes}
           norm == TensorOf(job.norm, NormBytes \div 4)
           layer(l) == <<norm, TensorOf(types[l]["wq"], Elems),
                         TensorOf(types[l]["wk"], Elems), TensorOf(types[l]["rest"], Elems)>>
           first == <<TensorOf(job.embd, Elems), norm>>
           layers == [i \in 1 .. N |-> layer(i - 1)]
<1>1. NormBytes \div 4 \in Nat \ {0} /\ 4 * (NormBytes \div 4) <= NormBytes /\ Elems \in Nat \ {0}
      /\ N \in Nat /\ NormBytes \in Nat
  BY OffloadAssumption, ProgramAssumption
<1>2. ASSUME NEW type \in Types, NEW e \in {Elems, NormBytes \div 4}
      PROVE  TensorOf(type, e) \in Good
  <2>1. Bytes(type) \in Nat /\ Bytes("F16") = 2 * Elems
    BY <1>2, SizesNat DEF Bytes
  <2> DEFINE b == IF e = Elems THEN Bytes(type) ELSE NormBytes
  <2>2. b \in Nat /\ e \in Nat \ {0} /\ (type = "F16" => 2 * e <= b)
    <3>1. CASE e = Elems
      BY <1>1, <2>1, <3>1
    <3>2. CASE e # Elems
      <4>1. PICK q \in Nat \ {0} : q = e /\ 4 * q <= NormBytes
        BY <1>1, <1>2, <3>2
      <4>2. 2 * q <= NormBytes
        BY <1>1, <4>1
      <4> QED
        BY <1>1, <3>2, <4>1, <4>2
    <3> QED
      BY <3>1, <3>2
  <2>3. TensorOf(type, e) = [f16 |-> type = "F16", elems |-> e, bytes |-> b]
    BY Zenon DEF TensorOf
  <2> HIDE DEF b
  <2>4. TensorOf(type, e) \in Tensor
    BY <2>2, <2>3 DEF Tensor
  <2>5. TensorOf(type, e).f16 => 2 * TensorOf(type, e).elems <= TensorOf(type, e).bytes
    <3>1. TensorOf(type, e).elems = e /\ TensorOf(type, e).bytes = b
      BY <2>3
    <3>2. CASE type = "F16"
      BY <2>2, <3>1, <3>2
    <3>3. CASE type # "F16"
      <4>1. (type = "F16") = FALSE
        BY <3>3, Zenon
      <4>2. TensorOf(type, e) = [f16 |-> FALSE, elems |-> e, bytes |-> b]
        BY <2>3, <4>1, Zenon
      <4> QED
        BY <4>2
    <3> QED
      BY <3>2, <3>3
  <2> QED
    BY <2>4, <2>5
<1>3. norm \in Good /\ TensorOf(job.embd, Elems) \in Good
  BY <1>2 DEF JobType
<1>4. ASSUME NEW l \in Layers PROVE layer(l) \in Seq(Good)
  <2>1. types[l]["wq"] \in Types /\ types[l]["wk"] \in Types /\ types[l]["rest"] \in Types
    BY DEF Mats
  <2>2. PICK q \in Good, k \in Good, r \in Good :
           q = TensorOf(types[l]["wq"], Elems) /\ k = TensorOf(types[l]["wk"], Elems)
               /\ r = TensorOf(types[l]["rest"], Elems)
    BY <1>2, <2>1
  <2>3. PICK n \in Good : n = norm
    BY <1>3
  <2> HIDE DEF Good, norm
  <2>4. <<n, q, k, r>> \in Seq(Good)
    OBVIOUS
  <2> QED
    BY <2>2, <2>3, <2>4
<1>5. layers \in Seq(Seq(Good))
  <2>1. \A i \in 1 .. N : i - 1 \in Layers
    BY <1>1 DEF Layers
  <2> HIDE DEF layer, Good
  <2> QED
    BY <1>1, <1>4, <2>1
<1>6. first \in Seq(Good) /\ Len(first) = 2
  <2>1. PICK e \in Good, n \in Good : e = TensorOf(job.embd, Elems) /\ n = norm
    BY <1>3
  <2> HIDE DEF Good, norm
  <2>2. <<e, n>> \in Seq(Good) /\ Len(<<e, n>>) = 2
    OBVIOUS
  <2> QED
    BY <2>1, <2>2
<1>7. Plan = first \o FlattenSeq(layers)
  BY Zenon DEF Plan
<1>8. PICK u \in Seq(Good), v \in Seq(Good) : u = first /\ v = FlattenSeq(layers) /\ Len(u) = 2
  <2> HIDE DEF Good, layers, first
  <2> QED
    BY <1>5, <1>6, FlattenType
<1> HIDE DEF Good, layers, first
<1>9. u \o v \in Seq(Good) /\ Len(u \o v) = Len(u) + Len(v) /\ Len(v) \in Nat
  BY ConcatProperties
<1>10. \A ts \in Seq(Good) : Len(ts) > 0 => ts \in Plans
  <2>1. ASSUME NEW ts \in Seq(Good), Len(ts) > 0 PROVE ts \in Plans
    <3>1. ts \in Seq(Tensor)
      <4>1. Good \subseteq Tensor
        BY DEF Good
      <4> QED
        BY <4>1, SeqMonotonic
    <3>2. \A i \in 1 .. Len(ts) : ts[i] \in Good
      OBVIOUS
    <3> QED
      BY <2>1, <3>1, <3>2 DEF Plans, Good
  <2> QED
    BY <2>1
<1>11. Len(u \o v) > 0
  <2>1. PICK k \in Nat : k = Len(v)
    BY <1>9
  <2> QED
    BY <1>8, <1>9, <2>1
<1> QED
  BY <1>7, <1>8, <1>9, <1>10, <1>11

\* What the user asked for does not change.
LEMMA SameJob ==
    ASSUME [Next]_vars
    PROVE  job' = job
<1>1. CASE Serve
  BY <1>1 DEF Serve, Completion, Echo, Logprobs, Score
<1>2. CASE ~Serve
  BY <1>2, Zenon DEF Next, vars, progVars, generation, ParseArg, CheckArgs, PrintInfo, OpenBase,
     LoadModel, ModelLoaded, Leave, RefuseExport, StartExport, WriteExport, ExportCut, ExportEnds,
     ReadExport, EncodePrompt, RunPrompt, SampleNext, SampleWithoutLogits, EnoughTokens,
     ForwardNext, Respond, Reply, ServerListens, NoSockets, ServerHangs
<1> QED
  BY <1>1, <1>2

\* The file is written and read as GgufExport says, from the plan of the model
\* that was loaded.
LEMMA ExportStepInProgram ==
    ASSUME OffloadInv, ExportInv, job \in JobType, [Next]_vars
    PROVE  [ExportNext]_exportVars
<1>1. CASE StartExport
  <2>1. Plan \in Plans /\ TokKeys \in Nat
    BY PlanIsPlan, ProgramAssumption DEF OffloadInv, OffloadTypeOK
  <2> QED
    BY <1>1, <2>1 DEF StartExport, ExportNext
<1>2. CASE WriteExport
  BY <1>2 DEF WriteExport, WriterStep, ExportNext
<1>3. CASE ExportCut
  <2>1. pos \in Nat /\ \A q \in Cuts : q \in Nat
    BY ProgramAssumption DEF ExportInv, ExportTypeInv
  <2>2. PICK p \in {q \in Cuts : q <= pos} \cup {pos} : ExportThrows(p) \/ CloseExport(p)
    BY <1>3 DEF ExportCut
  <2>3. p \in 0 .. pos
    BY <2>1
  <2> QED
    BY <2>2, <2>3 DEF WriterStep, ExportNext
<1>4. CASE ReadExport
  BY <1>4 DEF ReadExport, ExportNext
<1>5. CASE Serve
  BY <1>5 DEF Serve, Completion, Echo, Logprobs, Score
<1>6. CASE ~StartExport /\ ~WriteExport /\ ~ExportCut /\ ~ReadExport /\ ~Serve
  BY <1>6, Zenon DEF Next, vars, ParseArg, CheckArgs, PrintInfo, OpenBase, LoadModel, ModelLoaded,
     Leave, RefuseExport, ExportEnds, EncodePrompt, RunPrompt, SampleNext, SampleWithoutLogits,
     EnoughTokens, ForwardNext, Respond, Reply, ServerListens, NoSockets, ServerHangs
<1> QED
  BY <1>1, <1>2, <1>3, <1>4, <1>5, <1>6

\* main reaches the export only through gguf_write_f16, with a plan that has the
\* tensors of a model in it, and nothing else touches the file.
THEOREM ProgramExports == Spec => ExportSpec
<1>1. Init => ExportInit /\ job \in JobType
  BY ProgramAssumption DEF Init
<1>2. OffloadInv /\ ExportInv /\ job \in JobType /\ [Next]_vars
          => [ExportNext]_exportVars /\ ExportInv' /\ (job \in JobType)'
  BY ExportStepInProgram, ExportKeeps, SameJob
<1> QED
  BY <1>1, <1>2, InitExport, ProgramInvOffload, PTL DEF Spec, ExportSpec

\* Whatever main does before and after, the properties of init_gpu_backend hold
\* in the program.
THEOREM LoadingInProgram ==
    Spec => []ReserveKept /\ []LeadingLayers /\ []AllFitIfPossible /\ []NoRoomForF16
                /\ []F16ReadAsStored /\ []AllReleased
  BY ProgramOffloads, ReserveKeptHolds, LeadingLayersHolds, AllFitIfPossibleHolds,
     NoRoomForF16Holds, F16ReadAsStoredHolds, AllReleasedHolds, PTL

\* So do those of gguf_write_f16 and of reading its file, a cut file included.
THEOREM ExportInProgram ==
    Spec => []ExportReloads /\ [](LargeFirst => CutNotMisread)
  BY ProgramExports, ExportReloadsHolds, CutNotMisreadHolds, PTL

-----------------------------------------------------------------------------
(* The weights of tokens.                                                  *)

\* A set has as many subsets as a power of two.
LEMMA PowerPositive == \A k \in Nat : 2 ^ k \in Nat \ {0}
<1> TAKE k \in Nat
<1>1. IsFiniteSet(1 .. k) /\ Cardinality(1 .. k) = k
  BY FS_Interval
<1>2. IsFiniteSet(SUBSET (1 .. k)) /\ Cardinality(SUBSET (1 .. k)) = 2 ^ k
  BY <1>1, FS_SUBSET
<1>3. SUBSET (1 .. k) # {}
  OBVIOUS
<1>4. Cardinality(SUBSET (1 .. k)) \in Nat /\ Cardinality(SUBSET (1 .. k)) # 0
  BY <1>2, <1>3, FS_CardinalityType, FS_EmptySet
<1> QED
  BY <1>2, <1>4

\* f has the sums of ws over the subsets of D.
Masses(ws, D, f) ==
    f = [s \in SUBSET D |-> IF s = {} THEN 0
                            ELSE ws[CHOOSE x \in s : TRUE] + f[s \ {CHOOSE x \in s : TRUE}]]

LEMMA MassIsSum ==
    ASSUME NEW ws, NEW D, NEW f0, Masses(ws, D, f0)
    PROVE  \E f : Masses(ws, D, f) /\ Mass(ws, D) = f[D]
<1> DEFINE iter == CHOOSE iter : iter = [s \in SUBSET D |->
                      IF s = {} THEN 0
                      ELSE ws[CHOOSE x \in s : TRUE] + iter[s \ {CHOOSE x \in s : TRUE}]]
<1>1. Masses(ws, D, iter)
  BY Zenon DEF Masses
<1>2. Mass(ws, D) = iter[D]
  BY Zenon DEF Mass, MapThenSumSet, MapThenFoldSet
<1> HIDE DEF iter
<1> QED
  BY <1>1, <1>2

\* Induction on finite sets, with a set of sets for the predicate.
LEMMA Subsets ==
    ASSUME NEW I, IsFiniteSet(I), NEW P,
           \A T \in SUBSET I : (\A x \in T : T \ {x} \in P) => T \in P
    PROVE  \A T \in SUBSET I : T \in P
<1> DEFINE Missed == {T \in SUBSET I : T \notin P}
           Sizes == {Cardinality(T) : T \in Missed}
<1>1. \A T \in SUBSET I : IsFiniteSet(T) /\ Cardinality(T) \in Nat
  BY FS_Subset, FS_CardinalityType
<1>2. SUFFICES ASSUME Missed # {} PROVE FALSE
  OBVIOUS
<1>3. Sizes \in SUBSET Nat /\ Sizes # {}
  BY <1>1, <1>2
<1>4. PICK k \in Sizes : \A y \in Sizes : k <= y
  <2> HIDE DEF Sizes
  <2> QED BY <1>3, WellOrdered
<1>5. PICK T \in Missed : k = Cardinality(T)
  BY <1>4
<1>6. PICK x \in T : T \ {x} \notin P
  BY <1>5
<1>7. T \ {x} \in Missed
  BY <1>5, <1>6
<1>8. Cardinality(T \ {x}) = Cardinality(T) - 1
  BY <1>1, <1>5, <1>6, FS_RemoveElement
<1>9. k <= Cardinality(T \ {x})
  BY <1>4, <1>7
<1> QED
  BY <1>1, <1>5, <1>8, <1>9

LEMMA MassesExist ==
    ASSUME NEW I, NEW ws \in [I -> Nat], NEW D \in SUBSET I, IsFiniteSet(D)
    PROVE  \E f : Masses(ws, D, f)
<1> DEFINE one(s) == CHOOSE x \in s : TRUE
           m == [s \in SUBSET D |-> Cardinality(s)]
           prev == [s \in SUBSET D |-> s \ {one(s)}]
           base == [s \in SUBSET D |-> 0]
           G == [s \in SUBSET D |-> [v \in Nat |-> IF s = {} THEN v ELSE ws[one(s)] + v]]
<1>1. PICK n \in Nat : n = Cardinality(D)
  BY FS_CardinalityType
<1>2. \A s \in SUBSET D : /\ IsFiniteSet(s) /\ Cardinality(s) \in 0 .. n
                          /\ Cardinality(s) = 0 <=> s = {}
  BY <1>1, FS_Subset, FS_CardinalityType, FS_EmptySet
<1>3. \A s \in SUBSET D : s # {} => one(s) \in s
  OBVIOUS
<1>4. ASSUME NEW s \in SUBSET D, s # {} PROVE ws[one(s)] \in Nat
  <2>1. one(s) \in I
    BY <1>3, <1>4
  <2> HIDE DEF one
  <2> QED
    BY <2>1
<1> HIDE DEF one
<1>5. Recursive(SUBSET D, Nat, n, m, prev, base, G)
  <2>1. m \in [SUBSET D -> 0 .. n] /\ prev \in [SUBSET D -> SUBSET D] /\ base \in [SUBSET D -> Nat]
    BY <1>2
  <2>2. \A s \in SUBSET D : \A v \in Nat : (IF s = {} THEN v ELSE ws[one(s)] + v) \in Nat
    BY <1>4
  <2>3. G \in [SUBSET D -> [Nat -> Nat]]
    BY <2>2
  <2>4. ASSUME NEW s \in SUBSET D, m[s] # 0 PROVE m[prev[s]] < m[s]
    <3>1. s # {} /\ one(s) \in s
      BY <1>2, <1>3, <2>4
    <3>2. Cardinality(s \ {one(s)}) = Cardinality(s) - 1
      BY <1>2, <3>1, FS_RemoveElement
    <3> QED
      BY <1>2, <3>2
  <2> HIDE DEF m, prev, base, G
  <2> QED
    BY <2>1, <2>3, <2>4 DEF Recursive
<1>6. PICK f : Solution(SUBSET D, Nat, m, prev, base, G, f)
  <2> HIDE DEF m, prev, base, G
  <2> QED
    BY <1>5, Recursion
<1>7. \A s \in SUBSET D : f[s] = IF s = {} THEN 0 ELSE ws[one(s)] + f[s \ {one(s)}]
  <2> SUFFICES ASSUME NEW s \in SUBSET D
               PROVE  f[s] = IF s = {} THEN 0 ELSE ws[one(s)] + f[s \ {one(s)}]
    OBVIOUS
  <2>1. m[s] = 0 <=> s = {}
    BY <1>2
  <2>2. base[s] = 0 /\ prev[s] = s \ {one(s)} /\ s \ {one(s)} \in SUBSET D
    OBVIOUS
  <2>3. s # {} => \A v \in Nat : G[s][v] = ws[one(s)] + v
    OBVIOUS
  <2>4. f \in [SUBSET D -> Nat] /\ f[s] = IF m[s] = 0 THEN base[s] ELSE G[s][f[prev[s]]]
    <3> HIDE DEF m, prev, base, G
    <3> QED BY <1>6 DEF Solution
  <2> HIDE DEF m, prev, base, G
  <2> QED
    BY <2>1, <2>2, <2>3, <2>4
<1>8. f = [s \in SUBSET D |-> f[s]]
  BY <1>6 DEF Solution
<1>9. f = [s \in SUBSET D |-> IF s = {} THEN 0 ELSE ws[one(s)] + f[s \ {one(s)}]]
  <2> HIDE DEF m, prev, base, G
  <2> QED
    BY <1>7, <1>8, Zenon
<1> QED
  BY <1>9, Zenon DEF Masses, one


\* Sums do not depend on the order of the summands.
LEMMA MassesStep ==
    ASSUME NEW I, NEW ws \in [I -> Nat], NEW D \in SUBSET I, IsFiniteSet(D),
           NEW f, Masses(ws, D, f)
    PROVE  /\ f[{}] = 0
           /\ \A T \in SUBSET D : f[T] \in Nat /\ \A x \in T : f[T] = ws[x] + f[T \ {x}]
<1> DEFINE one(s) == CHOOSE x \in s : TRUE
           Sums == {T \in SUBSET D : f[T] \in Nat}
           P == {T \in SUBSET D : \A x \in T : f[T] = ws[x] + f[T \ {x}]}
<1>1. \A s \in SUBSET D : f[s] = IF s = {} THEN 0 ELSE ws[one(s)] + f[s \ {one(s)}]
  BY Zenon DEF Masses
<1>2. \A s \in SUBSET D : s # {} => one(s) \in s
  OBVIOUS
<1> HIDE DEF one
<1>3. \A x \in D : ws[x] \in Nat
  OBVIOUS
<1>4. f[{}] = 0
  <2>1. {} \in SUBSET D
    OBVIOUS
  <2> QED
    BY <1>1, <2>1, Zenon
<1>5. \A T \in SUBSET D : f[T] \in Nat
  <2>1. ASSUME NEW T \in SUBSET D, \A x \in T : T \ {x} \in Sums PROVE f[T] \in Nat
    <3>1. CASE T = {}
      BY <1>4, <3>1
    <3>2. CASE T # {}
      <4>1. PICK c \in T : c = one(T)
        BY <1>2, <3>2
      <4>2. f[T] = ws[c] + f[T \ {c}]
        BY <1>1, <3>2, <4>1, Zenon
      <4>3. f[T \ {c}] \in Nat
        BY <2>1
      <4> QED
        BY <1>3, <4>2, <4>3
    <3> QED
      BY <3>1, <3>2
  <2>2. \A T \in SUBSET D : (\A x \in T : T \ {x} \in Sums) => T \in Sums
    BY <2>1
  <2>3. \A T \in SUBSET D : T \in Sums
    <3> HIDE DEF Sums
    <3> QED BY <2>2, Subsets
  <2> QED
    BY <2>3
<1>6. ASSUME NEW T \in SUBSET D, \A x \in T : T \ {x} \in P PROVE T \in P
  <2> SUFFICES ASSUME NEW x \in T PROVE f[T] = ws[x] + f[T \ {x}]
    OBVIOUS
  <2>1. PICK c \in T : c = one(T)
    BY <1>2
  <2>2. f[T] = ws[c] + f[T \ {c}]
    BY <1>1, <2>1, Zenon
  <2>3. CASE x = c
    BY <2>2, <2>3
  <2>4. CASE x # c
    <3>1. f[T \ {c}] = ws[x] + f[(T \ {c}) \ {x}]
      BY <1>6, <2>4
    <3>2. f[T \ {x}] = ws[c] + f[(T \ {x}) \ {c}]
      BY <1>6, <2>4
    <3>3. (T \ {c}) \ {x} = (T \ {x}) \ {c}
      OBVIOUS
    <3>4. PICK r \in Nat, a \in Nat, b \in Nat :
             r = f[(T \ {x}) \ {c}] /\ a = ws[c] /\ b = ws[x]
      <4>1. (T \ {x}) \ {c} \in SUBSET D
        OBVIOUS
      <4>2. f[(T \ {x}) \ {c}] \in Nat /\ ws[c] \in Nat /\ ws[x] \in Nat
        BY <1>3, <1>5, <4>1
      <4> QED
        BY <4>2
    <3>5. f[T] = a + (b + r) /\ f[T \ {x}] = a + r
      BY <2>2, <3>1, <3>2, <3>3, <3>4
    <3>6. a + (b + r) = b + (a + r)
      OBVIOUS
    <3> QED
      BY <3>4, <3>5, <3>6
  <2> QED
    BY <2>3, <2>4
<1>7. \A T \in SUBSET D : T \in P
  <2> HIDE DEF P
  <2> QED
    BY <1>6, Subsets
<1> QED
  BY <1>4, <1>5, <1>7

\* The sum of the weights of a set's elements.
LEMMA MassStep ==
    ASSUME NEW I, NEW ws \in [I -> Nat], IsFiniteSet(I)
    PROVE  /\ Mass(ws, {}) = 0
           /\ \A T \in SUBSET I : /\ Mass(ws, T) \in Nat
                                  /\ \A x \in T : Mass(ws, T) = ws[x] + Mass(ws, T \ {x})
<1>1. PICK f : Masses(ws, I, f)
  BY MassesExist
<1>2. /\ f[{}] = 0
      /\ \A T \in SUBSET I : f[T] \in Nat /\ \A x \in T : f[T] = ws[x] + f[T \ {x}]
  BY <1>1, MassesStep
<1>3. ASSUME NEW T \in SUBSET I PROVE Mass(ws, T) = f[T]
  <2>1. IsFiniteSet(T)
    BY FS_Subset
  <2>2. PICK g : Masses(ws, T, g) /\ Mass(ws, T) = g[T]
    <3>1. \E g : Masses(ws, T, g)
      BY <2>1, MassesExist
    <3> QED
      BY <3>1, MassIsSum
  <2>3. /\ g[{}] = 0
        /\ \A U \in SUBSET T : g[U] \in Nat /\ \A x \in U : g[U] = ws[x] + g[U \ {x}]
    BY <2>1, <2>2, MassesStep
  <2> DEFINE P == {U \in SUBSET T : g[U] = f[U]}
  <2>4. ASSUME NEW U \in SUBSET T, \A x \in U : U \ {x} \in P PROVE g[U] = f[U]
    <3>1. CASE U = {}
      BY <1>2, <2>3, <3>1
    <3>2. CASE U # {}
      <4>1. PICK x \in U : TRUE
        BY <3>2
      <4>2. g[U] = ws[x] + g[U \ {x}]
        BY <2>3
      <4>3. f[U] = ws[x] + f[U \ {x}]
        BY <1>2
      <4>4. g[U \ {x}] = f[U \ {x}]
        BY <2>4
      <4> QED
        BY <4>2, <4>3, <4>4
    <3> QED
      BY <3>1, <3>2
  <2>5. \A U \in SUBSET T : (\A x \in U : U \ {x} \in P) => U \in P
    BY <2>4
  <2>6. T \in P
    <3> HIDE DEF P
    <3> QED BY <2>1, <2>5, Subsets
  <2> QED
    BY <2>2, <2>6
<1>4. \A T \in SUBSET I : \A x \in T : T \ {x} \in SUBSET I
  OBVIOUS
<1>5. {} \in SUBSET I
  OBVIOUS
<1> QED
  BY <1>2, <1>3, <1>4, <1>5

\* A larger set has a larger mass.
LEMMA MassGrows ==
    ASSUME NEW I, NEW ws \in [I -> Nat], IsFiniteSet(I), NEW T \in SUBSET I
    PROVE  \A U \in SUBSET I : T \subseteq U => Mass(ws, T) <= Mass(ws, U)
<1> DEFINE P == {U \in SUBSET I : T \subseteq U => Mass(ws, T) <= Mass(ws, U)}
<1>1. \A V \in SUBSET I : /\ Mass(ws, V) \in Nat
                          /\ \A x \in V : Mass(ws, V) = ws[x] + Mass(ws, V \ {x})
  BY MassStep
<1>2. ASSUME NEW U \in SUBSET I, \A x \in U : U \ {x} \in P, T \subseteq U
      PROVE  Mass(ws, T) <= Mass(ws, U)
  <2>1. CASE T = U
    BY <1>1, <2>1
  <2>2. CASE T # U
    <3>1. PICK x \in U : x \notin T
      BY <1>2, <2>2
    <3>2. Mass(ws, T) <= Mass(ws, U \ {x})
      BY <1>2, <3>1
    <3>3. Mass(ws, U) = ws[x] + Mass(ws, U \ {x}) /\ ws[x] \in Nat
      BY <1>1
    <3>4. Mass(ws, T) \in Nat /\ Mass(ws, U \ {x}) \in Nat
      BY <1>1
    <3> QED
      BY <3>2, <3>3, <3>4
  <2> QED
    BY <2>1, <2>2
<1>3. \A U \in SUBSET I : (\A x \in U : U \ {x} \in P) => U \in P
  BY <1>2
<1>4. \A U \in SUBSET I : U \in P
  <2> HIDE DEF P
  <2> QED BY <1>3, Subsets
<1> QED
  BY <1>4

\* Weights that agree on R, where the others have none, give the mass of R.
LEMMA MassOfPart ==
    ASSUME NEW I, NEW ws \in [I -> Nat], NEW vs \in [I -> Nat], IsFiniteSet(I),
           NEW R \in SUBSET I, \A i \in I : vs[i] = IF i \in R THEN ws[i] ELSE 0
    PROVE  \A T \in SUBSET I : Mass(vs, T) = Mass(ws, T \cap R)
<1> DEFINE P == {T \in SUBSET I : Mass(vs, T) = Mass(ws, T \cap R)}
<1>1. /\ Mass(ws, {}) = 0
      /\ \A V \in SUBSET I : /\ Mass(ws, V) \in Nat
                             /\ \A x \in V : Mass(ws, V) = ws[x] + Mass(ws, V \ {x})
  BY MassStep
<1>2. /\ Mass(vs, {}) = 0
      /\ \A V \in SUBSET I : /\ Mass(vs, V) \in Nat
                             /\ \A x \in V : Mass(vs, V) = vs[x] + Mass(vs, V \ {x})
  BY MassStep
<1>3. ASSUME NEW T \in SUBSET I, \A x \in T : T \ {x} \in P
      PROVE  Mass(vs, T) = Mass(ws, T \cap R)
  <2>1. CASE T = {}
    <3>1. T \cap R = {}
      BY <2>1
    <3> QED
      BY <1>1, <1>2, <2>1, <3>1
  <2>2. CASE T # {}
    <3>1. PICK x \in T : TRUE
      BY <2>2
    <3>2. Mass(vs, T) = vs[x] + Mass(vs, T \ {x}) /\ Mass(vs, T \ {x}) \in Nat
      BY <1>2
    <3>3. Mass(vs, T \ {x}) = Mass(ws, (T \ {x}) \cap R)
      BY <1>3
    <3>4. CASE x \in R
      <4>1. (T \ {x}) \cap R = (T \cap R) \ {x} /\ x \in T \cap R
        BY <3>4
      <4>2. Mass(ws, T \cap R) = ws[x] + Mass(ws, (T \cap R) \ {x})
        BY <1>1, <4>1
      <4> QED
        BY <3>2, <3>3, <3>4, <4>1, <4>2
    <3>5. CASE x \notin R
      <4>1. (T \ {x}) \cap R = T \cap R
        BY <3>5
      <4>2. vs[x] = 0
        BY <3>5
      <4>3. Mass(vs, T) = Mass(vs, T \ {x})
        BY <3>2, <4>2
      <4> QED
        BY <3>3, <4>1, <4>3, Zenon
    <3> QED
      BY <3>4, <3>5
  <2> QED
    BY <2>1, <2>2
<1>4. \A T \in SUBSET I : (\A x \in T : T \ {x} \in P) => T \in P
  BY <1>3
<1>5. \A T \in SUBSET I : T \in P
  <2> HIDE DEF P
  <2> QED BY <1>4, Subsets
<1> QED
  BY <1>5

-----------------------------------------------------------------------------
(* The order of the tokens by their weights.                               *)

Weights(n) == [1 .. n -> Nat]

LEMMA AheadIs ==
    ASSUME NEW n \in Nat, NEW ws \in Weights(n)
    PROVE  \A i, j \in 1 .. n :
             /\ Ahead(ws, i) \in SUBSET (1 .. n) /\ i \notin Ahead(ws, i)
             /\ j \in Ahead(ws, i) <=> ws[j] > ws[i] \/ (ws[j] = ws[i] /\ j > i)
             /\ i = j \/ i \in Ahead(ws, j) \/ j \in Ahead(ws, i)
             /\ j \in Ahead(ws, i) => i \notin Ahead(ws, j) /\ Ahead(ws, j) \subseteq Ahead(ws, i)
<1>1. DOMAIN ws = 1 .. n /\ \A i \in 1 .. n : ws[i] \in Nat
  BY DEF Weights
<1>2. \A i, j \in 1 .. n : j \in Ahead(ws, i) <=> ws[j] > ws[i] \/ (ws[j] = ws[i] /\ j > i)
  BY <1>1 DEF Ahead, Before
<1>3. \A i \in 1 .. n : Ahead(ws, i) \in SUBSET (1 .. n)
  BY <1>1 DEF Ahead
<1> TAKE i, j \in 1 .. n
<1>4. i \notin Ahead(ws, i)
  BY <1>1, <1>2
<1>5. i = j \/ i \in Ahead(ws, j) \/ j \in Ahead(ws, i)
  BY <1>1, <1>2
<1>6. ASSUME j \in Ahead(ws, i)
      PROVE  i \notin Ahead(ws, j) /\ Ahead(ws, j) \subseteq Ahead(ws, i)
  <2>1. i \notin Ahead(ws, j)
    BY <1>1, <1>2, <1>6
  <2>2. ASSUME NEW k \in Ahead(ws, j) PROVE k \in Ahead(ws, i)
    <3>1. k \in 1 .. n
      BY <1>3
    <3> QED
      BY <1>1, <1>2, <1>6, <3>1
  <2> QED
    BY <2>1, <2>2
<1> QED
  BY <1>2, <1>3, <1>4, <1>5, <1>6

\* Of the tokens in a set, one is before all others.
LEMMA FirstOf ==
    ASSUME NEW n \in Nat, NEW ws \in Weights(n), NEW S \in SUBSET (1 .. n), S # {}
    PROVE  \E i \in S : Ahead(ws, i) \cap S = {}
<1> DEFINE P == {T \in SUBSET (1 .. n) : T = {} \/ \E i \in T : Ahead(ws, i) \cap T = {}}
<1>1. \A i, j \in 1 .. n :
             /\ Ahead(ws, i) \in SUBSET (1 .. n) /\ i \notin Ahead(ws, i)
             /\ i = j \/ i \in Ahead(ws, j) \/ j \in Ahead(ws, i)
             /\ j \in Ahead(ws, i) => i \notin Ahead(ws, j) /\ Ahead(ws, j) \subseteq Ahead(ws, i)
  BY AheadIs
<1>2. ASSUME NEW T \in SUBSET (1 .. n), \A x \in T : T \ {x} \in P, T # {}
      PROVE  \E i \in T : Ahead(ws, i) \cap T = {}
  <2>1. PICK x \in T : TRUE
    BY <1>2
  <2>2. CASE T \ {x} = {}
    <3>1. Ahead(ws, x) \cap T = {}
      BY <1>1, <2>2
    <3> QED
      BY <3>1
  <2>3. CASE T \ {x} # {}
    <3>1. PICK i \in T \ {x} : Ahead(ws, i) \cap (T \ {x}) = {}
      BY <1>2, <2>3
    <3>2. CASE x \in Ahead(ws, i)
      <4>1. Ahead(ws, x) \subseteq Ahead(ws, i) /\ x \notin Ahead(ws, x)
        BY <1>1, <3>2
      <4>2. Ahead(ws, x) \cap T = {}
        BY <3>1, <4>1
      <4> QED
        BY <4>2
    <3>3. CASE x \notin Ahead(ws, i)
      <4>1. Ahead(ws, i) \cap T = {}
        BY <3>1, <3>3
      <4> QED
        BY <4>1
    <3> QED
      BY <3>2, <3>3
  <2> QED
    BY <2>2, <2>3
<1>3. \A T \in SUBSET (1 .. n) : (\A x \in T : T \ {x} \in P) => T \in P
  BY <1>2
<1>4. S \in P
  <2>1. IsFiniteSet(1 .. n)
    BY FS_Interval
  <2> HIDE DEF P
  <2> QED BY <1>3, <2>1, Subsets
<1> QED
  BY <1>4

\* The tokens that the two filters let through.
Chosen(ws) ==
    {i \in DOMAIN ws :
        /\ ws[i] > 0
        /\ TopK = 0 \/ TopK >= Cardinality(DOMAIN ws) \/ Cardinality(Ahead(ws, i)) < TopK
        /\ TopP \in {0, 100} \/ 100 * Mass(ws, Ahead(ws, i)) < TopP * Mass(ws, DOMAIN ws)}

\* Before a token that top-k lets through are the same tokens as there were
\* without top-k.
LEMMA AheadInTopK ==
    ASSUME NEW n \in Nat, NEW ws \in Weights(n)
    PROVE  LET ks == KeepTopK(ws)
               K  == {i \in 1 .. n : TopK = 0 \/ TopK >= Cardinality(1 .. n)
                                        \/ Cardinality(Ahead(ws, i)) < TopK}
           IN  /\ ks \in Weights(n)
               /\ \A i \in 1 .. n : ks[i] = IF i \in K THEN ws[i] ELSE 0
               /\ \A i \in 1 .. n : ks[i] > 0 =>
                     Ahead(ks, i) = Ahead(ws, i) /\ Ahead(ws, i) \subseteq K
<1> DEFINE ks == KeepTopK(ws)
           K == {i \in 1 .. n : TopK = 0 \/ TopK >= Cardinality(1 .. n)
                                   \/ Cardinality(Ahead(ws, i)) < TopK}
<1>1. DOMAIN ws = 1 .. n /\ \A i \in 1 .. n : ws[i] \in Nat
  BY DEF Weights
<1>2. ks = [i \in 1 .. n |-> IF i \in K THEN ws[i] ELSE 0]
  <2>1. CASE TopK = 0 \/ TopK >= Cardinality(1 .. n)
    <3>1. ks = ws
      BY <1>1, <2>1, Zenon DEF KeepTopK
    <3>2. \A i \in 1 .. n : i \in K
      BY <2>1
    <3>3. ws = [i \in 1 .. n |-> ws[i]]
      BY DEF Weights
    <3> HIDE DEF ks, K
    <3> QED
      BY <3>1, <3>2, <3>3
  <2>2. CASE ~(TopK = 0 \/ TopK >= Cardinality(1 .. n))
    <3>1. ks = Keep(ws, {i \in 1 .. n : Cardinality(Ahead(ws, i)) < TopK})
      BY <1>1, <2>2, Zenon DEF KeepTopK
    <3>2. {i \in 1 .. n : Cardinality(Ahead(ws, i)) < TopK} = K
      BY <2>2, Zenon
    <3> HIDE DEF ks, K
    <3> QED
      BY <1>1, <3>1, <3>2, Zenon DEF Keep
  <2> QED
    BY <2>1, <2>2
<1>3. ks \in Weights(n)
  <2> HIDE DEF K, ks
  <2> QED BY <1>1, <1>2 DEF Weights
<1>4. \A i \in 1 .. n : ks[i] = IF i \in K THEN ws[i] ELSE 0
  <2> HIDE DEF K, ks
  <2> QED BY <1>2
<1>5. ASSUME NEW i \in K PROVE Ahead(ws, i) \subseteq K
  <2> SUFFICES ASSUME NEW j \in Ahead(ws, i) PROVE j \in K
    OBVIOUS
  <2>1. j \in 1 .. n /\ Ahead(ws, j) \subseteq Ahead(ws, i) /\ Ahead(ws, i) \in SUBSET (1 .. n)
    BY AheadIs
  <2>2. /\ Cardinality(Ahead(ws, j)) <= Cardinality(Ahead(ws, i))
        /\ Cardinality(Ahead(ws, j)) \in Nat /\ Cardinality(Ahead(ws, i)) \in Nat
    <3>1. IsFiniteSet(1 .. n)
      BY FS_Interval
    <3>2. IsFiniteSet(Ahead(ws, i)) /\ IsFiniteSet(Ahead(ws, j))
      BY <2>1, <3>1, FS_Subset
    <3> QED
      BY <2>1, <3>2, FS_Subset, FS_CardinalityType
  <2>3. TopK \in Nat
    BY SamplerAssumption
  <2> QED
    BY <2>1, <2>2, <2>3
<1>6. ASSUME NEW i \in 1 .. n, ks[i] > 0 PROVE Ahead(ks, i) = Ahead(ws, i) /\ i \in K
  <2> HIDE DEF ks, K
  <2>1. i \in K /\ ks[i] = ws[i]
    BY <1>4, <1>6
  <2>2. ASSUME NEW j \in 1 .. n PROVE j \in Ahead(ks, i) <=> j \in Ahead(ws, i)
    <3>1. j \in Ahead(ks, i) <=> ks[j] > ks[i] \/ (ks[j] = ks[i] /\ j > i)
      BY <1>3, AheadIs
    <3>2. j \in Ahead(ws, i) <=> ws[j] > ws[i] \/ (ws[j] = ws[i] /\ j > i)
      BY AheadIs
    <3>3. CASE j \in K
      <4>1. ks[j] = ws[j]
        BY <1>4, <3>3
      <4> QED
        BY <2>1, <3>1, <3>2, <4>1
    <3>4. CASE j \notin K
      <4>1. ks[j] = 0
        BY <1>4, <3>4
      <4>2. j \notin Ahead(ks, i)
        BY <1>1, <1>6, <2>1, <3>1, <4>1
      <4>3. j \notin Ahead(ws, i)
        BY <1>5, <2>1, <3>4
      <4> QED
        BY <4>2, <4>3
    <3> QED
      BY <3>3, <3>4
  <2>3. Ahead(ks, i) \in SUBSET (1 .. n) /\ Ahead(ws, i) \in SUBSET (1 .. n)
    BY <1>3, AheadIs
  <2> QED
    BY <2>1, <2>2, <2>3
<1> QED
  BY <1>3, <1>4, <1>5, <1>6

\* What is left of the weights when both filters are through.
LEMMA FiltersChoose ==
    ASSUME NEW n \in Nat, NEW ws \in Weights(n)
    PROVE  LET kept == KeepTopP(KeepTopK(ws), Mass(ws, DOMAIN ws))
           IN  /\ kept \in Weights(n)
               /\ \A i \in 1 .. n : kept[i] = IF i \in Chosen(ws) THEN ws[i] ELSE 0
<1> DEFINE ks == KeepTopK(ws)
           K  == {i \in 1 .. n : TopK = 0 \/ TopK >= Cardinality(1 .. n)
                                    \/ Cardinality(Ahead(ws, i)) < TopK}
           total == Mass(ws, DOMAIN ws)
           kept == KeepTopP(ks, total)
           Q == {i \in 1 .. n : TopP \in {0, 100} \/ 100 * Mass(ks, Ahead(ks, i)) < TopP * total}
<1>1. DOMAIN ws = 1 .. n /\ \A i \in 1 .. n : ws[i] \in Nat
  BY DEF Weights
<1>2. /\ ks \in Weights(n)
      /\ \A i \in 1 .. n : ks[i] = IF i \in K THEN ws[i] ELSE 0
      /\ \A i \in 1 .. n : ks[i] > 0 => Ahead(ks, i) = Ahead(ws, i) /\ Ahead(ws, i) \subseteq K
  BY AheadInTopK
<1>3. kept = [i \in 1 .. n |-> IF i \in Q THEN ks[i] ELSE 0]
  <2>1. DOMAIN ks = 1 .. n
    BY <1>2 DEF Weights
  <2>2. CASE TopP \in {0, 100}
    <3>1. kept = ks
      BY <2>2, Zenon DEF KeepTopP
    <3>2. \A i \in 1 .. n : i \in Q
      BY <2>2, Zenon
    <3>3. ks = [i \in 1 .. n |-> ks[i]]
      BY <1>2 DEF Weights
    <3> HIDE DEF ks, Q, kept
    <3> QED
      BY <3>1, <3>2, <3>3
  <2>3. CASE TopP \notin {0, 100}
    <3>1. kept = Keep(ks, {i \in 1 .. n : 100 * Mass(ks, Ahead(ks, i)) < TopP * total})
      <4> HIDE DEF ks, total
      <4> QED
        BY <2>1, <2>3, Zenon DEF KeepTopP
    <3>2. {i \in 1 .. n : 100 * Mass(ks, Ahead(ks, i)) < TopP * total} = Q
      BY <2>3, Zenon
    <3> HIDE DEF ks, Q, kept
    <3> QED
      BY <2>1, <3>1, <3>2, Zenon DEF Keep
  <2> QED
    BY <2>2, <2>3
<1>4. ASSUME NEW i \in 1 .. n, ks[i] > 0 PROVE Mass(ks, Ahead(ks, i)) = Mass(ws, Ahead(ws, i))
  <2>1. IsFiniteSet(1 .. n)
    BY FS_Interval
  <2>2. Ahead(ks, i) = Ahead(ws, i) /\ Ahead(ws, i) \subseteq K
    BY <1>2, <1>4
  <2>3. Ahead(ws, i) \in SUBSET (1 .. n) /\ K \in SUBSET (1 .. n)
    BY AheadIs
  <2> HIDE DEF ks, K
  <2>4. ks \in [1 .. n -> Nat] /\ ws \in [1 .. n -> Nat]
    BY <1>2 DEF Weights
  <2>5. Mass(ks, Ahead(ws, i)) = Mass(ws, Ahead(ws, i) \cap K)
    <3>1. \A j \in 1 .. n : ks[j] = IF j \in K THEN ws[j] ELSE 0
      BY <1>2
    <3>2. PICK D : D = 1 .. n
      OBVIOUS
    <3>3. /\ IsFiniteSet(D) /\ K \in SUBSET D /\ ks \in [D -> Nat] /\ ws \in [D -> Nat]
          /\ \A j \in D : ks[j] = IF j \in K THEN ws[j] ELSE 0
      BY <2>1, <2>3, <2>4, <3>1, <3>2
    <3>4. \A T \in SUBSET D : Mass(ks, T) = Mass(ws, T \cap K)
      BY <3>3, MassOfPart
    <3> QED
      BY <2>3, <3>2, <3>4
  <2>6. Ahead(ws, i) \cap K = Ahead(ws, i)
    BY <2>2
  <2> QED
    BY <2>2, <2>5, <2>6
<1>5. ASSUME NEW i \in 1 .. n
      PROVE  kept[i] \in Nat /\ kept[i] = IF i \in Chosen(ws) THEN ws[i] ELSE 0
  <2>1. kept[i] = IF i \in Q THEN ks[i] ELSE 0
    <3> HIDE DEF kept, Q
    <3> QED BY <1>3
  <2>2. i \in Chosen(ws) <=>
          /\ ws[i] > 0
          /\ i \in K
          /\ TopP \in {0, 100} \/ 100 * Mass(ws, Ahead(ws, i)) < TopP * total
    BY <1>1 DEF Chosen
  <2>3. i \in Q <=> TopP \in {0, 100} \/ 100 * Mass(ks, Ahead(ks, i)) < TopP * total
    OBVIOUS
  <2>4. ks[i] \in Nat /\ ks[i] = IF i \in K THEN ws[i] ELSE 0
    BY <1>2 DEF Weights
  <2> HIDE DEF kept, Q, ks, K, total
  <2>5. CASE ks[i] > 0
    <3>1. i \in K /\ ws[i] > 0
      BY <2>4, <2>5
    <3>2. i \in Chosen(ws) <=> i \in Q
      BY <1>4, <2>2, <2>3, <2>5, <3>1, Zenon
    <3> QED
      BY <2>1, <2>4, <3>1, <3>2
  <2>6. CASE ~(ks[i] > 0)
    <3>1. ks[i] = 0
      BY <2>4, <2>6
    <3>2. i \notin Chosen(ws)
      BY <1>1, <2>2, <2>4, <3>1
    <3> QED
      BY <2>1, <3>1, <3>2
  <2> QED
    BY <2>5, <2>6
<1>6. kept \in Weights(n)
  <2>1. DOMAIN kept = 1 .. n /\ kept = [i \in 1 .. n |-> kept[i]]
    <3> HIDE DEF kept, Q
    <3> QED BY <1>3
  <2> HIDE DEF kept
  <2> QED
    BY <1>5, <2>1 DEF Weights
<1> QED
  BY <1>5, <1>6

\* The filters keep the nucleus: no smaller set of likeliest tokens would do.
LEMMA NucleusIsChosen ==
    ASSUME NEW n \in Nat, NEW ws \in Weights(n), NEW top \in 1 .. n, ws[top] > 0
    PROVE  Nucleus(ws) = Chosen(ws) /\ Chosen(ws) # {}
<1> DEFINE D == 1 .. n
           C == Chosen(ws)
           tops == {S \in SUBSET D : /\ S # {}
                                     /\ \A i \in S : ws[i] > 0 /\ Ahead(ws, i) \subseteq S
                                     /\ Reaches(ws, S)}
<1>1. DOMAIN ws = D /\ \A i \in D : ws[i] \in Nat
  BY DEF Weights
<1>2. IsFiniteSet(D) /\ Cardinality(D) = n
  BY FS_Interval
<1>3. ws \in [D -> Nat]
  BY DEF Weights
<1>4. \A T \in SUBSET D : /\ Mass(ws, T) \in Nat
                          /\ \A x \in T : Mass(ws, T) = ws[x] + Mass(ws, T \ {x})
  <2> HIDE DEF D
  <2> QED BY <1>2, <1>3, MassStep
<1>5. \A T, U \in SUBSET D : T \subseteq U => Mass(ws, T) <= Mass(ws, U)
  BY <1>2, <1>3, MassGrows
<1>6. \A T, U \in SUBSET D : /\ IsFiniteSet(T) /\ Cardinality(T) \in Nat
                             /\ T \subseteq U => Cardinality(T) <= Cardinality(U)
                             /\ T \subseteq U /\ Cardinality(T) = Cardinality(U) => T = U
  BY <1>2, FS_Subset, FS_CardinalityType
<1>7. \A i, j \in D :
             /\ Ahead(ws, i) \in SUBSET D /\ i \notin Ahead(ws, i)
             /\ j \in Ahead(ws, i) <=> ws[j] > ws[i] \/ (ws[j] = ws[i] /\ j > i)
             /\ i = j \/ i \in Ahead(ws, j) \/ j \in Ahead(ws, i)
             /\ j \in Ahead(ws, i) => i \notin Ahead(ws, j) /\ Ahead(ws, j) \subseteq Ahead(ws, i)
  BY AheadIs
<1>8. PICK total \in Nat, bar \in Nat :
         /\ total = Mass(ws, D) /\ bar = TopP * total /\ total > 0
         /\ TopP > 0 => bar > 0
         /\ TopP = 100 => bar = 100 * total
  <2>1. Mass(ws, D) = ws[top] + Mass(ws, D \ {top}) /\ Mass(ws, D \ {top}) \in Nat
    BY <1>4
  <2>2. PICK total \in Nat : total = Mass(ws, D) /\ total > 0
    BY <1>1, <1>4, <2>1
  <2>3. PICK p \in 0 .. 100 : p = TopP
    BY SamplerAssumption
  <2>4. p * total \in Nat /\ (p > 0 => p * total > 0)
    BY <2>2
  <2> QED
    BY <2>2, <2>3, <2>4
<1>9. TopK \in Nat /\ TopP \in 0 .. 100
  BY SamplerAssumption
<1> DEFINE First(i) == TopK = 0 \/ TopK >= n \/ Cardinality(Ahead(ws, i)) < TopK
           Below(i) == TopP \in {0, 100} \/ 100 * Mass(ws, Ahead(ws, i)) < bar
<1>10. \A i : i \in C <=> i \in D /\ ws[i] > 0 /\ First(i) /\ Below(i)
  BY <1>1, <1>2, <1>8 DEF Chosen
<1>11. \A S \in SUBSET D : Reaches(ws, S) <=>
          \/ TopP # 0 /\ 100 * Mass(ws, S) >= bar
          \/ TopK # 0 /\ Cardinality(S) >= TopK
          \/ \A i \in D \ S : ws[i] = 0
  BY <1>1, <1>8, Zenon DEF Reaches
<1>12. C \in SUBSET D
  BY <1>10
<1> HIDE DEF C, D
<1>13. \A i \in C : Ahead(ws, i) \subseteq C
  <2> SUFFICES ASSUME NEW i \in C, NEW j \in Ahead(ws, i) PROVE j \in C
    OBVIOUS
  <2>1. i \in D /\ j \in D /\ Ahead(ws, j) \subseteq Ahead(ws, i)
    BY <1>7, <1>12
  <2>2. ws[j] > 0
    BY <1>1, <1>7, <1>10, <2>1
  <2>3. Cardinality(Ahead(ws, j)) <= Cardinality(Ahead(ws, i))
        /\ Mass(ws, Ahead(ws, j)) <= Mass(ws, Ahead(ws, i))
    BY <1>5, <1>6, <1>7, <2>1
  <2>4. /\ Cardinality(Ahead(ws, j)) \in Nat /\ Cardinality(Ahead(ws, i)) \in Nat
        /\ Mass(ws, Ahead(ws, j)) \in Nat /\ Mass(ws, Ahead(ws, i)) \in Nat
    BY <1>4, <1>6, <1>7, <2>1
  <2>5. First(j)
    BY <1>9, <1>10, <2>3, <2>4
  <2>6. Below(j)
    BY <1>10, <2>3, <2>4
  <2> QED
    BY <1>10, <2>1, <2>2, <2>5, <2>6
\* Every set that reaches has all chosen tokens.
<1>14. ASSUME NEW U \in tops, NEW i \in C PROVE i \in U
  <2> SUFFICES ASSUME i \notin U PROVE FALSE
    OBVIOUS
  <2>1. i \in D /\ ws[i] > 0 /\ First(i) /\ Below(i)
    BY <1>10
  <2>2. U \subseteq Ahead(ws, i) /\ U \in SUBSET D
    <3> SUFFICES ASSUME NEW j \in U PROVE j \in Ahead(ws, i)
      OBVIOUS
    <3>1. j \in D /\ Ahead(ws, j) \subseteq U
      OBVIOUS
    <3> QED
      BY <1>7, <2>1, <3>1
  <2>3. Mass(ws, U) <= Mass(ws, Ahead(ws, i)) /\ Cardinality(U) <= Cardinality(Ahead(ws, i))
    BY <1>5, <1>6, <1>7, <2>1, <2>2
  <2>4. /\ Mass(ws, U) \in Nat /\ Mass(ws, Ahead(ws, i)) \in Nat
        /\ Cardinality(U) \in Nat /\ Cardinality(Ahead(ws, i)) \in Nat
    BY <1>4, <1>6, <1>7, <2>1, <2>2
  <2>5. CASE TopP # 0 /\ 100 * Mass(ws, U) >= bar
    <3>1. CASE TopP # 100
      BY <1>8, <2>1, <2>3, <2>4, <2>5, <3>1
    <3>2. CASE TopP = 100
      <4>1. Ahead(ws, i) \subseteq D \ {i} /\ D \ {i} \in SUBSET D
        BY <1>7, <2>1
      <4>2. Mass(ws, Ahead(ws, i)) <= Mass(ws, D \ {i})
        BY <1>5, <1>7, <2>1, <4>1
      <4>3. Mass(ws, D) = ws[i] + Mass(ws, D \ {i}) /\ Mass(ws, D \ {i}) \in Nat
        BY <1>4, <2>1, <4>1
      <4> QED
        BY <1>1, <1>8, <2>1, <2>3, <2>4, <2>5, <3>2, <4>2, <4>3
    <3> QED
      BY <3>1, <3>2
  <2>6. CASE TopK # 0 /\ Cardinality(U) >= TopK
    <3>1. CASE TopK >= n
      <4>1. Cardinality(U) <= Cardinality(D)
        BY <1>6, <2>2
      <4>2. Cardinality(U) = Cardinality(D)
        BY <1>2, <1>9, <2>4, <2>6, <3>1, <4>1
      <4>3. U = D
        BY <1>6, <2>2, <4>2
      <4> QED
        BY <2>1, <4>3
    <3>2. CASE ~(TopK >= n)
      BY <1>9, <2>1, <2>3, <2>4, <2>6, <3>2
    <3> QED
      BY <3>1, <3>2
  <2>7. CASE \A k \in D \ U : ws[k] = 0
    BY <2>1, <2>7
  <2>8. Reaches(ws, U)
    OBVIOUS
  <2> QED
    BY <1>11, <2>2, <2>5, <2>6, <2>7, <2>8
\* The chosen tokens reach.
<1>15. C # {}
  <2> DEFINE S == {i \in D : ws[i] > 0}
  <2>1. S # {} /\ S \in SUBSET (1 .. n)
    BY DEF D
  <2>2. PICK i \in S : Ahead(ws, i) \cap S = {}
    <3> HIDE DEF S
    <3> QED BY <2>1, FirstOf
  <2>3. Ahead(ws, i) = {}
    <3>1. \A j \in Ahead(ws, i) : j \in S
      <4> SUFFICES ASSUME NEW j \in Ahead(ws, i) PROVE j \in D /\ ws[j] > 0
        OBVIOUS
      <4>1. j \in D
        BY <1>7
      <4>2. ws[j] > ws[i] \/ ws[j] = ws[i]
        BY <1>7, <4>1
      <4> QED
        BY <1>1, <4>1, <4>2
    <3> QED
      BY <2>2, <3>1
  <2>4. Cardinality(Ahead(ws, i)) = 0 /\ Mass(ws, Ahead(ws, i)) = 0
    <3>1. Mass(ws, {}) = 0
      BY <1>2, <1>3, MassStep
    <3> QED
      BY <2>3, <3>1, FS_EmptySet
  <2>5. First(i) /\ Below(i)
    BY <1>8, <1>9, <2>4
  <2> QED
    BY <1>10, <2>5
<1>16. Reaches(ws, C)
  <2> DEFINE S == {i \in D : ws[i] > 0 /\ i \notin C}
  <2>1. CASE S = {}
    <3>1. \A i \in D \ C : ws[i] = 0
      BY <1>1, <2>1
    <3> QED
      BY <1>11, <1>12, <3>1
  <2>2. CASE S # {}
    <3>1. S \in SUBSET (1 .. n)
      BY DEF D
    <3>2. PICK x \in S : Ahead(ws, x) \cap S = {}
      <4> HIDE DEF S
      <4> QED BY <2>2, <3>1, FirstOf
    <3>3. Ahead(ws, x) = C
      <4>1. ASSUME NEW j \in Ahead(ws, x) PROVE j \in C
        <5>1. j \in D /\ x \in D
          BY <1>7
        <5>2. ws[j] > ws[x] \/ ws[j] = ws[x]
          BY <1>7, <5>1
        <5>3. ws[j] > 0
          BY <1>1, <5>1, <5>2
        <5> QED
          BY <3>2, <5>1, <5>3
      <4>2. ASSUME NEW j \in C PROVE j \in Ahead(ws, x)
        <5>1. j \in D /\ x \in D /\ j # x
          BY <1>12
        <5>2. x \notin Ahead(ws, j)
          BY <1>13
        <5> QED
          BY <1>7, <5>1, <5>2
      <4>3. Ahead(ws, x) \in SUBSET D
        BY <1>7
      <4> QED
        BY <4>1, <4>2, <4>3, <1>12
    <3>4. ~First(x) \/ ~Below(x)
      BY <1>10
    <3>5. Cardinality(C) \in Nat /\ Mass(ws, C) \in Nat
      BY <1>4, <1>6, <1>12
    <3>6. CASE ~First(x)
      BY <1>9, <1>11, <1>12, <3>3, <3>5, <3>6
    <3>7. CASE ~Below(x)
      BY <1>8, <1>9, <1>11, <1>12, <3>3, <3>5, <3>7
    <3> QED
      BY <3>4, <3>6, <3>7
  <2> QED
    BY <2>1, <2>2
<1>17. C \in tops
  BY <1>10, <1>12, <1>13, <1>15, <1>16
<1>18. \A U \in tops : C \subseteq U /\ U \in SUBSET D
  BY <1>14
<1> DEFINE Least(S) == S \in tops /\ \A U \in tops : Cardinality(S) <= Cardinality(U)
<1>19. Least(C)
  <2> HIDE DEF tops
  <2> QED BY <1>6, <1>12, <1>17, <1>18
<1>20. \A S : Least(S) => S = C
  <2> HIDE DEF tops
  <2> SUFFICES ASSUME NEW S, Least(S) PROVE S = C
    OBVIOUS
  <2>1. Cardinality(S) <= Cardinality(C) /\ Cardinality(C) <= Cardinality(S) /\ C \subseteq S /\ S \in SUBSET D
    BY <1>17, <1>19, <1>18
  <2>2. Cardinality(S) \in Nat /\ Cardinality(C) \in Nat
    BY <1>6, <1>12, <2>1
  <2>3. Cardinality(S) = Cardinality(C)
    BY <2>1, <2>2
  <2> QED
    BY <1>6, <1>12, <2>1, <2>3
<1>21. Nucleus(ws) = CHOOSE S \in tops : \A U \in tops : Cardinality(S) <= Cardinality(U)
  BY <1>1, Zenon DEF Nucleus
<1> HIDE DEF tops
<1> QED
  BY <1>15, <1>19, <1>20, <1>21, Zenon DEF C

\* Of finitely many whole numbers one is the largest.
LEMMA TopExists ==
    ASSUME NEW n \in Nat \ {0}, NEW ls \in [1 .. n -> Int]
    PROVE  \E i \in 1 .. n : \A j \in 1 .. n : ls[j] <= ls[i]
<1> DEFINE Top(k) == \E i \in 1 .. k : \A j \in 1 .. k : ls[j] <= ls[i]
           S == {k \in 0 .. n : k = 0 \/ Top(k)}
<1>1. ASSUME NEW k \in 0 .. n - 1, k \in S PROVE k + 1 \in S
  <2>1. k + 1 \in 1 .. n /\ \A j \in 1 .. k + 1 : j \in 1 .. k \/ j = k + 1
    OBVIOUS
  <2>2. CASE k = 0
    <3>1. \A j \in 1 .. k + 1 : j = k + 1
      BY <2>2
    <3>2. ls[k + 1] \in Int /\ k + 1 \in 1 .. k + 1
      BY <2>1
    <3>3. \A j \in 1 .. k + 1 : ls[j] <= ls[k + 1]
      BY <3>1, <3>2
    <3>4. Top(k + 1)
      BY <3>2, <3>3
    <3> QED
      BY <2>1, <3>4
  <2>3. CASE k # 0
    <3>1. PICK i \in 1 .. k : \A j \in 1 .. k : ls[j] <= ls[i]
      BY <1>1, <2>3
    <3>2. ls[i] \in Int /\ ls[k + 1] \in Int /\ i \in 1 .. k + 1 /\ k + 1 \in 1 .. k + 1
      BY <2>1
    <3>3. \A j \in 1 .. k : ls[j] \in Int
      OBVIOUS
    <3>4. CASE ls[k + 1] <= ls[i]
      <4>1. \A j \in 1 .. k + 1 : ls[j] <= ls[i]
        BY <2>1, <3>1, <3>4
      <4>2. Top(k + 1)
        BY <3>2, <4>1
      <4> QED
        BY <2>1, <4>2
    <3>5. CASE ls[i] <= ls[k + 1]
      <4>1. \A j \in 1 .. k + 1 : ls[j] <= ls[k + 1]
        BY <2>1, <3>1, <3>2, <3>3, <3>5
      <4>2. Top(k + 1)
        BY <3>2, <4>1
      <4> QED
        BY <2>1, <4>2
    <3> QED
      BY <3>2, <3>4, <3>5
  <2> QED
    BY <2>2, <2>3
<1>2. 0 \in S /\ n \in 0 .. n /\ n \in Nat
  OBVIOUS
<1>3. n \in S
  <2> HIDE DEF S
  <2> QED
    BY <1>1, <1>2, UpTo
<1> QED
  BY <1>3

\* The weights are natural numbers, and the largest logit has some.
LEMMA SoftmaxIs ==
    ASSUME NEW n \in Nat \ {0}, NEW ls \in [1 .. n -> Int], NEW seen
    PROVE  LET ws == Softmax(Scaled(ls, seen))
           IN  ws \in Weights(n) /\ \E top \in 1 .. n : ws[top] > 0
<1>1. PICK xs : xs = Scaled(ls, seen)
  OBVIOUS
<1>2. xs \in [1 .. n -> Int]
  <2>1. PICK t \in Nat, p \in Nat \ {0} : t = Temperature /\ p = Penalty
    BY SamplerAssumption
  <2>2. \A x \in Int : (t > 1 => x \div t \in Int) /\ x \div p \in Int
    BY <2>1
  <2> DEFINE x(i) == IF t > 1 THEN ls[i] \div t ELSE ls[i]
  <2>3. \A i \in 1 .. n : x(i) \in Int
    BY <2>2
  <2>4. xs = [i \in 1 .. n |-> IF i \in seen THEN x(i) \div p ELSE x(i)]
    <3>1. DOMAIN ls = 1 .. n
      OBVIOUS
    <3> QED
      BY <1>1, <2>1, <3>1, Zenon DEF Scaled
  <2> HIDE DEF x
  <2> QED
    BY <2>2, <2>3, <2>4
<1>3. PICK i0 \in 1 .. n : \A j \in 1 .. n : xs[j] <= xs[i0]
  BY <1>2, TopExists
<1>4. PICK top : top = Max({xs[i] : i \in 1 .. n})
  OBVIOUS
<1>5. top = xs[i0]
  <2> DEFINE S == {xs[i] : i \in 1 .. n}
  <2>1. xs[i0] \in S /\ \A y \in S : xs[i0] >= y
    BY <1>2, <1>3
  <2>2. \A y \in S : y \in Int
    BY <1>2
  <2> HIDE DEF S
  <2>3. Max(S) \in S /\ \A y \in S : Max(S) >= y
    BY <2>1, Zenon DEF Max
  <2>4. Max(S) = xs[i0]
    BY <2>1, <2>2, <2>3
  <2> QED
    BY <1>4, <2>4 DEF S
<1>6. PICK d \in Nat : d = Depth
  BY SamplerAssumption
<1> DEFINE ws == Softmax(xs)
           w(i) == IF top - xs[i] > d THEN 0 ELSE 2 ^ (1 + d + xs[i] - top)
<1>7. ws = [i \in 1 .. n |-> w(i)]
  <2>1. DOMAIN xs = 1 .. n
    BY <1>2
  <2> QED
    BY <1>4, <1>6, <2>1, Zenon DEF Softmax
<1>8. \A i \in 1 .. n : w(i) \in Nat
  <2> SUFFICES ASSUME NEW i \in 1 .. n, ~(top - xs[i] > d)
               PROVE  2 ^ (1 + d + xs[i] - top) \in Nat
    OBVIOUS
  <2>1. 1 + d + xs[i] - top \in Nat
    BY <1>2, <1>5
  <2> QED
    BY <2>1, PowerPositive
<1>9. w(i0) > 0
  <2>1. ~(top - xs[i0] > d) /\ 1 + d + xs[i0] - top \in Nat
    BY <1>2, <1>5
  <2>2. w(i0) = 2 ^ (1 + d + xs[i0] - top)
    BY <2>1
  <2>3. 2 ^ (1 + d + xs[i0] - top) \in Nat \ {0}
    BY <2>1, PowerPositive
  <2> QED
    BY <2>2, <2>3
<1> HIDE DEF w
<1>10. ws \in Weights(n) /\ ws[i0] > 0
  <2> HIDE DEF ws
  <2> QED
    BY <1>7, <1>8, <1>9 DEF Weights
<1> QED
  BY <1>1, <1>10

\* The mass that is left when the weights outside of R are taken away.
LEMMA MassLeft ==
    ASSUME NEW I, NEW ws \in [I -> Nat], NEW vs \in [I -> Nat], IsFiniteSet(I),
           NEW R \in SUBSET I, \A i \in I : vs[i] = IF i \in R THEN ws[i] ELSE 0,
           R # {}, \A i \in R : ws[i] > 0
    PROVE  Mass(vs, I) = Mass(ws, R) /\ Mass(vs, I) \in Nat \ {0}
<1>1. Mass(vs, I) = Mass(ws, R)
  <2>1. I \cap R = R /\ I \in SUBSET I
    OBVIOUS
  <2>2. Mass(vs, I) = Mass(ws, I \cap R)
    BY <2>1, MassOfPart
  <2> QED
    BY <2>1, <2>2
<1>2. PICK x \in R : TRUE
  OBVIOUS
<1>3. ws[x] \in Nat /\ ws[x] > 0 /\ x \in R
  BY <1>2
<1>4. Mass(ws, R) = ws[x] + Mass(ws, R \ {x}) /\ Mass(ws, R \ {x}) \in Nat
  <2>1. R \ {x} \in SUBSET I
    OBVIOUS
  <2> QED
    BY <1>2, <2>1, MassStep
<1> QED
  BY <1>1, <1>3, <1>4

\* A token without weight is drawn only for a random number of 0, or for one
\* above all sums.
LEMMA DrawnIsWeighted ==
    ASSUME NEW n \in Nat \ {0}, NEW ws \in Weights(n), NEW vs \in Weights(n),
           NEW R \in SUBSET (1 .. n), R # {}, \A i \in R : ws[i] > 0,
           \A i \in 1 .. n : vs[i] = IF i \in R THEN ws[i] ELSE 0,
           NEW ls, NEW sample \in Nat, NEW lost \in Nat
    PROVE  \/ SampleToken(ls, vs, sample, lost) \in R
           \/ sample = 0
           \/ sample > Mass(ws, R) - lost
<1>1. PICK D : D = 1 .. n
  OBVIOUS
<1>2. /\ IsFiniteSet(D) /\ R \in SUBSET D /\ ws \in [D -> Nat] /\ vs \in [D -> Nat]
      /\ \A j \in D : vs[j] = IF j \in R THEN ws[j] ELSE 0
  <2>1. IsFiniteSet(1 .. n)
    BY FS_Interval
  <2>2. ws \in [1 .. n -> Nat] /\ vs \in [1 .. n -> Nat]
    BY DEF Weights
  <2> QED
    BY <1>1, <2>1, <2>2
<1>3. PICK total \in Nat \ {0} : total = Mass(vs, D) /\ total = Mass(ws, R)
  <2>1. IsFiniteSet(D) /\ R \in SUBSET D /\ R # {}
    BY <1>2
  <2>2. ws \in [D -> Nat] /\ vs \in [D -> Nat]
    BY <1>2
  <2>3. \A j \in D : vs[j] = IF j \in R THEN ws[j] ELSE 0
    BY <1>2
  <2>4. \A i \in R : ws[i] > 0
    OBVIOUS
  <2>5. Mass(vs, D) = Mass(ws, R) /\ Mass(vs, D) \in Nat \ {0}
    BY ONLY <2>1, <2>2, <2>3, <2>4, MassLeft
  <2> QED
    BY <2>5
<1>4. /\ Mass(vs, {}) = 0
      /\ \A T \in SUBSET D : /\ Mass(vs, T) \in Nat
                             /\ \A x \in T : Mass(vs, T) = vs[x] + Mass(vs, T \ {x})
  <2>1. IsFiniteSet(D) /\ vs \in [D -> Nat]
    BY <1>2
  <2> QED
    BY <2>1, MassStep
<1> DEFINE upTo(i) == {j \in D : j <= i}
           exact(i) == Mass(vs, upTo(i))
           cdf(i) == IF exact(i) = total THEN total - lost ELSE exact(i)
           hits == {i \in D : sample <= cdf(i)}
<1>7. SampleToken(ls, vs, sample, lost) = IF hits = {} THEN Max(D) ELSE Min(hits)
  <2>1. DOMAIN vs = D
    BY <1>2
  <2>2. SampleToken(ls, vs, sample, lost) = Draw(vs, sample, lost)
    <3>1. Mass(vs, DOMAIN vs) = total /\ total # 0
      BY <1>3, <2>1
    <3> QED
      BY <3>1, Zenon DEF SampleToken
  <2>3. Draw(vs, sample, lost) = IF hits = {} THEN Max(D) ELSE Min(hits)
    BY <1>3, <2>1, Zenon DEF Draw
  <2> QED
    BY <2>2, <2>3, Zenon
<1>8. \A i : exact(i) \in Nat /\ upTo(i) \in SUBSET D
  BY <1>4
<1>9. CASE hits = {}
  <2>1. upTo(n) = D /\ n \in D
    BY <1>1
  <2>2. cdf(n) = total - lost
    BY <1>3, <2>1
  <2>3. ~(sample <= total - lost)
    BY <1>9, <2>1, <2>2
  <2> QED
    BY <1>3, <2>3
<1>10. CASE hits # {}
  <2>1. hits \in SUBSET Nat
    BY <1>1
  <2>2. PICK t \in hits : t = Min(hits) /\ \A y \in hits : t <= y
    <3> HIDE DEF hits
    <3> QED BY <1>10, <2>1, MinExists
  <2>3. CASE t \in R
    BY <1>7, <1>10, <2>2, <2>3
  <2>4. CASE t \notin R
    <3>1. t \in D /\ t \in upTo(t) /\ vs[t] = 0 /\ sample <= cdf(t)
      BY <1>1, <1>2, <2>4
    <3>2. exact(t) = Mass(vs, upTo(t) \ {t})
      <4>1. Mass(vs, upTo(t)) = vs[t] + Mass(vs, upTo(t) \ {t})
        BY <1>4, <1>8, <3>1
      <4>2. Mass(vs, upTo(t) \ {t}) \in Nat
        BY <1>4
      <4> QED
        BY <3>1, <4>1, <4>2
    <3>3. CASE t = 1
      <4>1. upTo(t) \ {t} = {}
        BY <1>1, <3>3
      <4>2. exact(t) = 0
        BY <1>4, <3>2, <4>1
      <4>3. cdf(t) = 0
        BY <1>3, <4>2
      <4> QED
        BY <3>1, <4>3
    <3>4. CASE t # 1
      <4>1. PICK s \in D : s = t - 1
        BY <1>1, <3>1, <3>4
      <4>2. upTo(t) \ {t} = upTo(s)
        BY <1>1, <3>1, <4>1
      <4>3. exact(t) = exact(s)
        BY <3>2, <4>2
      <4>4. cdf(s) = cdf(t)
        BY <4>3
      <4>5. s \in hits /\ ~(t <= s)
        BY <1>1, <3>1, <4>1, <4>4
      <4> QED
        BY <2>2, <4>5
    <3> QED
      BY <3>3, <3>4
  <2> QED
    BY <2>3, <2>4
<1> QED
  BY <1>9, <1>10

\* What sample_token returns, for any logits.
LEMMA SampledFromNucleus ==
    ASSUME NEW n \in Nat \ {0}, NEW ls \in [1 .. n -> Int], NEW seen,
           NEW sample \in Nat, NEW lost \in Nat
    PROVE  LET ws   == Softmax(Scaled(ls, seen))
               kept == Filtered(ls, seen)
           IN  /\ {i \in DOMAIN kept : kept[i] > 0} = Nucleus(ws)
               /\ \/ SampleToken(ls, kept, sample, lost) \in Nucleus(ws)
                  \/ sample = 0
                  \/ sample > Mass(ws, Nucleus(ws)) - lost
<1>1. PICK ws : ws = Softmax(Scaled(ls, seen))
  OBVIOUS
<1>2. PICK kept : kept = Filtered(ls, seen)
  OBVIOUS
<1>3. ws \in Weights(n) /\ \E top \in 1 .. n : ws[top] > 0
  BY <1>1, SoftmaxIs
<1>4. PICK R : R = Chosen(ws) /\ R = Nucleus(ws) /\ R # {}
  BY <1>3, NucleusIsChosen
<1>5. kept \in Weights(n) /\ \A i \in 1 .. n : kept[i] = IF i \in R THEN ws[i] ELSE 0
  <2>1. kept = KeepTopP(KeepTopK(ws), Mass(ws, DOMAIN ws))
    BY <1>1, <1>2, Zenon DEF Filtered
  <2> QED
    BY <1>3, <1>4, <2>1, FiltersChoose
<1>6. R \in SUBSET (1 .. n) /\ \A i \in R : ws[i] > 0
  BY <1>3, <1>4 DEF Chosen, Weights
<1>7. {i \in DOMAIN kept : kept[i] > 0} = R
  <2>1. DOMAIN kept = 1 .. n
    BY <1>5 DEF Weights
  <2>2. \A i \in 1 .. n : kept[i] > 0 <=> i \in R
    <3> SUFFICES ASSUME NEW i \in 1 .. n PROVE kept[i] > 0 <=> i \in R
      OBVIOUS
    <3>1. CASE i \in R
      BY <1>5, <1>6, <3>1
    <3>2. CASE i \notin R
      BY <1>5, <3>2
    <3> QED
      BY <3>1, <3>2
  <2> QED
    BY <1>6, <2>1, <2>2
<1>8. \/ SampleToken(ls, kept, sample, lost) \in R
      \/ sample = 0
      \/ sample > Mass(ws, R) - lost
  BY <1>3, <1>5, <1>4, <1>6, DrawnIsWeighted
<1> QED
  BY <1>1, <1>2, <1>4, <1>7, <1>8

-----------------------------------------------------------------------------
(* Sampling.                                                               *)

LEMMA LargestExists ==
    ASSUME NEW n \in Nat \ {0}, NEW ls \in [1 .. n -> Int]
    PROVE  Largest(ls) \in 1 .. n
<1> DEFINE best == {i \in DOMAIN ls : \A j \in DOMAIN ls : ls[j] <= ls[i]}
<1>1. best # {} /\ best \in SUBSET Nat /\ best \subseteq 1 .. n
  <2>1. PICK i \in 1 .. n : \A j \in 1 .. n : ls[j] <= ls[i]
    BY TopExists
  <2> QED
    BY <2>1
<1>2. Largest(ls) = Min(best)
  BY Zenon DEF Largest
<1> HIDE DEF best
<1> QED
  BY <1>1, <1>2, MinExists

LEMMA FilteredDomain ==
    ASSUME NEW ls, NEW seen
    PROVE  DOMAIN Filtered(ls, seen) = DOMAIN ls
<1>1. \A x : DOMAIN Softmax(x) = DOMAIN x
  BY Zenon DEF Softmax
<1>2. DOMAIN Scaled(ls, seen) = DOMAIN ls
  BY Zenon DEF Scaled
<1>3. \A ws, S : DOMAIN Keep(ws, S) = DOMAIN ws
  BY Zenon DEF Keep
<1>4. \A ws : DOMAIN KeepTopK(ws) = DOMAIN ws
  BY <1>3, Zenon DEF KeepTopK
<1>5. \A ws, total : DOMAIN KeepTopP(ws, total) = DOMAIN ws
  BY <1>3, Zenon DEF KeepTopP
<1> DEFINE ws == Softmax(Scaled(ls, seen))
<1>6. DOMAIN ws = DOMAIN ls
  BY <1>1, <1>2, Zenon
<1>7. Filtered(ls, seen) = KeepTopP(KeepTopK(ws), Mass(ws, DOMAIN ws))
  BY Zenon DEF Filtered
<1> HIDE DEF ws
<1> QED
  BY <1>4, <1>5, <1>6, <1>7, Zenon

\* sample_token returns a token of the vocabulary, whatever the logits, the
\* filters and the random number.
THEOREM TokenIsSampled ==
    \A ls \in LogitSets : \A seen, sample, lost :
        SampleToken(ls, Filtered(ls, seen), sample, lost) \in DOMAIN Ids
<1> SUFFICES ASSUME NEW ls \in LogitSets, NEW seen, NEW sample, NEW lost
             PROVE  SampleToken(ls, Filtered(ls, seen), sample, lost) \in DOMAIN Ids
  OBVIOUS
<1>1. PICK n \in Nat \ {0} : DOMAIN Ids = 1 .. n
  BY ProgramAssumption
<1>2. ls \in [1 .. n -> Int]
  BY <1>1, ProgramAssumption
<1>3. PICK ws : ws = Filtered(ls, seen) /\ DOMAIN ws = 1 .. n
  BY <1>2, FilteredDomain
<1>4. Largest(ls) \in 1 .. n
  BY <1>2, LargestExists
<1>5. \A S \in SUBSET (1 .. n) : S # {} => Min(S) \in S
  <2> SUFFICES ASSUME NEW S \in SUBSET (1 .. n), S # {} PROVE Min(S) \in S
    OBVIOUS
  <2>1. S \in SUBSET Nat
    OBVIOUS
  <2> QED
    BY <2>1, MinExists
<1>6. Max(1 .. n) \in 1 .. n
  <2>1. 1 .. n \in SUBSET (0 .. n) /\ 1 .. n # {} /\ n \in Nat
    OBVIOUS
  <2> QED
    BY <2>1, MaxExists
<1>7. Draw(ws, sample, lost) \in 1 .. n
  <2> DEFINE total == Mass(ws, DOMAIN ws)
             exact(i) == Mass(ws, {j \in DOMAIN ws : j <= i})
             cdf(i) == IF exact(i) = total THEN total - lost ELSE exact(i)
             hits == {i \in DOMAIN ws : sample <= cdf(i)}
  <2>1. Draw(ws, sample, lost) = IF hits = {} THEN Max(DOMAIN ws) ELSE Min(hits)
    BY Zenon DEF Draw
  <2>2. hits \in SUBSET (1 .. n)
    BY <1>3
  <2> HIDE DEF hits
  <2> QED
    BY <1>3, <1>5, <1>6, <2>1, <2>2
<1> QED
  BY <1>1, <1>3, <1>4, <1>7 DEF SampleToken

-----------------------------------------------------------------------------
(* The inductive invariants.                                               *)

\* What a request may be while it is worked on.
Work == [kind : {"none", "prompt", "echo", "logprobs", "completion"},
         prompt : Token, continuation : Token, start : Nat]

\* The texts are texts, and the tokens are tokens the model has.
DataInv ==
    /\ job \in JobType
    /\ request \in Work
    /\ out \in Seq({Ids[i] : i \in DOMAIN Ids})
    /\ ids \in Seq(AllTokens)
    /\ seqLen \in Nat

\* No token but the last is the end of the sequence.
NoEndIn(s, n) == \A k \in 1 .. n : s[k] # Eos

\* What the cache holds in each state of the loop, and why the next token still
\* has a place in it.
LoopInv ==
    /\ mpc = "sample" =>
          /\ seqLen = Len(ids) + Len(out)
          /\ Len(out) <= MaxTokens
          /\ out # << >> => seqLen <= MaxSeq
          /\ NoEndIn(out, Len(out))
    /\ mpc = "forward" =>
          /\ seqLen + 1 = Len(ids) + Len(out)
          /\ seqLen < MaxSeq
          /\ Len(out) <= MaxTokens
          /\ NoEndIn(out, Len(out))
    /\ mpc = "respond" =>
          /\ Len(out) <= MaxTokens
          /\ out # << >> => Len(ids) + Len(out) <= MaxSeq + 1
          /\ NoEndIn(out, Len(out) - 1)

Helped == "--help" \in {job.argv[i] : i \in DOMAIN job.argv}

Tasks == {"--server", "--prompt", "--export-gguf"}

\* The states of main by what has been settled in them.
Asking == {"args", "info", "load"}
Generating == {"prefill", "sample", "forward", "respond", "crashed"}
Serving == {"server", "listening", "hung", "reply"}
Working == Generating \cup Serving \cup {"export", "generate"}
Ended == {"leaving", "exit"}

\* What the options were found to ask for is what main is doing.
PlaceOfMain ==
    /\ mpc \in Asking \cup {"model"} \cup Working \cup Ended
    /\ argv \in Seq({job.argv[i] : i \in DOMAIN job.argv})
    /\ mpc \notin Ended => code = -1
    /\ mpc \notin {"args"} \cup Ended => argv = << >>
    /\ mpc = "info" => "--info" \in opts
    /\ mpc \in {"load", "model"} \cup Working => "--info" \notin opts /\ opts \cap Tasks # {}
    /\ mpc = "export" => "--export-gguf" \in opts
    /\ mpc \in Working \ {"export"} => "--export-gguf" \notin opts
    /\ mpc \in Serving => "--server" \in opts /\ request.kind # "prompt"
    /\ mpc = "generate" => "--server" \notin opts
    /\ mpc \in Generating => ("--server" \in opts <=> request.kind # "prompt")
    /\ mpc \in Asking \cup {"model", "export", "generate", "server"} => request = NoRequest

\* The model behind it, and the file that is written.
ModelBehind ==
    /\ ldpc \in {"f16", "int8", "finish", "ready", "freed"} => adapters = << >>
    /\ mpc \in {"model"} \cup Working => job.file # "bad"
    /\ mpc \in Working => ldpc = "ready" /\ job.file = "good"
    /\ mpc \in Asking => ldpc = "cache"
    /\ mpc # "exit" => ldpc # "freed"
    /\ mpc \in Asking \cup {"model"} => xpc = "idle"
    /\ mpc = "export" => xpc \in {"idle", "closed", "broken"} \cup Writing
    /\ mpc = "export" /\ xpc # "idle" => tensors = Plan
    /\ xpc \in {"written", "closed"} => Len(dataAt) = Len(tensors)

\* What exit code 0 stands for, for what follows main's return.
EndInv ==
    (mpc \in Ended /\ code = 0 /\ argv = << >> /\ ~Helped) =>
        IF "--info" \in opts THEN job.file # "bad"
        ELSE /\ ldpc = IF mpc = "exit" THEN "freed" ELSE "ready"
             /\ adapters = << >>
             /\ job.file = "good"
             /\ IF "--export-gguf" \in opts
                THEN Len(dataAt) = Len(Plan) /\ xpc \in {"closed", "refused"} \cup Reading
                ELSE IF "--server" \in opts THEN request = NoRequest
                ELSE "--prompt" \in opts /\ request.kind = "prompt"

-----------------------------------------------------------------------------
(* The data.                                                               *)

\* Encoding gives at least the token that begins every text, and a prompt that
\* is cut to the context keeps at least one token.
LEMMA EncodedPrompt ==
    ASSUME NEW t \in Token
    PROVE  /\ Encode(t) \in Seq(AllTokens) /\ Encode(t) # << >>
           /\ Truncated(Encode(t)) \in Seq(AllTokens) /\ Truncated(Encode(t)) # << >>
<1>1. PICK s \in Seq(AllTokens) : s = Encode(t)
  BY EncodeGivesIds
<1>2. s # << >>
  <2>1. PICK bos \in AllTokens : bos = Bos
    BY DEF AllTokens
  <2>2. PICK rest \in Seq(AllTokens) : rest = EncodeAll(t)
    <3>1. Vocab \cup Specials \subseteq AllTokens
      BY DEF AllTokens
    <3> QED
      BY <3>1, EncodeAllSpells, SeqMonotonic
  <2>3. PICK one \in Seq(AllTokens) : one = <<bos>> /\ Len(one) = 1
    <3>1. <<bos>> \in Seq(AllTokens) /\ Len(<<bos>>) = 1
      OBVIOUS
    <3> QED
      BY <3>1
  <2>4. s = one \o rest
    BY <1>1, <2>1, <2>2, <2>3, Zenon DEF Encode
  <2>5. Len(one \o rest) = 1 + Len(rest) /\ Len(rest) \in Nat
    BY <2>3, ConcatProperties
  <2>6. Len(s) # 0
    BY <2>4, <2>5
  <2> QED
    BY <2>6, EmptySeq
<1>3. Truncated(s) \in Seq(AllTokens) /\ Truncated(s) # << >>
  <2>1. CASE Len(s) > MaxCtx
    <3>1. PICK n \in Nat, m \in Nat \ {0} : n = Len(s) /\ m = MaxCtx /\ m < n
      BY <2>1, ScoringAssumption
    <3>2. Truncated(s) = SubSeq(s, n - m + 1, n)
      BY <3>1 DEF Truncated
    <3>3. \A i \in n - m + 1 .. n : s[i] \in AllTokens
      BY <3>1
    <3>4. SubSeq(s, n - m + 1, n) \in Seq(AllTokens) /\ Len(SubSeq(s, n - m + 1, n)) = m
      BY <3>1, <3>3, SubSeqProperties
    <3>5. Len(SubSeq(s, n - m + 1, n)) # 0
      BY <3>4
    <3> QED
      BY <3>2, <3>4, <3>5, EmptySeq
  <2>2. CASE ~(Len(s) > MaxCtx)
    BY <1>2, <2>2 DEF Truncated
  <2> QED
    BY <2>1, <2>2
<1> QED
  BY <1>1, <1>2, <1>3

\* What clients send are texts.
LEMMA RequestsAreWork ==
    ASSUME NEW r \in Requests
    PROVE  /\ r \in Work /\ r.prompt \in Token /\ r.continuation \in Token
           /\ r.prompt \o r.continuation \in Token
<1>1. r \in RequestType
  BY ProgramAssumption
<1>2. r.prompt \in Token /\ r.continuation \in Token
  BY <1>1 DEF RequestType, Token, Byte
<1> QED
  BY <1>1, <1>2 DEF RequestType, Work, Token, Byte

\* What the three handlers do to the prompt and to what is asked.
LEMMA ServeIs ==
    ASSUME Serve
    PROVE  \E r \in Requests :
              /\ request' = r
              /\ ids' = Truncated(Encode(r.prompt)) \/ ids' = Encode(r.prompt \o r.continuation)
              /\ mpc = "listening"
              /\ UNCHANGED <<job, argv, opts, code, out, pick, offloadVars, exportVars>>
              /\ \/ r.kind = "completion" /\ mpc' = "prefill" /\ UNCHANGED <<seqLen, answer>>
                 \/ /\ r.kind \in {"echo", "logprobs"} /\ mpc' \in {"reply", "crashed"}
                    /\ seqLen' = Len(ids')
  BY DEF Serve, Completion, Echo, Logprobs, Score

LEMMA DataInit == Init => DataInv
<1> SUFFICES ASSUME Init PROVE DataInv
  OBVIOUS
<1>1. job \in JobType
  BY ProgramAssumption DEF Init
<1>2. NoRequest \in Work
  <2>1. << >> \in Token
    BY DEF Token
  <2> QED
    BY <2>1 DEF NoRequest, Work
<1> QED
  BY <1>1, <1>2 DEF Init, DataInv

LEMMA DataStep ==
    ASSUME DataInv, [Next]_vars
    PROVE  DataInv'
<1>1. job' = job
  BY SameJob
<1>2. << >> \in Token /\ NoRequest \in Work
  <2>1. << >> \in Token
    BY DEF Token
  <2> QED
    BY <2>1 DEF NoRequest, Work
<1>3. CASE EncodePrompt
  <2>1. job.text \in Token
    BY DEF DataInv, JobType, Token, Byte
  <2>2. request' \in Work
    BY <1>2, <1>3, <2>1 DEF EncodePrompt, NoRequest, Work
  <2>3. ids' \in Seq(AllTokens)
    BY <1>3, <2>1, EncodeGivesIds DEF EncodePrompt
  <2> QED
    BY <1>1, <1>3, <2>2, <2>3 DEF EncodePrompt, DataInv
<1>4. CASE RunPrompt
  BY <1>1, <1>4 DEF RunPrompt, DataInv
<1>5. CASE SampleNext
  <2>1. PICK ls \in LogitSets : \E sample, lost :
           out' = Append(out, Ids[SampleToken(ls, Filtered(ls, Seen), sample, lost)])
    BY <1>5 DEF SampleNext, Emit
  <2>2. \A sample, lost : SampleToken(ls, Filtered(ls, Seen), sample, lost) \in DOMAIN Ids
    BY TokenIsSampled
  <2>3. out' \in Seq({Ids[i] : i \in DOMAIN Ids})
    BY <2>1, <2>2 DEF DataInv
  <2> QED
    BY <1>1, <1>5, <2>3 DEF SampleNext, DataInv
<1>6. CASE ForwardNext
  BY <1>1, <1>6 DEF ForwardNext, DataInv
<1>7. CASE Reply
  BY <1>1, <1>2, <1>7 DEF Reply, DataInv
<1>8. CASE Serve
  <2>1. PICK r \in Requests :
           /\ request' = r
           /\ ids' = Truncated(Encode(r.prompt)) \/ ids' = Encode(r.prompt \o r.continuation)
           /\ out' = out
           /\ seqLen' = seqLen \/ seqLen' = Len(ids')
    BY <1>8, ServeIs
  <2>2. ids' \in Seq(AllTokens) /\ request' \in Work
    BY <2>1, RequestsAreWork, EncodedPrompt
  <2> QED
    BY <1>1, <2>1, <2>2 DEF DataInv
<1>9. CASE UNCHANGED <<job, request, ids, out, seqLen>>
  BY <1>9 DEF DataInv
<1>10. CASE ~EncodePrompt /\ ~RunPrompt /\ ~SampleNext /\ ~ForwardNext /\ ~Reply /\ ~Serve
  <2>1. UNCHANGED <<job, request, ids, out, seqLen>>
    BY <1>10 DEF Next, vars, progVars, generation, ParseArg, CheckArgs, PrintInfo, OpenBase,
       LoadModel, ModelLoaded, Leave, RefuseExport, StartExport, WriteExport, ExportCut, ExportEnds,
       ReadExport, SampleWithoutLogits, EnoughTokens, Respond, ServerListens, NoSockets, ServerHangs
  <2> QED
    BY <1>9, <2>1
<1> QED
  BY <1>3, <1>4, <1>5, <1>6, <1>7, <1>8, <1>10

-----------------------------------------------------------------------------
(* Generation.                                                             *)

LEMMA LoopStep ==
    ASSUME DataInv, LoopInv, [Next]_vars
    PROVE  LoopInv'
<1>1. /\ Len(ids) \in Nat /\ Len(out) \in Nat /\ seqLen \in Nat /\ MaxSeq \in Nat \ {0} /\ MaxTokens \in Nat
      /\ out \in Seq({Ids[i] : i \in DOMAIN Ids})
  BY ProgramAssumption DEF DataInv
<1>2. CASE RunPrompt
  <2>1. /\ mpc' = "sample" /\ ids' = ids /\ out' = << >> /\ seqLen' = Len(ids) /\ Len(<< >>) = 0
    BY <1>2 DEF RunPrompt
  <2>2. seqLen' = Len(ids') + Len(out') /\ Len(out') <= MaxTokens
    BY <1>1, <2>1
  <2>3. NoEndIn(out', Len(out'))
    BY <2>1 DEF NoEndIn
  <2> QED
    BY <2>1, <2>2, <2>3 DEF LoopInv, NoEndIn
<1>3. CASE SampleNext
  <2>1. PICK x \in {Ids[i] : i \in DOMAIN Ids} :
           /\ out' = Append(out, x) /\ mpc' = IF x = Eos \/ seqLen >= MaxSeq THEN "respond" ELSE "forward"
           /\ ids' = ids /\ seqLen' = seqLen /\ mpc = "sample" /\ Len(out) < MaxTokens /\ Len(ids) <= MaxSeq
    <3>1. PICK ls \in LogitSets : \E sample, lost :
             Emit(SampleToken(ls, Filtered(ls, Seen), sample, lost))
      BY <1>3 DEF SampleNext
    <3>2. PICK i \in DOMAIN Ids : Emit(i)
      BY <3>1, TokenIsSampled
    <3> QED
      BY <1>3, <3>2 DEF SampleNext, Emit, Fits
  <2>2. PICK n \in Nat, p \in Nat :
           /\ n = Len(out) /\ p = Len(ids) /\ Len(out') = n + 1 /\ seqLen = p + n
           /\ out'[n + 1] = x /\ \A k \in 1 .. n : out'[k] = out[k]
    BY <1>1, <2>1 DEF LoopInv
  <2>3. NoEndIn(out, n)
    BY <2>1, <2>2 DEF LoopInv
  <2>4. n + 1 <= MaxTokens /\ p + n <= MaxSeq
    <3>1. CASE n = 0
      BY <1>1, <2>1, <2>2, <3>1
    <3>2. CASE n # 0
      <4>1. out # << >>
        BY <2>2, <3>2
      <4> QED
        BY <1>1, <2>1, <2>2, <4>1 DEF LoopInv
    <3> QED
      BY <3>1, <3>2
  <2>5. NoEndIn(out', n)
    BY <2>2, <2>3 DEF NoEndIn
  <2>6. CASE x = Eos \/ seqLen >= MaxSeq
    <3>1. mpc' = "respond" /\ n + 1 - 1 = n
      BY <2>1, <2>6
    <3>2. Len(ids') + Len(out') <= MaxSeq + 1 /\ Len(out') <= MaxTokens
      BY <1>1, <2>1, <2>2, <2>4
    <3>3. NoEndIn(out', Len(out') - 1)
      BY <2>2, <2>5, <3>1
    <3> QED
      BY <3>1, <3>2, <3>3 DEF LoopInv, NoEndIn
  <2>7. CASE ~(x = Eos \/ seqLen >= MaxSeq)
    <3>1. mpc' = "forward"
      BY <2>1, <2>7
    <3>2. seqLen' + 1 = Len(ids') + Len(out') /\ seqLen' < MaxSeq /\ Len(out') <= MaxTokens
      BY <1>1, <2>1, <2>2, <2>4, <2>7
    <3>3. NoEndIn(out', Len(out'))
      <4>1. \A k \in 1 .. n + 1 : k \in 1 .. n \/ k = n + 1
        OBVIOUS
      <4> QED
        BY <2>2, <2>5, <2>7, <4>1 DEF NoEndIn
    <3> QED
      BY <3>1, <3>2, <3>3 DEF LoopInv, NoEndIn
  <2> QED
    BY <2>6, <2>7
<1>4. CASE EnoughTokens
  <2>1. /\ mpc = "sample" /\ mpc' = "respond" /\ ids' = ids /\ out' = out /\ seqLen' = seqLen
    BY <1>4 DEF EnoughTokens, generation
  <2>2. PICK n \in Nat, p \in Nat : n = Len(out) /\ p = Len(ids) /\ seqLen = p + n
    BY <1>1, <2>1 DEF LoopInv
  <2>3. out # << >> => p + n <= MaxSeq + 1
    BY <1>1, <2>1, <2>2 DEF LoopInv
  <2>4. NoEndIn(out, n - 1) /\ n <= MaxTokens
    <3>1. \A k \in 1 .. n - 1 : k \in 1 .. n
      BY <2>2
    <3> QED
      BY <2>1, <2>2, <3>1 DEF LoopInv, NoEndIn
  <2> QED
    BY <2>1, <2>2, <2>3, <2>4 DEF LoopInv, NoEndIn
<1>5. CASE ForwardNext
  <2>1. /\ mpc = "forward" /\ mpc' = "sample" /\ ids' = ids /\ out' = out /\ seqLen' = seqLen + 1
    BY <1>5 DEF ForwardNext
  <2>2. seqLen' = Len(ids') + Len(out') /\ seqLen' <= MaxSeq /\ Len(out') <= MaxTokens
    BY <1>1, <2>1 DEF LoopInv
  <2>3. NoEndIn(out', Len(out'))
    BY <2>1 DEF LoopInv
  <2> QED
    BY <2>1, <2>2, <2>3 DEF LoopInv, NoEndIn
<1>6. CASE mpc' \notin {"sample", "forward", "respond"}
  BY <1>6 DEF LoopInv
<1>7. CASE UNCHANGED <<mpc, ids, out, seqLen>>
  BY <1>7 DEF LoopInv, NoEndIn
<1>8. CASE Serve
  <2>1. mpc' \in {"prefill", "reply", "crashed"}
    BY <1>8, ServeIs
  <2> QED
    BY <1>6, <2>1
<1>9. CASE ~RunPrompt /\ ~SampleNext /\ ~EnoughTokens /\ ~ForwardNext /\ ~Serve
  <2>1. mpc' \notin {"sample", "forward", "respond"} \/ UNCHANGED <<mpc, ids, out, seqLen>>
    BY <1>9 DEF Next, vars, progVars, generation, Return, ParseArg, CheckArgs, PrintInfo, OpenBase,
       LoadModel, ModelLoaded, Leave, RefuseExport, StartExport, WriteExport, ExportCut, ExportEnds,
       ReadExport, EncodePrompt, SampleWithoutLogits, Respond, Reply, ServerListens, NoSockets, ServerHangs
  <2> QED
    BY <1>6, <1>7, <2>1
<1> QED
  BY <1>2, <1>3, <1>4, <1>5, <1>8, <1>9

\* The cache is never asked for a position it does not have, and the end token
\* is the last one, for prompts of the command line and of clients alike.
THEOREM GenerationStopsHolds == Spec => []GenerationStops
<1>1. Init => LoopInv
  BY DEF Init, LoopInv
<1>2. DataInv /\ LoopInv => GenerationStops
  <2> SUFFICES ASSUME DataInv, LoopInv, mpc \in {"sample", "forward", "respond"}
               PROVE  /\ Len(out) <= MaxTokens
                      /\ mpc = "forward" => seqLen < MaxSeq
                      /\ out # << >> => Len(ids) + Len(out) <= MaxSeq + 1
                      /\ \A k \in DOMAIN out : out[k] = Eos => k = Len(out) /\ mpc # "forward"
    BY DEF GenerationStops
  <2>1. PICK n \in Nat, p \in Nat : n = Len(out) /\ p = Len(ids) /\ DOMAIN out = 1 .. n
    BY DEF DataInv
  <2>2. seqLen \in Nat /\ MaxSeq \in Nat
    BY ProgramAssumption DEF DataInv
  <2>3. CASE mpc = "sample"
    <3>1. \A k \in DOMAIN out : out[k] # Eos
      BY <2>1, <2>3 DEF LoopInv, NoEndIn
    <3> QED
      BY <2>1, <2>2, <2>3, <3>1 DEF LoopInv
  <2>4. CASE mpc = "forward"
    <3>1. \A k \in DOMAIN out : out[k] # Eos
      BY <2>1, <2>4 DEF LoopInv, NoEndIn
    <3>2. seqLen + 1 = p + n /\ seqLen < MaxSeq /\ n <= MaxTokens
      BY <2>1, <2>4 DEF LoopInv
    <3> QED
      BY <2>1, <2>2, <2>4, <3>1, <3>2
  <2>5. CASE mpc = "respond"
    <3>1. \A k \in DOMAIN out : out[k] = Eos => k = n
      <4>1. \A k \in 1 .. n : k \in 1 .. n - 1 \/ k = n
        BY <2>1
      <4> QED
        BY <2>1, <2>5, <4>1 DEF LoopInv, NoEndIn
    <3> QED
      BY <2>1, <2>5, <3>1 DEF LoopInv
  <2> QED
    BY <2>3, <2>4, <2>5
<1> QED
  BY <1>1, <1>2, DataInit, DataStep, LoopStep, PTL DEF Spec

-----------------------------------------------------------------------------
(* Sampling, in the program.                                               *)

\* What is remembered of the last call of sample_token is one.
PickInv ==
    pick # NoPick =>
        /\ pick.logits \in LogitSets
        /\ pick.sample \in Nat /\ pick.lost \in Nat
        /\ pick.token = SampleToken(pick.logits, Filtered(pick.logits, pick.seen),
                                    pick.sample, pick.lost)

LEMMA PickStep ==
    ASSUME PickInv, [Next]_vars
    PROVE  PickInv'
<1>1. CASE pick' = pick
  BY <1>1 DEF PickInv
<1>2. CASE pick' = NoPick
  BY <1>2 DEF PickInv
<1>3. CASE SampleNext
  <2>1. PICK ls \in LogitSets :
           \E sample \in 0 .. Mass(Filtered(ls, Seen), DOMAIN Filtered(ls, Seen)), lost \in 0 .. 1 :
              pick' = [logits |-> ls, seen |-> Seen, sample |-> sample, lost |-> lost,
                       token |-> SampleToken(ls, Filtered(ls, Seen), sample, lost)]
    BY <1>3, Zenon DEF SampleNext
  <2>2. PICK sample \in Nat, lost \in Nat :
           pick' = [logits |-> ls, seen |-> Seen, sample |-> sample, lost |-> lost,
                    token |-> SampleToken(ls, Filtered(ls, Seen), sample, lost)]
    BY <2>1
  <2>3. /\ pick'.logits = ls /\ pick'.seen = Seen /\ pick'.sample = sample /\ pick'.lost = lost
        /\ pick'.token = SampleToken(ls, Filtered(ls, Seen), sample, lost)
    BY <2>2
  <2> QED
    BY <2>3, Zenon DEF PickInv
<1>4. CASE ~SampleNext
  <2>1. pick' = pick \/ pick' = NoPick
    BY <1>4 DEF Next, vars, progVars, generation, ParseArg, CheckArgs, PrintInfo, OpenBase,
       LoadModel, ModelLoaded, Leave, RefuseExport, StartExport, WriteExport, ExportCut, ExportEnds,
       ReadExport, EncodePrompt, RunPrompt, SampleWithoutLogits, EnoughTokens, ForwardNext, Respond,
       Serve, Completion, Echo, Logprobs, Score, Reply, ServerListens, NoSockets, ServerHangs
  <2> QED
    BY <1>1, <1>2, <2>1
<1> QED
  BY <1>3, <1>4

\* The tokens that the two filters keep, one after the other and with a total
\* that the second does not take again, are the nucleus of the distribution,
\* and the token that is drawn is one of them, unless the random number was 0
\* or lies above the rounded sum of the probabilities.
THEOREM DrawnFromNucleusHolds == Spec => []DrawnFromNucleus
<1>1. Init => PickInv
  BY DEF Init, PickInv
<1>2. PickInv => DrawnFromNucleus
  <2> SUFFICES ASSUME PickInv, pick # NoPick PROVE DrawnFromNucleus
    BY DEF DrawnFromNucleus
  <2>1. PICK n \in Nat \ {0} : DOMAIN Ids = 1 .. n
    BY ProgramAssumption
  <2>2. PICK ls \in [1 .. n -> Int], sample \in Nat, lost \in Nat :
           ls = pick.logits /\ sample = pick.sample /\ lost = pick.lost
    BY <2>1, ProgramAssumption DEF PickInv
  <2>3. PICK seen : seen = pick.seen
    OBVIOUS
  <2>4. PICK ws : ws = Softmax(Scaled(ls, seen))
    OBVIOUS
  <2>5. PICK kept : kept = Filtered(ls, seen)
    OBVIOUS
  <2>6. pick.token = SampleToken(ls, kept, sample, lost)
    BY <2>2, <2>3, <2>5 DEF PickInv
  <2>7. /\ {i \in DOMAIN kept : kept[i] > 0} = Nucleus(ws)
        /\ \/ pick.token \in Nucleus(ws)
           \/ sample = 0
           \/ sample > Mass(ws, Nucleus(ws)) - lost
    BY <2>4, <2>5, <2>6, SampledFromNucleus
  <2> QED
    BY <2>2, <2>3, <2>4, <2>5, <2>7, Zenon DEF DrawnFromNucleus
<1> QED
  BY <1>1, <1>2, PickStep, PTL DEF Spec

-----------------------------------------------------------------------------
(* Texts.                                                                  *)

\* The texts of a state are texts.
LEMMA TextsAreTexts ==
    ASSUME DataInv
    PROVE  Texts \subseteq Token
<1>1. job.text \in Token
  BY DEF DataInv, JobType, Token, Byte
<1>2. request.prompt \in Token /\ request.continuation \in Token
  BY DEF DataInv, Work
<1>3. request.prompt \o request.continuation \in Token
  BY <1>2 DEF Token
<1> QED
  BY <1>1, <1>2, <1>3 DEF Texts

LEMMA DataInductive == Spec => []DataInv
  BY DataInit, DataStep, PTL DEF Spec

\* Splitting, merging and looking up lose and invent nothing.
THEOREM TokensSpellTextHolds == Spec => []TokensSpellText
<1>1. DataInv => TokensSpellText
  BY TextsAreTexts, TextsComeBack DEF TokensSpellText
<1> QED
  BY <1>1, DataInductive, PTL

\* The split into pieces keeps words, numbers and the rest apart.
THEOREM SplitKeepsWordsHolds == Spec => []SplitKeepsWords
<1>1. DataInv => SplitKeepsWords
  BY TextsAreTexts, SplitsWell DEF SplitKeepsWords
<1> QED
  BY <1>1, DataInductive, PTL

\* /v1/logprobs scores the continuation when the tokenizer ends a piece where
\* the prompt ends, for texts whose bytes have tokens.
THEOREM CleanContinuationScoredHolds ==
    Spec => [](Spellable(request.prompt \o request.continuation) => CleanContinuationScored)
<1>1. DataInv => (Spellable(request.prompt \o request.continuation) => CleanContinuationScored)
  <2> SUFFICES ASSUME DataInv, Spellable(request.prompt \o request.continuation)
               PROVE  CleanContinuationScored
    OBVIOUS
  <2>1. PICK p \in Token, c \in Token : p = request.prompt /\ c = request.continuation
    BY DEF DataInv, Work
  <2>2. CleanSplit(p, c) => SpellsContinuation(p, c)
    BY <2>1, ContinuationIsSpelled
  <2> QED
    BY <2>1, <2>2 DEF CleanContinuationScored
<1> QED
  BY <1>1, DataInductive, PTL

\* A merge reads the base it is given.
THEOREM MergeReadsBaseHolds == Spec => []MergeReadsBase
<1>1. DataInv => MergeReadsBase
  <2> SUFFICES ASSUME DataInv PROVE MergeReadsBase
    OBVIOUS
  <2>1. PICK n \in Nat : n = Len(job.weights) /\ \A i \in 1 .. n : job.weights[i] \in Int
    <3>1. PICK ws \in Seq(-1 .. 1) : ws = job.weights
      BY DEF DataInv, JobType
    <3>2. \A i \in 1 .. Len(ws) : ws[i] \in -1 .. 1
      OBVIOUS
    <3>3. \A x \in -1 .. 1 : x \in Int
      OBVIOUS
    <3> QED
      BY <3>1, <3>2, <3>3
  <2>2. [i \in 0 .. n - 1 |-> job.weights[i + 1]] \in [0 .. n - 1 -> Int]
    <3>1. \A i \in 0 .. n - 1 : i + 1 \in 1 .. n
      OBVIOUS
    <3> QED
      BY <2>1, <3>1
  <2>3. SignsComeBack([i \in 0 .. n - 1 |-> job.weights[i + 1]], n)
    BY <2>1, <2>2, SignsReturn
  <2> QED
    BY <2>1, <2>3, Zenon DEF MergeReadsBase
<1> QED
  BY <1>1, DataInductive, PTL

-----------------------------------------------------------------------------
(* main.                                                                   *)

\* The steps of main that look at neither the command line nor the model: the
\* options, the arguments, the exit code and the model stay as they are.
InService ==
    EncodePrompt \/ RunPrompt \/ SampleNext \/ SampleWithoutLogits \/ EnoughTokens \/ ForwardNext
        \/ Serve \/ Reply

LEMMA ServiceIs ==
    ASSUME InService
    PROVE  /\ UNCHANGED <<job, argv, opts, code, offloadVars, exportVars>>
           /\ mpc \in Working \ {"export"} /\ mpc' \in Working \ {"export"}
           /\ \/ mpc = "generate" /\ mpc' = "prefill" /\ request'.kind = "prompt"
              \/ mpc \in Generating /\ mpc' \in Generating /\ request' = request
              \/ mpc = "listening" /\ mpc' \in Generating \cup {"reply"}
                    /\ request'.kind \in {"echo", "logprobs", "completion"}
              \/ mpc = "reply" /\ mpc' = "listening" /\ request' = NoRequest
<1>1. CASE Serve
  BY <1>1, ServeIs DEF Working, Serving, Generating
<1>2. CASE EncodePrompt \/ Reply
  BY <1>2 DEF EncodePrompt, Reply, NoRequest, Working, Serving, Generating
<1>3. CASE RunPrompt \/ SampleNext \/ SampleWithoutLogits \/ EnoughTokens \/ ForwardNext
  BY <1>3 DEF RunPrompt, SampleNext, Emit, SampleWithoutLogits, EnoughTokens, ForwardNext,
     generation, Working, Serving, Generating
<1> QED
  BY <1>1, <1>2, <1>3 DEF InService

LEMMA PlaceStep ==
    ASSUME PlaceOfMain, [Next]_vars
    PROVE  PlaceOfMain'
<1> DEFINE Args == {job.argv[i] : i \in DOMAIN job.argv}
<1>1. Args' = Args
  BY SameJob
<1>2. ASSUME argv' = argv PROVE argv' \in Seq(Args')
  BY <1>1, <1>2 DEF PlaceOfMain
<1> HIDE DEF Args
<1>3. CASE ParseArg
  <2>1. /\ mpc = "args" /\ argv # << >> /\ argv' = Tail(argv)
        /\ \/ mpc' = "leaving"
           \/ mpc' = mpc /\ code' = code
        /\ request' = request
    BY <1>3 DEF ParseArg, Return, generation
  <2>2. argv' \in Seq(Args')
    <3>1. argv \in Seq(Args)
      BY DEF PlaceOfMain, Args
    <3> QED
      BY <1>1, <2>1, <3>1, HeadTailProperties
  <2> QED
    BY <2>1, <2>2 DEF PlaceOfMain, Args, Asking, Working, Serving, Generating, Ended
<1>4. CASE CheckArgs
  <2>1. /\ mpc = "args" /\ argv = << >> /\ argv' = argv /\ opts' = opts /\ request' = request
        /\ \/ mpc' = "leaving"
           \/ mpc' = "info" /\ "--info" \in opts /\ code' = code
           \/ mpc' = "load" /\ "--info" \notin opts /\ opts \cap Tasks # {} /\ code' = code
    BY <1>4 DEF CheckArgs, Return, generation, Tasks
  <2> QED
    BY <1>2, <2>1 DEF PlaceOfMain, Args, Asking, Working, Serving, Generating, Ended
<1>5. CASE PrintInfo \/ OpenBase
  <2>1. /\ mpc \in {"info", "load"} /\ UNCHANGED <<argv, opts, request>>
        /\ mpc' = "leaving" \/ (mpc = "load" /\ mpc' = "model" /\ code' = code)
    BY <1>5 DEF PrintInfo, OpenBase, Return, generation
  <2> QED
    BY <1>2, <2>1 DEF PlaceOfMain, Args, Asking, Working, Serving, Generating, Ended
<1>6. CASE ModelLoaded
  <2>1. /\ mpc = "model" /\ UNCHANGED <<argv, opts, request>>
        /\ \/ mpc' = "leaving"
           \/ mpc' = "export" /\ "--export-gguf" \in opts /\ code' = code
           \/ mpc' = "server" /\ "--export-gguf" \notin opts /\ "--server" \in opts /\ code' = code
           \/ mpc' = "generate" /\ "--export-gguf" \notin opts /\ "--server" \notin opts /\ code' = code
    BY <1>6 DEF ModelLoaded, Return, generation
  <2> QED
    BY <1>2, <2>1 DEF PlaceOfMain, Args, Asking, Working, Serving, Generating, Ended, NoRequest
<1>7. CASE RefuseExport \/ ExportEnds \/ NoSockets \/ Leave
  <2>1. mpc' \in Ended /\ UNCHANGED argv
    BY <1>7 DEF RefuseExport, ExportEnds, NoSockets, Leave, Return, generation, Ended
  <2> QED
    BY <1>2, <2>1 DEF PlaceOfMain, Args, Asking, Working, Serving, Generating, Ended
<1>8. CASE Respond
  <2>1. /\ mpc = "respond" /\ UNCHANGED <<argv, opts, request>>
        /\ mpc' = "leaving" \/ (mpc' = "reply" /\ code' = code /\ request.kind # "prompt")
    BY <1>8 DEF Respond, Return
  <2> QED
    BY <1>2, <2>1 DEF PlaceOfMain, Args, Asking, Working, Serving, Generating, Ended
<1>9. CASE InService
  <2>1. UNCHANGED <<argv, opts, code>>
    BY <1>9, ServiceIs
  <2>2. CASE mpc = "generate" /\ mpc' = "prefill" /\ request'.kind = "prompt"
    BY <1>2, <2>1, <2>2 DEF PlaceOfMain, Args, Asking, Working, Serving, Generating, Ended
  <2>3. CASE mpc \in Generating /\ mpc' \in Generating /\ request' = request
    BY <1>2, <2>1, <2>3 DEF PlaceOfMain, Args, Asking, Working, Serving, Generating, Ended
  <2>4. CASE mpc = "listening" /\ mpc' \in Generating \cup {"reply"}
                /\ request'.kind \in {"echo", "logprobs", "completion"}
    BY <1>2, <2>1, <2>4 DEF PlaceOfMain, Args, Asking, Working, Serving, Generating, Ended
  <2>5. CASE mpc = "reply" /\ mpc' = "listening" /\ request' = NoRequest
    BY <1>2, <2>1, <2>5 DEF PlaceOfMain, Args, Asking, Working, Serving, Generating, Ended, NoRequest
  <2> QED
    BY <1>9, <2>2, <2>3, <2>4, <2>5, ServiceIs
<1>10. CASE UNCHANGED progVars
  BY <1>2, <1>10 DEF PlaceOfMain, Args, progVars
<1>12. CASE ServerListens \/ ServerHangs
  <2>1. /\ mpc = "server" /\ mpc' \in {"listening", "hung"}
        /\ UNCHANGED <<argv, opts, code, request>>
    BY <1>12 DEF ServerListens, ServerHangs, generation
  <2> QED
    BY <1>2, <2>1 DEF PlaceOfMain, Args, Asking, Working, Serving, Generating, Ended, NoRequest
<1>11. CASE LoadModel \/ StartExport \/ WriteExport \/ ExportCut \/ ReadExport
  BY <1>10, <1>11 DEF LoadModel, StartExport, WriteExport, ExportCut, ReadExport
<1> QED
  BY <1>3, <1>4, <1>5, <1>6, <1>7, <1>8, <1>9, <1>10, <1>11, <1>12, Zenon
     DEF Next, vars, InService

LEMMA PlanFrame ==
    ASSUME job' = job, types' = types
    PROVE  Plan' = Plan
  BY DEF Plan, TensorOf

\* What the steps of the writer and of the reader do to the list of places.
LEMMA WriterIs ==
    ASSUME ExportInv, WriteExport \/ ExportCut
    PROVE  /\ mpc = "export" /\ tensors' = tensors /\ UNCHANGED <<progVars, offloadVars>>
           /\ xpc' \in {"closed", "broken"} \cup Writing /\ xpc # "idle"
           /\ xpc' \in {"written", "closed"} => Len(dataAt') = Len(tensors')
                  \/ (xpc \in {"written", "closed"} /\ dataAt' = dataAt)
<1>1. CASE WriteExport
  <2>1. CASE WriteKeys \/ WriteTable
    BY <1>1, <2>1 DEF WriteExport, WriteKeys, WriteTable, Writing
  <2>2. CASE WriteData
    <3>1. /\ dataAt' = Append(dataAt, pos) /\ tensors' = tensors /\ xpc = "data"
          /\ xpc' = IF Len(dataAt) + 1 = Len(tensors) THEN "written" ELSE "data"
      BY <2>2 DEF WriteData
    <3>2. Len(dataAt') = Len(dataAt) + 1
      BY <3>1 DEF ExportInv, ExportTypeInv
    <3> QED
      BY <1>1, <3>1, <3>2 DEF WriteExport, Writing
  <2> QED
    BY <1>1, <2>1, <2>2 DEF WriteExport
<1>2. CASE ExportCut
  BY <1>2 DEF ExportCut, ExportThrows, CloseExport, Writing
<1> QED
  BY <1>1, <1>2

LEMMA ReaderIs ==
    ASSUME ReadExport
    PROVE  /\ mpc = "exit" /\ UNCHANGED <<progVars, offloadVars, tensors, dataAt>>
           /\ xpc' \in {"refused"} \cup Reading
           /\ xpc \in {"closed", "broken"} \cup Reading
  BY DEF ReadExport, ReaderStep, OpenFile, ReadKey, EndKeys, ReadInfo, EndTable, LoadTensors,
     writerVars, Reading

LEMMA ModelStep ==
    ASSUME DataInv, PlaceOfMain, ModelBehind, ExportInv, [Next]_vars
    PROVE  ModelBehind'
<1>1. job' = job
  BY SameJob
<1>2. CASE ParseArg \/ CheckArgs \/ PrintInfo \/ OpenBase \/ ModelLoaded
  <2>1. UNCHANGED <<offloadVars, exportVars>>
    BY <1>2 DEF ParseArg, CheckArgs, PrintInfo, OpenBase, ModelLoaded
  <2>2. /\ ldpc' = ldpc /\ adapters' = adapters /\ xpc' = xpc /\ dataAt' = dataAt
        /\ tensors' = tensors /\ types' = types
    BY <2>1 DEF offloadVars, exportVars
  <2>3. CASE ModelLoaded
    <3>1. /\ mpc = "model"
          /\ \/ mpc' = "leaving"
             \/ /\ mpc' \in {"export", "server", "generate"} /\ ldpc = "ready"
                /\ job.file # "no tokenizer"
      BY <2>3 DEF ModelLoaded, Return
    <3>2. job.file \in {"good", "bad", "no tokenizer"}
      BY DEF DataInv, JobType
    <3> QED
      BY <1>1, <2>2, <3>1, <3>2 DEF ModelBehind, Asking, Working, Serving, Generating, Writing
  <2>4. CASE ParseArg \/ CheckArgs \/ PrintInfo \/ OpenBase
    <3>1. /\ mpc \in Asking /\ mpc' \in Asking \cup {"leaving", "model"}
          /\ mpc' = "model" => job.file # "bad"
      BY <2>4 DEF ParseArg, CheckArgs, PrintInfo, OpenBase, Return, Asking
    <3> QED
      BY <1>1, <2>2, <3>1 DEF ModelBehind, Asking, Working, Serving, Generating, Writing
  <2> QED
    BY <1>2, <2>3, <2>4
<1>3. CASE LoadModel
  <2>1. mpc = "model" /\ mpc' = mpc /\ UNCHANGED exportVars
    BY <1>3 DEF LoadModel, progVars
  <2>2. xpc' = xpc /\ dataAt' = dataAt /\ tensors' = tensors
    BY <2>1 DEF exportVars
  <2>3. ldpc' # "freed" /\ (ldpc' \in {"f16", "int8", "finish", "ready"} => adapters' = << >>)
    BY <1>3 DEF LoadModel, ModelBehind, CacheHit, CacheMiss, MergeAdapter, FileMissing, UseCpu, NoVram, PlanSplit,
       OffloadRaw, EndRaw, OffloadInt8, EndInt8, Finish, CudaThrows
  <2> QED
    BY <1>1, <2>1, <2>2, <2>3 DEF ModelBehind, Asking, Working, Serving, Generating, Writing
<1>4. CASE Leave
  <2>1. mpc' = "exit" /\ mpc = "leaving" /\ UNCHANGED exportVars /\ adapters' = adapters
        /\ ldpc' = IF ldpc = "ready" THEN "freed" ELSE ldpc
    BY <1>4 DEF Leave, DestroyModel, offloadVars
  <2>2. xpc' = xpc /\ dataAt' = dataAt /\ tensors' = tensors
    BY <2>1 DEF exportVars
  <2> QED
    BY <1>1, <2>1, <2>2 DEF ModelBehind, Asking, Working, Serving, Generating, Writing
<1>5. CASE StartExport
  <2>1. /\ mpc = "export" /\ mpc' = mpc /\ tensors' = Plan /\ xpc' = "keys" /\ Plan' = Plan
        /\ ldpc' = ldpc /\ adapters' = adapters
    BY <1>1, <1>5, PlanFrame DEF StartExport, BeginExport, progVars, offloadVars
  <2> QED
    BY <1>1, <2>1 DEF ModelBehind, Asking, Working, Serving, Generating, Writing
<1>6. CASE WriteExport \/ ExportCut
  <2>1. /\ mpc = "export" /\ mpc' = mpc /\ tensors' = tensors /\ Plan' = Plan
        /\ ldpc' = ldpc /\ adapters' = adapters
        /\ xpc' \in {"closed", "broken"} \cup Writing /\ xpc # "idle"
        /\ xpc' \in {"written", "closed"} => Len(dataAt') = Len(tensors')
               \/ (xpc \in {"written", "closed"} /\ dataAt' = dataAt)
    BY <1>1, <1>6, WriterIs, PlanFrame DEF progVars, offloadVars
  <2>2. xpc' \in {"written", "closed"} => Len(dataAt') = Len(tensors')
    BY <2>1 DEF ModelBehind
  <2> QED
    BY <1>1, <2>1, <2>2 DEF ModelBehind, Asking, Working, Serving, Generating, Writing
<1>7. CASE ReadExport
  <2>1. /\ mpc = "exit" /\ mpc' = mpc /\ xpc' \in {"refused"} \cup Reading
        /\ ldpc' = ldpc /\ adapters' = adapters
    BY <1>7, ReaderIs DEF progVars, offloadVars
  <2> QED
    BY <1>1, <2>1 DEF ModelBehind, Asking, Working, Serving, Generating, Writing, Reading
<1>8. CASE InService \/ Respond \/ RefuseExport \/ ExportEnds \/ ServerStarts
  <2>1. /\ UNCHANGED <<offloadVars, exportVars>> /\ mpc \in Working
        /\ mpc' \in (Working \ {"export"}) \cup {"leaving"}
    <3>1. CASE InService
      BY <3>1, ServiceIs
    <3>2. CASE Respond \/ RefuseExport \/ ExportEnds \/ ServerStarts
      BY <3>2 DEF Respond, RefuseExport, ExportEnds, ServerStarts, ServerListens, NoSockets,
         ServerHangs, Return, Working, Serving, Generating
    <3> QED
      BY <1>8, <3>1, <3>2
  <2>2. /\ ldpc' = ldpc /\ adapters' = adapters /\ xpc' = xpc /\ dataAt' = dataAt
        /\ tensors' = tensors
    BY <2>1 DEF offloadVars, exportVars
  <2> QED
    BY <1>1, <2>1, <2>2 DEF ModelBehind, Asking, Working, Serving, Generating, Writing
<1>9. CASE UNCHANGED vars
  <2>1. /\ ldpc' = ldpc /\ adapters' = adapters /\ xpc' = xpc /\ dataAt' = dataAt
        /\ tensors' = tensors /\ types' = types /\ mpc' = mpc
    BY <1>9 DEF vars, offloadVars, exportVars, progVars
  <2> QED
    BY <1>1, <2>1, PlanFrame DEF ModelBehind
<1> QED
  BY <1>2, <1>3, <1>4, <1>5, <1>6, <1>7, <1>8, <1>9, Zenon DEF Next, InService, ServerStarts

\* The options, the job and the model behind main's exit code.
LEMMA EndStep ==
    ASSUME DataInv, PlaceOfMain, ModelBehind, EndInv, [Next]_vars
    PROVE  EndInv'
<1>1. job' = job /\ (Helped' <=> Helped)
  BY SameJob DEF Helped
<1>2. CASE mpc' \notin Ended
  BY <1>2 DEF EndInv
<1>3. CASE code' # 0
  BY <1>3 DEF EndInv
<1>4. CASE ParseArg
  <2>1. CASE Head(argv) = "--help"
    <3>1. argv \in Seq({job.argv[i] : i \in DOMAIN job.argv}) /\ argv # << >>
      BY <1>4 DEF PlaceOfMain, ParseArg
    <3>2. Head(argv) \in {job.argv[i] : i \in DOMAIN job.argv}
      BY <3>1, HeadTailProperties
    <3>3. Helped
      BY <2>1, <3>2 DEF Helped
    <3> QED
      BY <1>1, <3>3 DEF EndInv
  <2>2. CASE Head(argv) # "--help"
    <3>1. (mpc' = mpc /\ mpc = "args") \/ code' = 1
      BY <1>4, <2>2 DEF ParseArg, Return
    <3> QED
      BY <1>2, <1>3, <3>1 DEF Ended
  <2> QED
    BY <2>1, <2>2
<1>5. CASE CheckArgs \/ OpenBase \/ ModelLoaded \/ RefuseExport
  <2>1. mpc' \notin Ended \/ code' = 1
    BY <1>5 DEF CheckArgs, OpenBase, ModelLoaded, RefuseExport, Return, Ended
  <2> QED
    BY <1>2, <1>3, <2>1
<1>6. CASE PrintInfo
  <2>1. opts' = opts /\ "--info" \in opts /\ (code' = 0 => job.file # "bad")
    BY <1>6 DEF PrintInfo, Return, PlaceOfMain
  <2> QED
    BY <1>1, <2>1 DEF EndInv
<1>7. CASE ExportEnds
  <2>1. /\ mpc = "export" /\ mpc' = "leaving" /\ xpc \in {"closed", "broken"}
        /\ code' = 0 => xpc = "closed"
        /\ UNCHANGED <<opts, offloadVars, exportVars>>
    BY <1>7 DEF ExportEnds, Return
  <2>2. /\ ldpc' = ldpc /\ adapters' = adapters /\ xpc' = xpc /\ dataAt' = dataAt /\ types' = types
    BY <2>1 DEF offloadVars, exportVars
  <2>3. Plan' = Plan
    BY <1>1, <2>2, PlanFrame
  <2>4. /\ "--info" \notin opts /\ "--export-gguf" \in opts
        /\ ldpc = "ready" /\ adapters = << >> /\ job.file = "good"
        /\ tensors = Plan /\ (xpc = "closed" => Len(dataAt) = Len(tensors))
    BY <2>1 DEF PlaceOfMain, ModelBehind, Working
  <2> QED
    BY <1>1, <2>1, <2>2, <2>3, <2>4 DEF EndInv
<1>8. CASE NoSockets \/ (Respond /\ request.kind = "prompt")
  <2>1. /\ mpc \in {"server", "respond"} /\ mpc' = "leaving"
        /\ mpc = "respond" => request.kind = "prompt"
        /\ UNCHANGED <<opts, request, offloadVars, exportVars>>
    BY <1>8 DEF NoSockets, Respond, Return, generation
  <2>2. /\ ldpc' = ldpc /\ adapters' = adapters
    BY <2>1 DEF offloadVars
  <2>3. /\ "--info" \notin opts /\ "--export-gguf" \notin opts /\ opts \cap Tasks # {}
        /\ ldpc = "ready" /\ adapters = << >> /\ job.file = "good"
    BY <2>1 DEF PlaceOfMain, ModelBehind, Working, Serving, Generating
  <2>4. IF "--server" \in opts THEN request = NoRequest ELSE request.kind = "prompt"
    BY <2>1 DEF PlaceOfMain, Serving, Generating
  <2>5. "--server" \in opts \/ "--prompt" \in opts
    BY <2>3 DEF Tasks
  <2> QED
    BY <1>1, <2>1, <2>2, <2>3, <2>4, <2>5 DEF EndInv
<1>9. CASE Respond /\ request.kind # "prompt"
  BY <1>2, <1>9 DEF Respond, Ended
<1>10. CASE Leave
  <2>1. /\ mpc = "leaving" /\ mpc' = "exit" /\ UNCHANGED <<opts, code, argv, request, exportVars>>
        /\ ldpc' = IF ldpc = "ready" THEN "freed" ELSE ldpc
        /\ adapters' = adapters /\ types' = types
    BY <1>10 DEF Leave, DestroyModel, offloadVars, generation
  <2>2. xpc' = xpc /\ dataAt' = dataAt /\ Plan' = Plan
    BY <1>1, <2>1, PlanFrame DEF exportVars
  <2> QED
    BY <1>1, <2>1, <2>2 DEF EndInv, Ended
<1>11. CASE ReadExport
  <2>1. /\ mpc = "exit" /\ UNCHANGED <<progVars, offloadVars, dataAt>>
        /\ xpc' \in {"refused"} \cup Reading
    BY <1>11, ReaderIs
  <2>2. /\ mpc' = mpc /\ opts' = opts /\ code' = code /\ argv' = argv /\ request' = request
        /\ ldpc' = ldpc /\ adapters' = adapters /\ types' = types
    BY <2>1 DEF progVars, offloadVars
  <2>3. Plan' = Plan
    BY <1>1, <2>2, PlanFrame
  <2> QED
    BY <1>1, <2>1, <2>2, <2>3 DEF EndInv, Ended
<1>12. CASE LoadModel \/ StartExport \/ WriteExport \/ ExportCut
  <2>1. mpc' = mpc /\ mpc \in {"model", "export"}
    BY <1>12 DEF LoadModel, StartExport, WriteExport, ExportCut, progVars
  <2> QED
    BY <1>2, <2>1 DEF Ended
<1>15. CASE ServerListens \/ ServerHangs
  BY <1>2, <1>15 DEF ServerListens, ServerHangs, Ended
<1>13. CASE InService
  BY <1>2, <1>13, ServiceIs DEF Ended, Working, Serving, Generating
<1>14. CASE UNCHANGED vars
  <2>1. /\ mpc' = mpc /\ opts' = opts /\ code' = code /\ argv' = argv /\ request' = request
        /\ ldpc' = ldpc /\ adapters' = adapters /\ types' = types /\ xpc' = xpc /\ dataAt' = dataAt
    BY <1>14 DEF vars, progVars, offloadVars, exportVars
  <2> QED
    BY <1>1, <2>1, PlanFrame DEF EndInv
<1> QED
  BY <1>4, <1>5, <1>6, <1>7, <1>8, <1>9, <1>10, <1>11, <1>12, <1>13, <1>14, <1>15, Zenon
     DEF Next, InService

-----------------------------------------------------------------------------
(* The adapters that are merged.                                           *)

\* What the adapters of a list cover.
Covered(l) == UNION {l[i] : i \in DOMAIN l}

\* A model that was not taken from the cache has what has been merged and what
\* remains to be merged of the adapters the user named.
MergeBehind == ~cached => merged \cup Covered(adapters) = Covered(job.loras)

LEMMA CoveredTail ==
    ASSUME NEW S, NEW l \in Seq(S), l # << >>
    PROVE  Covered(l) = Head(l) \cup Covered(Tail(l))
<1>1. PICK n \in Nat \ {0} : n = Len(l) /\ DOMAIN l = 1 .. n
  BY EmptySeq
<1>2. /\ Head(l) = l[1] /\ DOMAIN Tail(l) = 1 .. n - 1
      /\ \A i \in 1 .. n - 1 : Tail(l)[i] = l[i + 1]
  BY <1>1
<1>3. ASSUME NEW x, x \in Covered(l) PROVE x \in Head(l) \cup Covered(Tail(l))
  <2>1. PICK i \in 1 .. n : x \in l[i]
    BY <1>1, <1>3 DEF Covered
  <2>2. CASE i = 1
    BY <1>2, <2>1, <2>2
  <2>3. CASE i # 1
    <3>1. PICK j \in 1 .. n - 1 : i = j + 1
      BY <2>3
    <3>2. x \in Tail(l)[j]
      BY <1>2, <2>1, <3>1
    <3> QED
      BY <1>2, <3>2 DEF Covered
  <2> QED
    BY <2>2, <2>3
<1>4. ASSUME NEW x, x \in Head(l) \cup Covered(Tail(l)) PROVE x \in Covered(l)
  <2>1. CASE x \in Head(l)
    <3>1. 1 \in DOMAIN l
      BY <1>1
    <3> QED
      BY <1>2, <2>1, <3>1 DEF Covered
  <2>2. CASE x \in Covered(Tail(l))
    <3>1. PICK j \in 1 .. n - 1 : x \in Tail(l)[j]
      BY <1>2, <2>2 DEF Covered
    <3>2. j + 1 \in DOMAIN l /\ x \in l[j + 1]
      BY <1>1, <1>2, <3>1
    <3> QED
      BY <3>2 DEF Covered
  <2> QED
    BY <1>4, <2>1, <2>2
<1> QED
  BY <1>3, <1>4

LEMMA MergeBehindStep ==
    ASSUME OffloadInv, MergeBehind, [Next]_vars
    PROVE  MergeBehind'
<1>1. job' = job /\ [OffloadNext]_offloadVars
  BY SameJob, OffloadStepInProgram
<1>2. CASE MergeAdapter
  <2>1. /\ adapters # << >> /\ adapters' = Tail(adapters) /\ cached' = cached
        /\ merged' = merged \cup Head(adapters)
    BY <1>2 DEF MergeAdapter
  <2>2. adapters \in Seq(SUBSET (Layers \X Mats))
    BY DEF OffloadInv, OffloadTypeOK
  <2>3. Covered(adapters) = Head(adapters) \cup Covered(Tail(adapters))
    BY <2>1, <2>2, CoveredTail
  <2>4. merged' \cup Covered(Tail(adapters)) = merged \cup Covered(adapters)
    BY ONLY <2>1, <2>3
  <2>5. Covered(job.loras)' = Covered(job.loras) /\ Covered(adapters)' = Covered(Tail(adapters))
    BY <1>1, <2>1 DEF Covered
  <2> QED
    BY <2>1, <2>4, <2>5, Zenon DEF MergeBehind
<1>3. CASE \E l \in AdapterLists \cup {<< >>} : CacheHit(l)
  <2>1. cached' = TRUE
    BY <1>3 DEF CacheHit
  <2> QED
    BY <2>1, Zenon DEF MergeBehind
<1>4. CASE UNCHANGED <<merged, cached, adapters>>
  BY <1>1, <1>4 DEF MergeBehind, Covered
<1>5. CASE ~MergeAdapter /\ ~(\E l \in AdapterLists \cup {<< >>} : CacheHit(l))
  <2>1. UNCHANGED <<merged, cached, adapters>>
    BY <1>1, <1>5 DEF OffloadNext, offloadVars, CacheMiss, FileMissing, UseCpu, NoVram, PlanSplit,
       OffloadRaw, EndRaw, OffloadInt8, EndInt8, Finish, CudaThrows, DestroyModel
  <2> QED
    BY <1>4, <2>1
<1> QED
  BY <1>2, <1>3, <1>5

\* main returns 0 only when what the options ask for was carried through, a
\* model that was not cached with every adapter merged.
THEOREM ExitZeroMeansDoneHolds == Spec => []ExitZeroMeansDone
<1> DEFINE MainInv == PlaceOfMain /\ ModelBehind /\ EndInv
<1>1. Init => MainInv
  <2> SUFFICES ASSUME Init PROVE MainInv
    OBVIOUS
  <2>1. job.argv \in Seq(Words)
    BY ProgramAssumption DEF Init, JobType
  <2>2. argv \in Seq({job.argv[i] : i \in DOMAIN job.argv})
    <3>1. argv = job.argv
      BY DEF Init
    <3> QED
      BY <2>1, <3>1
  <2>3. /\ mpc = "args" /\ code = -1 /\ request = NoRequest /\ ldpc = "cache" /\ xpc = "idle"
    BY DEF Init, OffloadInit, ExportInit
  <2> QED
    BY <2>2, <2>3 DEF PlaceOfMain, ModelBehind, EndInv, Asking, Working, Serving, Generating, Ended
<1>2. DataInv /\ ExportInv /\ MainInv /\ [Next]_vars => MainInv'
  BY PlaceStep, ModelStep, EndStep
<1>3. MainInv /\ MergeBehind => ExitZeroMeansDone
  <2> SUFFICES ASSUME MainInv, MergeBehind, code = 0, argv = << >>, ~Helped
               PROVE  IF "--info" \in opts THEN job.file # "bad"
                      ELSE /\ ldpc \in {"ready", "freed"}
                           /\ ~cached => merged = Covered(job.loras)
                           /\ job.file = "good"
                           /\ IF "--export-gguf" \in opts THEN Len(dataAt) = Len(Plan) /\ xpc # "broken"
                              ELSE IF "--server" \in opts THEN request = NoRequest
                              ELSE "--prompt" \in opts /\ request.kind = "prompt"
    BY DEF ExitZeroMeansDone, Helped, Covered
  <2>1. mpc \in Ended
    BY DEF PlaceOfMain
  <2>2. adapters = << >> => (~cached => merged = Covered(job.loras))
    <3>1. Covered(<< >>) = {}
      BY DEF Covered
    <3> QED
      BY <3>1 DEF MergeBehind
  <2> QED
    BY <2>1, <2>2 DEF EndInv, Reading
<1>4. Init => MergeBehind
  BY DEF Init, OffloadInit, MergeBehind
<1>5. OffloadInv /\ MergeBehind /\ [Next]_vars => MergeBehind'
  BY MergeBehindStep
<1>6. Spec => []ExportInv
  BY ProgramExports, ExportInductive, PTL
<1> QED
  BY <1>1, <1>2, <1>3, <1>4, <1>5, <1>6, ProgramInvOffload, DataInductive, PTL DEF Spec

=============================================================================
