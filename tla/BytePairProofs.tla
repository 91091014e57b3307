--------------------------- MODULE BytePairProofs ---------------------------
(***************************************************************************)
(* What the tokenizer does to any text, with any vocabulary, merge table   *)
(* and special tokens: nothing of the text is lost or invented, and words, *)
(* numbers and the rest are kept apart.                                    *)
(***************************************************************************)
EXTENDS BytePair, SequenceTheorems, WellFoundedInduction, TLAPS

-----------------------------------------------------------------------------
(* Least elements, induction and recursion.                                *)

LEMMA WellOrdered ==
    ASSUME NEW S, S \in SUBSET Nat, S # {}
    PROVE  \E x \in S : \A y \in S : x <= y
<1> DEFINE R == {ss \in Nat \X Nat : ss[1] < ss[2]}
<1>1. IsWellFoundedOn(R, Nat)
  BY NatLessThanWellFounded, Zenon DEF OpToRel
<1>2. PICK x \in S : \A y \in S : ~ (<<y, x>> \in R)
  <2> HIDE DEF R
  <2> QED BY <1>1, WFMin, Zenon
<1>3. \A y \in S : ~ (y < x)
  BY <1>2
<1> QED
  BY <1>3

LEMMA MinExists ==
    ASSUME NEW S, S \in SUBSET Nat, S # {}
    PROVE  Min(S) \in S /\ \A y \in S : Min(S) <= y
<1>1. \E x \in S : \A y \in S : x <= y
  BY WellOrdered
<1> QED
  BY <1>1, Zenon DEF Min

LEMMA MaxExists ==
    ASSUME NEW S, NEW n \in Nat, S \in SUBSET (0 .. n), S # {}
    PROVE  Max(S) \in S /\ \A y \in S : Max(S) >= y
<1> DEFINE T == {n - x : x \in S}
<1>1. T \in SUBSET Nat /\ T # {}
  <2>1. \A x \in S : x \in 0 .. n
    OBVIOUS
  <2>2. \A x \in 0 .. n : n - x \in Nat
    OBVIOUS
  <2> QED
    BY <2>1, <2>2
<1>2. PICK t \in T : \A y \in T : t <= y
  <2> HIDE DEF T
  <2> QED BY <1>1, WellOrdered
<1>3. PICK x \in S : t = n - x
  BY <1>2
<1>4. \A y \in S : x >= y
  <2> SUFFICES ASSUME NEW y \in S PROVE x >= y
    OBVIOUS
  <2>1. n - y \in T
    OBVIOUS
  <2>2. n - x <= n - y
    BY <1>2, <1>3, <2>1
  <2> QED
    BY <2>2
<1> QED
  BY <1>4, Zenon DEF Max

\* Induction up to n, with a set for the predicate.
LEMMA UpTo ==
    ASSUME NEW n \in Nat, NEW S, 0 \in S,
           \A k \in 0 .. n - 1 : k \in S => k + 1 \in S
    PROVE  \A k \in 0 .. n : k \in S
<1> DEFINE Missed == {k \in 0 .. n : k \notin S}
<1>1. SUFFICES ASSUME Missed # {} PROVE FALSE
  OBVIOUS
<1>2. Missed \in SUBSET Nat
  OBVIOUS
<1>3. PICK k \in Missed : \A y \in Missed : k <= y
  <2> HIDE DEF Missed
  <2> QED BY <1>1, <1>2, WellOrdered
<1>4. k \in 0 .. n /\ k # 0 /\ k \notin S
  OBVIOUS
<1>5. PICK j \in 0 .. n - 1 : k = j + 1
  <2>1. k - 1 \in 0 .. n - 1 /\ k = (k - 1) + 1
    BY <1>4
  <2> QED
    BY <2>1
<1>6. j \notin Missed
  <2>1. ~(k <= j)
    BY <1>5
  <2> HIDE DEF Missed
  <2> QED
    BY <1>3, <2>1
<1>7. j \in S
  BY <1>5, <1>6
<1> QED
  BY <1>4, <1>5, <1>7

\* A function f on D is given by base where the measure m is 0, and elsewhere
\* by its value at prev, a place of smaller measure.
Recursive(D, V, n, m, prev, base, G) ==
    /\ m \in [D -> 0 .. n] /\ prev \in [D -> D]
    /\ base \in [D -> V] /\ G \in [D -> [V -> V]]
    /\ \A d \in D : m[d] # 0 => m[prev[d]] < m[d]

Solution(D, V, m, prev, base, G, f) ==
    /\ f \in [D -> V]
    /\ \A d \in D : f[d] = IF m[d] = 0 THEN base[d] ELSE G[d][f[prev[d]]]

LEMMA Recursion ==
    ASSUME NEW D, NEW V, NEW n \in Nat, NEW m, NEW prev, NEW base, NEW G,
           Recursive(D, V, n, m, prev, base, G)
    PROVE  \E f : Solution(D, V, m, prev, base, G, f)
<1> USE DEF Recursive
<1> DEFINE Below(k) == {d \in D : m[d] <= k}
           Solves(f, k) == \A d \in Below(k) :
                              f[d] = IF m[d] = 0 THEN base[d] ELSE G[d][f[prev[d]]]
           S == {k \in 0 .. n : \E f \in [D -> V] : Solves(f, k)}
<1>1. 0 \in S
  <2>1. \A d \in Below(0) : m[d] = 0
    OBVIOUS
  <2>2. Solves(base, 0)
    BY <2>1
  <2>3. 0 \in 0 .. n
    OBVIOUS
  <2> HIDE DEF Solves
  <2> QED
    BY <2>2, <2>3
<1>2. ASSUME NEW k \in 0 .. n - 1, k \in S PROVE k + 1 \in S
  <2>1. PICK f \in [D -> V] : Solves(f, k)
    BY <1>2
  <2> DEFINE g == [d \in D |-> IF m[d] <= k THEN f[d] ELSE G[d][f[prev[d]]]]
  <2>2. g \in [D -> V]
    OBVIOUS
  <2>3. ASSUME NEW d \in Below(k + 1)
        PROVE  g[d] = IF m[d] = 0 THEN base[d] ELSE G[d][g[prev[d]]]
    <3>1. m[d] # 0 => m[prev[d]] <= k /\ prev[d] \in D
      <4>1. m[d] # 0 => m[prev[d]] < m[d] /\ m[d] <= k + 1 /\ prev[d] \in D /\ m[d] \in Nat
                        /\ m[prev[d]] \in Nat
        OBVIOUS
      <4> QED
        BY <4>1
    <3>2. m[d] # 0 => g[prev[d]] = f[prev[d]]
      BY <3>1
    <3>3. m[d] <= k => f[d] = IF m[d] = 0 THEN base[d] ELSE G[d][f[prev[d]]]
      BY <2>1
    <3>4. CASE m[d] <= k
      BY <3>2, <3>3, <3>4
    <3>5. CASE ~(m[d] <= k)
      <4>1. m[d] # 0
        BY <3>5
      <4> QED
        BY <3>2, <3>5, <4>1
    <3> QED
      BY <3>4, <3>5
  <2> HIDE DEF g
  <2>4. Solves(g, k + 1)
    BY <2>3
  <2>5. k + 1 \in 0 .. n
    OBVIOUS
  <2> HIDE DEF Solves
  <2> QED
    BY <2>2, <2>4, <2>5
<1> HIDE DEF S
<1>3. n \in S
  <2>1. \A k \in 0 .. n : k \in S
    BY <1>1, <1>2, UpTo
  <2> QED
    BY <2>1
<1>4. PICK f \in [D -> V] : Solves(f, n)
  BY <1>3 DEF S
<1>5. Below(n) = D
  OBVIOUS
<1> QED
  BY <1>4, <1>5 DEF Solution

-----------------------------------------------------------------------------
(* FlattenSeq.                                                             *)

\* f has the beginnings of ss one after the other.
Flattens(ss, f) ==
    f = [i \in 1 .. Len(ss) |-> IF i = 1 THEN ss[i] ELSE f[i - 1] \o ss[i]]

LEMMA FlattenIsOne ==
    ASSUME NEW T, NEW ss \in Seq(Seq(T)), ss # << >>
    PROVE  \E f \in [1 .. Len(ss) -> Seq(T)] : Flattens(ss, f) /\ FlattenSeq(ss) = f[Len(ss)]
<1>1. PICK n \in Nat : n = Len(ss) /\ n # 0 /\ \A i \in 1 .. n : ss[i] \in Seq(T)
  OBVIOUS
<1> DEFINE m == [i \in 1 .. n |-> i - 1]
           prev == [i \in 1 .. n |-> IF i = 1 THEN 1 ELSE i - 1]
           base == [i \in 1 .. n |-> ss[i]]
           G == [i \in 1 .. n |-> [v \in Seq(T) |-> v \o ss[i]]]
<1>2. Recursive(1 .. n, Seq(T), n, m, prev, base, G)
  <2>1. m \in [1 .. n -> 0 .. n] /\ prev \in [1 .. n -> 1 .. n]
    BY <1>1
  <2>2. base \in [1 .. n -> Seq(T)]
    BY <1>1
  <2>3. \A i \in 1 .. n : \A v \in Seq(T) : v \o ss[i] \in Seq(T)
    BY <1>1, ConcatProperties
  <2>4. G \in [1 .. n -> [Seq(T) -> Seq(T)]]
    BY <2>3
  <2>5. \A d \in 1 .. n : m[d] # 0 => m[prev[d]] < m[d]
    OBVIOUS
  <2> HIDE DEF m, prev, base, G
  <2> QED
    BY <2>1, <2>2, <2>4, <2>5 DEF Recursive
<1>3. PICK f : Solution(1 .. n, Seq(T), m, prev, base, G, f)
  <2> HIDE DEF m, prev, base, G
  <2> QED
    BY <1>2, Recursion
<1>4. \A i \in 1 .. n : f[i] = IF i = 1 THEN ss[i] ELSE f[i - 1] \o ss[i]
  <2> SUFFICES ASSUME NEW i \in 1 .. n
               PROVE  f[i] = IF i = 1 THEN ss[i] ELSE f[i - 1] \o ss[i]
    OBVIOUS
  <2>1. m[i] = 0 <=> i = 1
    OBVIOUS
  <2>2. base[i] = ss[i] /\ prev[i] = (IF i = 1 THEN 1 ELSE i - 1)
    OBVIOUS
  <2>3. i # 1 => i - 1 \in 1 .. n
    BY <1>1
  <2>4. \A v \in Seq(T) : G[i][v] = v \o ss[i]
    OBVIOUS
  <2> HIDE DEF m, prev, base, G
  <2> QED
    BY <1>3, <2>1, <2>2, <2>3, <2>4 DEF Solution
<1>5. Flattens(ss, f)
  <2>1. f = [i \in 1 .. n |-> f[i]]
    BY <1>3 DEF Solution
  <2> QED
    BY <1>1, <1>4, <2>1 DEF Flattens
<1> DEFINE flatten == CHOOSE flatten : flatten =
              [i \in 1 .. Len(ss) |-> IF i = 1 THEN ss[i] ELSE flatten[i - 1] \o ss[i]]
<1>6. Flattens(ss, flatten)
  BY <1>5, Zenon DEF Flattens
<1>7. FlattenSeq(ss) = flatten[Len(ss)]
  <2>1. Len(ss) # 0
    BY <1>1
  <2> QED
    BY <2>1, Zenon DEF FlattenSeq
<1>8. flatten \in [1 .. n -> Seq(T)]
  <2> HIDE DEF flatten
  <2> DEFINE S == {k \in 0 .. n : \A i \in 1 .. k : flatten[i] \in Seq(T)}
  <2>1. \A i \in 1 .. n : flatten[i] = IF i = 1 THEN ss[i] ELSE flatten[i - 1] \o ss[i]
    BY <1>1, <1>6 DEF Flattens
  <2>2. 0 \in S
    OBVIOUS
  <2>3. ASSUME NEW k \in 0 .. n - 1, k \in S PROVE k + 1 \in S
    <3>1. PICK j \in 1 .. n : j = k + 1
      OBVIOUS
    <3>2. j # 1 => j - 1 \in 1 .. k
      BY <3>1
    <3>3. flatten[j] \in Seq(T)
      <4>1. CASE j = 1
        BY <1>1, <2>1, <4>1
      <4>2. CASE j # 1
        <5>1. PICK u \in Seq(T) : u = flatten[j - 1]
          BY <2>3, <3>2, <4>2
        <5>2. u \o ss[j] \in Seq(T)
          BY <1>1, ConcatProperties
        <5> QED
          BY <2>1, <4>2, <5>1, <5>2
      <4> QED
        BY <4>1, <4>2
    <3>4. \A i \in 1 .. k + 1 : i = j \/ i \in 1 .. k
      BY <3>1
    <3>5. k + 1 \in 0 .. n /\ \A i \in 1 .. k : flatten[i] \in Seq(T)
      BY <2>3
    <3> QED
      BY <3>3, <3>4, <3>5
  <2> HIDE DEF S
  <2>4. \A k \in 0 .. n : k \in S
    BY <2>2, <2>3, UpTo
  <2>5. \A i \in 1 .. n : flatten[i] \in Seq(T)
    <3>1. n \in S
      BY <2>4
    <3> QED
      BY <3>1 DEF S
  <2>6. flatten = [i \in 1 .. n |-> flatten[i]]
    BY <1>1, <1>6, Zenon DEF Flattens
  <2> QED
    BY <2>5, <2>6
<1> HIDE DEF flatten
<1> QED
  BY <1>1, <1>6, <1>7, <1>8

LEMMA FlattenEmpty == FlattenSeq(<< >>) = << >>
  BY Zenon, EmptySeq DEF FlattenSeq

LEMMA FlattenType ==
    ASSUME NEW T, NEW ss \in Seq(Seq(T))
    PROVE  FlattenSeq(ss) \in Seq(T)
<1>1. CASE ss = << >>
  <2>1. << >> \in Seq(T)
    OBVIOUS
  <2> QED
    BY <1>1, <2>1, FlattenEmpty, Zenon
<1>2. CASE ss # << >>
  <2>1. PICK f \in [1 .. Len(ss) -> Seq(T)] : FlattenSeq(ss) = f[Len(ss)]
    BY <1>2, FlattenIsOne
  <2>2. Len(ss) \in 1 .. Len(ss)
    BY <1>2
  <2> QED
    BY <2>1, <2>2
<1> QED
  BY <1>1, <1>2

LEMMA FlattenAppend ==
    ASSUME NEW T, NEW ss \in Seq(Seq(T)), NEW x \in Seq(T)
    PROVE  FlattenSeq(Append(ss, x)) = FlattenSeq(ss) \o x
<1>1. PICK n \in Nat : n = Len(ss)
  OBVIOUS
<1>2. PICK ts \in Seq(Seq(T)) : ts = Append(ss, x)
  BY AppendProperties
<1>3. PICK m \in Nat : m = n + 1 /\ Len(ts) = m /\ ts[m] = x /\ ts # << >>
                       /\ \A i \in 1 .. n : ts[i] = ss[i]
  <2>1. PICK m \in Nat : m = n + 1
    OBVIOUS
  <2>2. Len(ts) = m /\ ts[m] = x /\ ts # << >> /\ \A i \in 1 .. n : ts[i] = ss[i]
    BY <1>1, <1>2, <2>1, AppendProperties
  <2> QED
    BY <2>1, <2>2
<1>4. PICK g \in [1 .. m -> Seq(T)] : Flattens(ts, g) /\ FlattenSeq(ts) = g[m]
  BY <1>3, FlattenIsOne
<1>5. \A i \in 1 .. m : g[i] = IF i = 1 THEN ts[i] ELSE g[i - 1] \o ts[i]
  BY <1>3, <1>4 DEF Flattens
<1>6. m \in 1 .. m /\ (n # 0 => m # 1 /\ m - 1 = n /\ n \in 1 .. n)
  BY <1>3
<1>7. CASE n = 0
  <2>1. ss = << >>
    BY <1>1, <1>7, EmptySeq
  <2>2. m = 1
    BY <1>3, <1>7
  <2>3. g[m] = x
    BY <1>3, <1>5, <1>6, <2>2
  <2>4. FlattenSeq(ss) = << >> /\ << >> \o x = x
    BY <2>1, FlattenEmpty, ConcatEmptySeq
  <2> QED
    BY <1>2, <1>4, <2>3, <2>4
<1>8. CASE n # 0
  <2>1. ss # << >>
    BY <1>1, <1>8
  <2>2. PICK f \in [1 .. n -> Seq(T)] : Flattens(ss, f) /\ FlattenSeq(ss) = f[n]
    BY <1>1, <2>1, FlattenIsOne
  <2>3. \A i \in 1 .. n : f[i] = IF i = 1 THEN ss[i] ELSE f[i - 1] \o ss[i]
    BY <1>1, <2>2 DEF Flattens
  <2> DEFINE S == {k \in 0 .. n : \A i \in 1 .. k : f[i] = g[i]}
  <2>4. 0 \in S
    OBVIOUS
  <2>5. ASSUME NEW k \in 0 .. n - 1, k \in S PROVE k + 1 \in S
    <3>1. PICK j \in 1 .. n : j = k + 1
      OBVIOUS
    <3>2. j \in 1 .. m /\ (j # 1 => j - 1 \in 1 .. k)
      BY <1>3, <3>1
    <3>3. f[j] = g[j]
      <4>1. j # 1 => f[j - 1] = g[j - 1]
        BY <2>5, <3>2
      <4>2. ts[j] = ss[j]
        BY <1>3
      <4> QED
        BY <1>5, <2>3, <3>2, <4>1, <4>2
    <3>4. \A i \in 1 .. k + 1 : i = j \/ i \in 1 .. k
      BY <3>1
    <3>5. k + 1 \in 0 .. n /\ \A i \in 1 .. k : f[i] = g[i]
      BY <2>5
    <3> QED
      BY <3>3, <3>4, <3>5
  <2> HIDE DEF S
  <2>6. n \in S
    <3>1. \A k \in 0 .. n : k \in S
      BY <2>4, <2>5, UpTo
    <3> QED
      BY <3>1
  <2>7. f[n] = g[n]
    BY <1>6, <1>8, <2>6 DEF S
  <2>8. g[m] = g[n] \o x
    BY <1>3, <1>5, <1>6, <1>8
  <2> QED
    BY <1>2, <1>4, <2>2, <2>7, <2>8
<1> QED
  BY <1>7, <1>8

LEMMA FlattenSingle ==
    ASSUME NEW T, NEW x \in Seq(T)
    PROVE  FlattenSeq(<<x>>) = x
<1>1. << >> \in Seq(Seq(T)) /\ Append(<< >>, x) = <<x>>
  OBVIOUS
<1>2. FlattenSeq(<<x>>) = FlattenSeq(<< >>) \o x
  BY <1>1, FlattenAppend
<1> QED
  BY <1>2, FlattenEmpty, ConcatEmptySeq

\* The beginning of a sequence, one element longer.
LEMMA BeginningGrows ==
    ASSUME NEW T, NEW s \in Seq(T), NEW k \in 0 .. Len(s) - 1
    PROVE  /\ SubSeq(s, 1, k) \in Seq(T) /\ s[k + 1] \in T
           /\ SubSeq(s, 1, k + 1) = Append(SubSeq(s, 1, k), s[k + 1])
<1>1. PICK j \in 1 .. Len(s) : j = k + 1 /\ k = j - 1
  OBVIOUS
<1>2. \A i \in 1 .. k : s[i] \in T
  OBVIOUS
<1>3. SubSeq(s, 1, k) \in Seq(T)
  BY <1>2, SubSeqProperties
<1>4. SubSeq(s, 1, j) = SubSeq(s, 1, j - 1) \o <<s[j]>>
  BY SubSeqRecursiveSecond
<1>5. Append(SubSeq(s, 1, k), s[j]) = SubSeq(s, 1, k) \o <<s[j]>>
  BY <1>3, AppendIsConcat
<1> QED
  BY <1>1, <1>3, <1>4, <1>5

Rejoined(u, v, x) == (u \o v) \o x = u \o (v \o x)

LEMMA JoinThree == ASSUME NEW T PROVE \A u, v, x \in Seq(T) : Rejoined(u, v, x)
<1> SUFFICES ASSUME NEW u \in Seq(T), NEW v \in Seq(T), NEW x \in Seq(T)
             PROVE  (u \o v) \o x = u \o (v \o x)
  BY Zenon DEF Rejoined
<1> QED
  BY ConcatAssociative

LEMMA FlattenConcat ==
    ASSUME NEW T, NEW a \in Seq(Seq(T)), NEW b \in Seq(Seq(T))
    PROVE  FlattenSeq(a \o b) = FlattenSeq(a) \o FlattenSeq(b)
<1>1. PICK n \in Nat : n = Len(b)
  OBVIOUS
<1> DEFINE B(k) == SubSeq(b, 1, k)
           S == {k \in 0 .. n : FlattenSeq(a \o B(k)) = FlattenSeq(a) \o FlattenSeq(B(k))}
<1>2. 0 \in S
  <2>1. B(0) = << >>
    BY SubSeqEmpty
  <2>2. a \o << >> = a /\ FlattenSeq(a) \o << >> = FlattenSeq(a)
    BY ConcatEmptySeq, FlattenType
  <2>3. FlattenSeq(a \o B(0)) = FlattenSeq(a) \o FlattenSeq(B(0))
    <3> HIDE DEF B
    <3> QED
      BY <2>1, <2>2, FlattenEmpty
  <2> QED
    BY <2>3
<1>3. ASSUME NEW k \in 0 .. n - 1, k \in S PROVE k + 1 \in S
  <2>1. PICK c \in Seq(Seq(T)), x \in Seq(T) : c = B(k) /\ B(k + 1) = Append(c, x)
    BY <1>1, BeginningGrows
  <2>2. a \o Append(c, x) = Append(a \o c, x)
    <3>1. Append(c, x) = c \o <<x>> /\ <<x>> \in Seq(Seq(T))
      BY AppendIsConcat
    <3>2. a \o c \in Seq(Seq(T))
      BY ConcatProperties
    <3>3. Append(a \o c, x) = (a \o c) \o <<x>>
      BY <3>2, AppendIsConcat
    <3>4. Rejoined(a, c, <<x>>)
      <4> DEFINE V == Seq(T)
      <4>1. a \in Seq(V) /\ c \in Seq(V) /\ <<x>> \in Seq(V)
        BY <2>1, <3>1
      <4> HIDE DEF V
      <4> QED
        BY <4>1, JoinThree
    <3> QED
      BY <3>1, <3>3, <3>4, Zenon DEF Rejoined
  <2>3. FlattenSeq(a \o Append(c, x)) = FlattenSeq(a \o c) \o x
    BY <2>2, ConcatProperties, FlattenAppend
  <2>4. FlattenSeq(Append(c, x)) = FlattenSeq(c) \o x
    BY FlattenAppend
  <2>5. FlattenSeq(a \o c) = FlattenSeq(a) \o FlattenSeq(c)
    BY <1>3, <2>1
  <2>6. (FlattenSeq(a) \o FlattenSeq(c)) \o x = FlattenSeq(a) \o (FlattenSeq(c) \o x)
    <3>1. PICK u \in Seq(T), v \in Seq(T) : u = FlattenSeq(a) /\ v = FlattenSeq(c)
      BY FlattenType
    <3>2. Rejoined(u, v, x)
      BY JoinThree
    <3> QED
      BY <3>1, <3>2, Zenon DEF Rejoined
  <2>7. k + 1 \in 0 .. n
    OBVIOUS
  <2> QED
    BY <2>1, <2>3, <2>4, <2>5, <2>6, <2>7
<1> HIDE DEF S
<1>4. n \in S
  <2>1. \A k \in 0 .. n : k \in S
    BY <1>2, <1>3, UpTo
  <2> QED
    BY <2>1
<1>5. B(n) = b
  BY <1>1, SubSeqFull
<1> QED
  BY <1>4, <1>5 DEF S

-----------------------------------------------------------------------------
(* Merging.                                                                *)

Byte == STRING
Token == Seq(Byte)

Regrouped(a, x, y, c) == (a \o (x \o y)) \o c = a \o (x \o (y \o c))

LEMMA JoinFour == \A a, x, y, c \in Token : Regrouped(a, x, y, c)
  BY DEF Token, Regrouped

\* A merge changes how a piece is cut, not what it spells.
LEMMA MergeAtSpells ==
    ASSUME NEW syms \in Seq(Token), NEW i \in 1 .. Len(syms) - 1
    PROVE  /\ MergeAt(syms, i) \in Seq(Token)
           /\ FlattenSeq(MergeAt(syms, i)) = FlattenSeq(syms)
<1>1. PICK n \in Nat, j \in 1 .. Len(syms) : n = Len(syms) /\ j = i + 1
  OBVIOUS
<1> DEFINE A == SubSeq(syms, 1, i - 1)
           C == SubSeq(syms, i + 2, n)
<1>2. PICK x \in Token, y \in Token : x = syms[i] /\ y = syms[i + 1]
  BY <1>1
<1>3. \A k \in 1 .. n : syms[k] \in Token
  BY <1>1
<1>4. A \in Seq(Token) /\ C \in Seq(Token)
  <2>1. i - 1 \in Int /\ i + 2 \in Int /\ n \in Int
    BY <1>1
  <2>2. (\A k \in 1 .. i - 1 : syms[k] \in Token) /\ (\A k \in i + 2 .. n : syms[k] \in Token)
    BY <1>1, <1>3
  <2> QED
    BY <2>1, <2>2, SubSeqProperties
<1>5. SubSeq(syms, i, n) = <<x>> \o (<<y>> \o C)
  <2>1. SubSeq(syms, i, n) = <<syms[i]>> \o SubSeq(syms, i + 1, n)
    <3>1. i \in 1 .. Len(syms) /\ n \in i .. Len(syms)
      BY <1>1
    <3> QED
      BY <3>1, SubSeqRecursiveFirst
  <2>2. SubSeq(syms, j, n) = <<syms[j]>> \o SubSeq(syms, j + 1, n)
    <3>1. n \in j .. Len(syms)
      BY <1>1
    <3> QED
      BY <3>1, SubSeqRecursiveFirst
  <2>3. j + 1 = i + 2
    BY <1>1
  <2> QED
    BY <1>1, <1>2, <2>1, <2>2, <2>3
<1>6. syms = A \o (<<x>> \o (<<y>> \o C))
  <2>1. SubSeq(syms, 1, n) = syms
    BY <1>1, SubSeqFull
  <2>2. PICK h \in 0 .. Len(syms) : h = i - 1
    BY <1>1
  <2>3. 1 \in 1 .. Len(syms) + 1 /\ h \in 1 - 1 .. Len(syms) /\ n \in h .. Len(syms) /\ h + 1 = i
    BY <1>1, <2>2
  <2>4. SubSeq(syms, 1, h) \o SubSeq(syms, h + 1, n) = SubSeq(syms, 1, n)
    BY <2>3, ConcatAdjacentSubSeq
  <2> QED
    BY <1>5, <2>1, <2>2, <2>3, <2>4
<1> HIDE DEF A, C
<1>7. x \o y \in Token
  BY ConcatProperties DEF Token
<1>8. MergeAt(syms, i) = (A \o <<x \o y>>) \o C
  BY <1>1, <1>2 DEF MergeAt, A, C
<1>9. <<x>> \in Seq(Token) /\ <<y>> \in Seq(Token) /\ <<x \o y>> \in Seq(Token)
  BY <1>7
<1>10. A \o <<x \o y>> \in Seq(Token) /\ <<y>> \o C \in Seq(Token)
  BY <1>4, <1>9, ConcatProperties
<1>11. <<x>> \o (<<y>> \o C) \in Seq(Token)
  BY <1>9, <1>10, ConcatProperties
<1>12. MergeAt(syms, i) \in Seq(Token)
  BY <1>4, <1>8, <1>10, ConcatProperties
<1>13. PICK a \in Token, c \in Token : a = FlattenSeq(A) /\ c = FlattenSeq(C)
  BY <1>4, FlattenType DEF Token
<1>14. FlattenSeq(MergeAt(syms, i)) = (a \o (x \o y)) \o c
  <2>1. FlattenSeq((A \o <<x \o y>>) \o C) = FlattenSeq(A \o <<x \o y>>) \o FlattenSeq(C)
    BY <1>4, <1>10, FlattenConcat DEF Token
  <2>2. FlattenSeq(A \o <<x \o y>>) = FlattenSeq(A) \o FlattenSeq(<<x \o y>>)
    BY <1>4, <1>9, FlattenConcat DEF Token
  <2>3. FlattenSeq(<<x \o y>>) = x \o y
    BY <1>7, FlattenSingle DEF Token
  <2> QED
    BY <1>8, <1>13, <2>1, <2>2, <2>3
<1>15. FlattenSeq(syms) = a \o (x \o (y \o c))
  <2>1. FlattenSeq(A \o (<<x>> \o (<<y>> \o C))) = FlattenSeq(A) \o FlattenSeq(<<x>> \o (<<y>> \o C))
    BY <1>4, <1>11, FlattenConcat DEF Token
  <2>2. FlattenSeq(<<x>> \o (<<y>> \o C)) = FlattenSeq(<<x>>) \o FlattenSeq(<<y>> \o C)
    BY <1>9, <1>10, FlattenConcat DEF Token
  <2>3. FlattenSeq(<<y>> \o C) = FlattenSeq(<<y>>) \o FlattenSeq(C)
    BY <1>4, <1>9, FlattenConcat DEF Token
  <2>4. FlattenSeq(<<x>>) = x /\ FlattenSeq(<<y>>) = y
    BY FlattenSingle DEF Token
  <2> QED
    BY <1>6, <1>13, <2>1, <2>2, <2>3, <2>4
<1>16. (a \o (x \o y)) \o c = a \o (x \o (y \o c))
  <2>1. a \in Token /\ x \in Token /\ y \in Token /\ c \in Token
    BY <1>2, <1>13
  <2>2. Regrouped(a, x, y, c)
    BY <2>1, JoinFour
  <2> QED
    BY <2>2, Zenon DEF Regrouped
<1> QED
  BY <1>12, <1>14, <1>15, <1>16

LEMMA BestPairFound ==
    ASSUME NEW syms \in Seq(Token), Mergeable(syms) # {}
    PROVE  BestPair(syms) \in 1 .. Len(syms) - 1
<1> DEFINE rank(i) == Max(RanksAt(syms, i))
           ranks == {rank(i) : i \in Mergeable(syms)}
           best == {i \in Mergeable(syms) : rank(i) = Min(ranks)}
<1>1. PICK n \in Nat : n = Len(Merges) /\ DOMAIN Merges = 1 .. n
  BY TokenizerAssumption
<1>2. \A i \in Mergeable(syms) : rank(i) \in Nat
  <2> SUFFICES ASSUME NEW i \in Mergeable(syms) PROVE rank(i) \in Nat
    OBVIOUS
  <2>1. RanksAt(syms, i) # {}
    BY DEF Mergeable
  <2>2. RanksAt(syms, i) \in SUBSET (0 .. n)
    BY <1>1 DEF RanksAt
  <2>3. Max(RanksAt(syms, i)) \in RanksAt(syms, i)
    BY <2>1, <2>2, MaxExists
  <2> QED
    BY <2>2, <2>3
<1> HIDE DEF rank
<1>3. ranks \in SUBSET Nat /\ ranks # {}
  BY <1>2
<1>4. Min(ranks) \in ranks
  <2> HIDE DEF ranks
  <2> QED
    BY <1>3, MinExists
<1>5. best # {}
  BY <1>4
<1>6. Mergeable(syms) \in SUBSET (1 .. Len(syms) - 1)
  BY DEF Mergeable
<1>7. best \in SUBSET Nat /\ best \subseteq 1 .. Len(syms) - 1
  BY <1>6
<1>8. Min(best) \in best
  <2> HIDE DEF best
  <2> QED
    BY <1>5, <1>7, MinExists
<1>9. BestPair(syms) = Min(best)
  BY DEF BestPair, rank
<1> HIDE DEF best
<1> QED
  BY <1>7, <1>8, <1>9

LEMMA MergeOnceSpells ==
    ASSUME NEW syms \in Seq(Token)
    PROVE  /\ MergeOnce(syms) \in Seq(Token)
           /\ FlattenSeq(MergeOnce(syms)) = FlattenSeq(syms)
  BY BestPairFound, MergeAtSpells DEF MergeOnce

\* The rounds of the loop, one after the other.
Rounds(syms, after) ==
    /\ MergeAll(syms) = after[Len(syms)]
    /\ \A k \in 0 .. Len(syms) : after[k] = IF k = 0 THEN syms ELSE MergeOnce(after[k - 1])

LEMMA MergeAllRounds ==
    ASSUME NEW syms \in Seq(Token)
    PROVE  \E after : Rounds(syms, after)
<1>1. PICK n \in Nat : n = Len(syms)
  OBVIOUS
<1> DEFINE D == 0 .. n
           V == Seq(Token)
           m == [k \in D |-> k]
           prev == [k \in D |-> IF k = 0 THEN 0 ELSE k - 1]
           base == [k \in D |-> syms]
           G == [k \in D |-> [v \in V |-> MergeOnce(v)]]
           Merging(f) == f = [k \in 0 .. Len(syms) |-> IF k = 0 THEN syms ELSE MergeOnce(f[k - 1])]
<1>2. Recursive(D, V, n, m, prev, base, G)
  <2>1. m \in [D -> 0 .. n] /\ prev \in [D -> D] /\ base \in [D -> V]
    OBVIOUS
  <2>2. G \in [D -> [V -> V]]
    BY MergeOnceSpells
  <2>3. \A d \in D : m[d] # 0 => m[prev[d]] < m[d]
    OBVIOUS
  <2> HIDE DEF D, V, m, prev, base, G
  <2> QED
    BY <2>1, <2>2, <2>3 DEF Recursive
<1>3. PICK f : Solution(D, V, m, prev, base, G, f)
  <2> HIDE DEF D, V, m, prev, base, G
  <2> QED
    BY <1>2, Recursion
<1>4. Merging(f)
  <2>1. f = [k \in D |-> f[k]] /\ \A k \in D : f[k] \in V
    <3> HIDE DEF D, V, m, prev, base, G
    <3> QED
      BY <1>3 DEF Solution
  <2>2. ASSUME NEW k \in D PROVE f[k] = IF k = 0 THEN syms ELSE MergeOnce(f[k - 1])
    <3>1. /\ m[k] = k /\ base[k] = syms /\ prev[k] = (IF k = 0 THEN 0 ELSE k - 1)
          /\ prev[k] \in D /\ \A v \in V : G[k][v] = MergeOnce(v)
      OBVIOUS
    <3> HIDE DEF D, V, m, prev, base, G
    <3> QED
      BY <1>3, <2>1, <3>1 DEF Solution
  <2> HIDE DEF V, m, prev, base, G
  <2> QED
    BY <1>1, <2>1, <2>2
<1> DEFINE after == CHOOSE after : Merging(after)
<1>5. Merging(after)
  <2> HIDE DEF Merging
  <2> QED
    BY <1>4, Zenon
<1>6. MergeAll(syms) = after[n]
  BY <1>1, Zenon DEF MergeAll
<1> HIDE DEF after
<1>7. \A k \in 0 .. n : after[k] = IF k = 0 THEN syms ELSE MergeOnce(after[k - 1])
  BY <1>1, <1>5
<1> HIDE DEF D, V, m, prev, base, G, Merging
<1> QED
  BY <1>1, <1>6, <1>7 DEF Rounds

LEMMA MergeAllSpells ==
    ASSUME NEW syms \in Seq(Token)
    PROVE  /\ MergeAll(syms) \in Seq(Token)
           /\ FlattenSeq(MergeAll(syms)) = FlattenSeq(syms)
<1>1. PICK n \in Nat : n = Len(syms)
  OBVIOUS
<1>2. PICK after : Rounds(syms, after)
  BY MergeAllRounds
<1>6. MergeAll(syms) = after[n]
  BY <1>1, <1>2 DEF Rounds
<1>7. \A k \in 0 .. n : after[k] = IF k = 0 THEN syms ELSE MergeOnce(after[k - 1])
  BY <1>1, <1>2 DEF Rounds
<1> DEFINE S == {k \in 0 .. n : after[k] \in Seq(Token) /\ FlattenSeq(after[k]) = FlattenSeq(syms)}
<1>8. 0 \in S
  BY <1>7
<1>9. ASSUME NEW k \in 0 .. n - 1, k \in S PROVE k + 1 \in S
  <2>1. PICK j \in 0 .. n : j = k + 1 /\ j # 0 /\ j - 1 = k
    OBVIOUS
  <2>2. after[j] = MergeOnce(after[k])
    BY <1>7, <2>1
  <2>3. after[j] \in Seq(Token) /\ FlattenSeq(after[j]) = FlattenSeq(syms)
    BY <1>9, <2>2, MergeOnceSpells
  <2> QED
    BY <2>1, <2>3
<1> HIDE DEF S
<1>10. n \in S
  <2>1. \A k \in 0 .. n : k \in S
    BY <1>8, <1>9, UpTo
  <2> QED
    BY <2>1
<1> QED
  BY <1>6, <1>10 DEF S

LEMMA MergeOnceShortens ==
    ASSUME NEW syms \in Seq(Token), Mergeable(syms) # {}
    PROVE  Len(MergeOnce(syms)) = Len(syms) - 1
<1>1. PICK n \in Nat : n = Len(syms) /\ syms \in [1 .. n -> Token]
  OBVIOUS
<1>2. PICK i \in 1 .. n - 1 : i = BestPair(syms)
  BY <1>1, BestPairFound
<1>3. MergeOnce(syms) = MergeAt(syms, i)
  BY <1>2 DEF MergeOnce
<1>4. PICK a \in Seq(Token) : a = SubSeq(syms, 1, i - 1) /\ Len(a) = i - 1
  <2>1. \A k \in 1 .. i - 1 : syms[k] \in Token
    BY <1>1
  <2>2. SubSeq(syms, 1, i - 1) \in Seq(Token) /\ Len(SubSeq(syms, 1, i - 1)) = i - 1
    <3>1. i - 1 \in Int /\ (i - 1) - 1 + 1 = i - 1 /\ (~(1 <= i - 1) => i - 1 = 0)
      OBVIOUS
    <3> QED
      BY <2>1, <3>1, SubSeqProperties
  <2> QED
    BY <2>2
<1>5. PICK c \in Seq(Token) : c = SubSeq(syms, i + 2, n) /\ Len(c) = n - i - 1
  <2>1. \A k \in i + 2 .. n : syms[k] \in Token
    BY <1>1
  <2>2. SubSeq(syms, i + 2, n) \in Seq(Token) /\ Len(SubSeq(syms, i + 2, n)) = n - i - 1
    <3>1. i + 2 \in Int /\ n - (i + 2) + 1 = n - i - 1 /\ (~(i + 2 <= n) => n - i - 1 = 0)
      OBVIOUS
    <3> QED
      BY <2>1, <3>1, SubSeqProperties
  <2> QED
    BY <2>2
<1>6. PICK b \in Seq(Token) : b = <<syms[i] \o syms[i + 1]>> /\ Len(b) = 1
  <2>1. i \in 1 .. n /\ i + 1 \in 1 .. n
    OBVIOUS
  <2>2. PICK x \in Token : x = syms[i] \o syms[i + 1]
    <3>1. PICK v \in Token, w \in Token : v = syms[i] /\ w = syms[i + 1]
      BY <1>1, <2>1
    <3>2. v \o w \in Token
      BY DEF Token
    <3> QED
      BY <3>1, <3>2
  <2>3. <<x>> \in Seq(Token) /\ Len(<<x>>) = 1
    OBVIOUS
  <2> QED
    BY <2>2, <2>3
<1>7. MergeOnce(syms) = a \o b \o c
  BY <1>1, <1>3, <1>4, <1>5, <1>6 DEF MergeAt
<1>8. Len(a \o b) = Len(a) + Len(b) /\ a \o b \in Seq(Token)
  BY ConcatProperties
<1>9. Len(a \o b \o c) = Len(a \o b) + Len(c)
  BY <1>8, ConcatProperties
<1>10. (i - 1) + 1 + (n - i - 1) = n - 1
  OBVIOUS
<1> QED
  BY <1>1, <1>4, <1>5, <1>6, <1>7, <1>8, <1>9, <1>10

\* As many rounds as there are symbols are enough: no pair is left that the
\* table merges, which is where the loop of bpe_encode_piece ends.
THEOREM MergedToTheEnd == \A syms \in Seq(Token) : Mergeable(MergeAll(syms)) = {}
<1> SUFFICES ASSUME NEW syms \in Seq(Token) PROVE Mergeable(MergeAll(syms)) = {}
  OBVIOUS
<1>1. PICK n \in Nat : n = Len(syms)
  OBVIOUS
<1>2. PICK after : Rounds(syms, after)
  BY MergeAllRounds
<1>3. MergeAll(syms) = after[n]
  BY <1>1, <1>2 DEF Rounds
<1>4. \A k \in 0 .. n : after[k] = IF k = 0 THEN syms ELSE MergeOnce(after[k - 1])
  BY <1>1, <1>2 DEF Rounds
<1> DEFINE S == {k \in 0 .. n : /\ after[k] \in Seq(Token)
                                /\ Mergeable(after[k]) = {} \/ Len(after[k]) + k <= n}
<1>5. 0 \in S
  BY <1>1, <1>4
<1>6. ASSUME NEW k \in 0 .. n - 1, k \in S PROVE k + 1 \in S
  <2>1. PICK j \in 0 .. n : j = k + 1 /\ j # 0 /\ j - 1 = k
    OBVIOUS
  <2>2. after[j] = MergeOnce(after[k])
    BY <1>4, <2>1
  <2>3. PICK x \in Seq(Token) : x = after[k] /\ (Mergeable(x) = {} \/ Len(x) + k <= n)
    BY <1>6
  <2>4. MergeOnce(x) \in Seq(Token)
    BY MergeOnceSpells
  <2>5. Mergeable(MergeOnce(x)) = {} \/ Len(MergeOnce(x)) + j <= n
    <3>1. CASE Mergeable(x) = {}
      BY <3>1 DEF MergeOnce
    <3>2. CASE Mergeable(x) # {}
      <4>1. Len(MergeOnce(x)) = Len(x) - 1
        BY <3>2, MergeOnceShortens
      <4>2. Len(x) \in Nat /\ Len(x) + k <= n
        BY <2>3, <3>2
      <4> QED
        BY <2>1, <4>1, <4>2
    <3> QED
      BY <3>1, <3>2
  <2> QED
    BY <2>1, <2>2, <2>3, <2>4, <2>5
<1> HIDE DEF S
<1>7. n \in S
  <2>1. \A k \in 0 .. n : k \in S
    BY <1>5, <1>6, UpTo
  <2> QED
    BY <2>1
<1>8. PICK x \in Seq(Token) : x = after[n] /\ (Mergeable(x) = {} \/ Len(x) + n <= n)
  BY <1>7 DEF S
<1>9. Len(x) + n <= n => Mergeable(x) = {}
  <2>1. Len(x) \in Nat
    OBVIOUS
  <2>2. Len(x) + n <= n => 1 .. Len(x) - 1 = {}
    BY <2>1
  <2> QED
    BY <2>2 DEF Mergeable
<1> QED
  BY <1>3, <1>8, <1>9

-----------------------------------------------------------------------------
(* The tokens of a piece.                                                  *)

LEMMA FlattenSingles ==
    ASSUME NEW T, NEW s \in Seq(T), NEW ts \in Seq(Seq(T)), Len(ts) = Len(s),
           \A i \in 1 .. Len(s) : ts[i] = <<s[i]>>
    PROVE  FlattenSeq(ts) = s
<1>1. PICK n \in Nat : n = Len(s) /\ n = Len(ts)
  OBVIOUS
<1> DEFINE S == {k \in 0 .. n : FlattenSeq(SubSeq(ts, 1, k)) = SubSeq(s, 1, k)}
<1>2. 0 \in S
  <2>1. SubSeq(ts, 1, 0) = << >> /\ SubSeq(s, 1, 0) = << >>
    BY SubSeqEmpty
  <2>2. FlattenSeq(SubSeq(ts, 1, 0)) = SubSeq(s, 1, 0)
    BY <2>1, FlattenEmpty, Zenon
  <2> QED
    BY <2>2
<1>3. ASSUME NEW k \in 0 .. n - 1, k \in S PROVE k + 1 \in S
  <2>1. PICK c \in Seq(Seq(T)), x \in Seq(T) :
           c = SubSeq(ts, 1, k) /\ x = ts[k + 1] /\ SubSeq(ts, 1, k + 1) = Append(c, x)
    <3>1. k \in 0 .. Len(ts) - 1
      BY <1>1
    <3> QED
      BY <3>1, BeginningGrows
  <2>2. PICK u \in Seq(T), e \in T :
           u = SubSeq(s, 1, k) /\ e = s[k + 1] /\ SubSeq(s, 1, k + 1) = Append(u, e)
    <3>1. k \in 0 .. Len(s) - 1
      BY <1>1
    <3>2. /\ SubSeq(s, 1, k) \in Seq(T) /\ s[k + 1] \in T
          /\ SubSeq(s, 1, k + 1) = Append(SubSeq(s, 1, k), s[k + 1])
      BY <3>1, BeginningGrows
    <3> QED
      BY <3>2
  <2>3. x = <<e>>
    <3>1. k + 1 \in 1 .. n
      OBVIOUS
    <3> QED
      BY <1>1, <2>1, <2>2, <3>1
  <2>4. FlattenSeq(Append(c, x)) = FlattenSeq(c) \o x
    BY FlattenAppend
  <2>5. FlattenSeq(c) = u
    BY <1>3, <2>1, <2>2
  <2>6. u \o <<e>> = Append(u, e)
    BY AppendIsConcat
  <2>7. k + 1 \in 0 .. n
    OBVIOUS
  <2> QED
    BY <2>1, <2>2, <2>3, <2>4, <2>5, <2>6, <2>7
<1> HIDE DEF S
<1>4. n \in S
  <2>1. \A k \in 0 .. n : k \in S
    BY <1>2, <1>3, UpTo
  <2> QED
    BY <2>1
<1>5. SubSeq(s, 1, n) = s /\ SubSeq(ts, 1, n) = ts
  BY <1>1, SubSeqFull
<1> QED
  BY <1>4, <1>5 DEF S

\* A text is what its bytes spell.
LEMMA CharsSpell ==
    ASSUME NEW s \in Seq(Byte)
    PROVE  Chars(s) \in Seq(Token) /\ FlattenSeq(Chars(s)) = s
<1>1. PICK n \in Nat : n = Len(s)
  OBVIOUS
<1>2. Chars(s) \in Seq(Token) /\ Len(Chars(s)) = n /\ \A i \in 1 .. n : Chars(s)[i] = <<s[i]>>
  <2>1. \A i \in 1 .. n : <<s[i]>> \in Token
    BY <1>1 DEF Token
  <2> QED
    BY <1>1, <2>1 DEF Chars
<1> QED
  BY <1>1, <1>2, FlattenSingles DEF Token

AllTokens == Vocab \cup Specials \cup {Bos}

\* Every byte of t has a token.
Spellable(t) == \A i \in 1 .. Len(t) : <<t[i]>> \in Vocab

\* Tokens are of the vocabulary, and spell a symbol whose bytes have tokens.
LEMMA TokensOfSpell ==
    ASSUME NEW sym \in Token
    PROVE  /\ TokensOf(sym) \in Seq(Vocab)
           /\ Spellable(sym) => FlattenSeq(TokensOf(sym)) = sym
<1>1. sym \in Seq(Byte)
  BY DEF Token
<1>2. PICK n \in Nat : n = Len(sym) /\ DOMAIN sym = 1 .. n
  BY <1>1
<1> DEFINE ts == [i \in DOMAIN sym |-> IF <<sym[i]>> \in Vocab THEN <<<<sym[i]>>>> ELSE << >>]
<1>3. ts \in Seq(Seq(Vocab)) /\ Len(ts) = n
      /\ \A i \in 1 .. n : ts[i] = IF <<sym[i]>> \in Vocab THEN <<<<sym[i]>>>> ELSE << >>
  <2>1. \A i \in 1 .. n : ts[i] = IF <<sym[i]>> \in Vocab THEN <<<<sym[i]>>>> ELSE << >>
    BY <1>2
  <2>2. \A v \in Vocab : <<v>> \in Seq(Vocab)
    OBVIOUS
  <2>3. << >> \in Seq(Vocab)
    OBVIOUS
  <2>4. \A i \in 1 .. n : ts[i] \in Seq(Vocab)
    <3> SUFFICES ASSUME NEW i \in 1 .. n PROVE ts[i] \in Seq(Vocab)
      OBVIOUS
    <3> HIDE DEF ts
    <3> QED
      BY <2>1, <2>2, <2>3
  <2>5. ts = [i \in 1 .. n |-> ts[i]]
    BY <1>2
  <2> HIDE DEF ts
  <2> QED
    BY <2>1, <2>4, <2>5
<1>4. FlattenSeq(ts) \in Seq(Vocab)
  <2> HIDE DEF ts
  <2> QED
    BY <1>3, FlattenType
<1>5. CASE sym \in Vocab
  <2>1. TokensOf(sym) = <<sym>>
    BY <1>5 DEF TokensOf
  <2>2. FlattenSeq(<<sym>>) = sym
    BY <1>1, FlattenSingle
  <2> QED
    BY <1>5, <2>1, <2>2
<1>6. CASE sym \notin Vocab
  <2>1. TokensOf(sym) = FlattenSeq(ts)
    BY <1>6 DEF TokensOf
  <2>2. ASSUME Spellable(sym) PROVE FlattenSeq(FlattenSeq(ts)) = sym
    <3> DEFINE cs == Chars(sym)
               one == [i \in 1 .. n |-> <<cs[i]>>]
    <3>1. cs \in Seq(Token) /\ FlattenSeq(cs) = sym /\ Len(cs) = n
          /\ \A i \in 1 .. n : cs[i] = <<sym[i]>> /\ cs[i] \in Vocab
      <4>1. cs \in Seq(Token) /\ FlattenSeq(cs) = sym
        BY <1>1, CharsSpell
      <4>2. Len(cs) = n /\ \A i \in 1 .. n : cs[i] = <<sym[i]>>
        BY <1>2 DEF Chars
      <4> QED
        BY <1>2, <2>2, <4>1, <4>2 DEF Spellable
    <3> HIDE DEF cs
    <3>2. \A i \in 1 .. n : ts[i] = <<cs[i]>>
      <4> HIDE DEF ts
      <4> QED
        BY <1>3, <3>1
    <3> HIDE DEF ts
    <3>3. ts \in Seq(Seq(Token))
      <4>1. \A i \in 1 .. n : ts[i] \in Seq(Token)
        <5> SUFFICES ASSUME NEW i \in 1 .. n PROVE ts[i] \in Seq(Token)
          OBVIOUS
        <5>1. PICK v \in Token : v = cs[i]
          BY <3>1
        <5>2. ts[i] = <<v>>
          BY <3>2, <5>1
        <5> QED
          BY <5>2
      <4>2. ts = [i \in 1 .. n |-> ts[i]]
        BY <1>3
      <4> QED
        BY <4>1, <4>2
    <3>7. FlattenSeq(ts) = cs
      BY <1>3, <3>1, <3>2, <3>3, FlattenSingles
    <3> QED
      BY <3>1, <3>7
  <2> QED
    BY <1>4, <2>1, <2>2
<1> QED
  BY <1>5, <1>6

\* What is spelled in parts is spelled as a whole.
LEMMA FlattenTwice ==
    ASSUME NEW T, NEW sss \in Seq(Seq(Seq(T))), NEW b \in Seq(Seq(T)), Len(sss) = Len(b),
           \A i \in 1 .. Len(b) : FlattenSeq(sss[i]) = b[i]
    PROVE  FlattenSeq(FlattenSeq(sss)) = FlattenSeq(b)
<1>1. PICK n \in Nat : n = Len(b) /\ n = Len(sss)
  OBVIOUS
<1> DEFINE S == {k \in 0 .. n : FlattenSeq(FlattenSeq(SubSeq(sss, 1, k))) = FlattenSeq(SubSeq(b, 1, k))}
<1>2. 0 \in S
  <2>1. SubSeq(sss, 1, 0) = << >> /\ SubSeq(b, 1, 0) = << >>
    BY SubSeqEmpty
  <2>2. FlattenSeq(FlattenSeq(SubSeq(sss, 1, 0))) = FlattenSeq(SubSeq(b, 1, 0))
    BY <2>1, FlattenEmpty, Zenon
  <2> QED
    BY <2>2
<1>3. ASSUME NEW k \in 0 .. n - 1, k \in S PROVE k + 1 \in S
  <2>1. PICK c \in Seq(Seq(Seq(T))), x \in Seq(Seq(T)) :
           c = SubSeq(sss, 1, k) /\ x = sss[k + 1] /\ SubSeq(sss, 1, k + 1) = Append(c, x)
    <3>1. k \in 0 .. Len(sss) - 1
      BY <1>1
    <3>2. /\ SubSeq(sss, 1, k) \in Seq(Seq(Seq(T))) /\ sss[k + 1] \in Seq(Seq(T))
          /\ SubSeq(sss, 1, k + 1) = Append(SubSeq(sss, 1, k), sss[k + 1])
      BY <3>1, BeginningGrows
    <3> QED
      BY <3>2
  <2>2. PICK u \in Seq(Seq(T)), e \in Seq(T) :
           u = SubSeq(b, 1, k) /\ e = b[k + 1] /\ SubSeq(b, 1, k + 1) = Append(u, e)
    <3>1. k \in 0 .. Len(b) - 1
      BY <1>1
    <3>2. /\ SubSeq(b, 1, k) \in Seq(Seq(T)) /\ b[k + 1] \in Seq(T)
          /\ SubSeq(b, 1, k + 1) = Append(SubSeq(b, 1, k), b[k + 1])
      BY <3>1, BeginningGrows
    <3> QED
      BY <3>2
  <2>3. FlattenSeq(x) = e
    <3>1. k + 1 \in 1 .. n
      OBVIOUS
    <3> QED
      BY <1>1, <2>1, <2>2, <3>1
  <2>4. FlattenSeq(Append(c, x)) = FlattenSeq(c) \o x
    BY <2>1, FlattenAppend
  <2>5. FlattenSeq(c) \in Seq(Seq(T))
    BY <2>1, FlattenType
  <2>6. FlattenSeq(FlattenSeq(c) \o x) = FlattenSeq(FlattenSeq(c)) \o FlattenSeq(x)
    BY <2>1, <2>5, FlattenConcat
  <2>7. FlattenSeq(Append(u, e)) = FlattenSeq(u) \o e
    BY <2>2, FlattenAppend
  <2>8. FlattenSeq(FlattenSeq(c)) = FlattenSeq(u)
    BY <1>3, <2>1, <2>2
  <2>9. FlattenSeq(FlattenSeq(Append(c, x))) = FlattenSeq(Append(u, e))
    BY <2>3, <2>4, <2>6, <2>7, <2>8, Zenon
  <2>10. k + 1 \in 0 .. n
    OBVIOUS
  <2> QED
    BY <2>1, <2>2, <2>9, <2>10
<1> HIDE DEF S
<1>4. n \in S
  <2>1. \A k \in 0 .. n : k \in S
    BY <1>2, <1>3, UpTo
  <2> QED
    BY <2>1
<1>5. SubSeq(b, 1, n) = b /\ SubSeq(sss, 1, n) = sss
  BY <1>1, SubSeqFull
<1> QED
  BY <1>4, <1>5 DEF S

LEMMA Parts ==
    ASSUME NEW T, NEW P, NEW u \in Seq(T), NEW x \in Seq(T), u \o x \in Seq(P)
    PROVE  u \in Seq(P) /\ x \in Seq(P)
<1>1. PICK m \in Nat, n \in Nat : m = Len(u) /\ n = Len(x) /\ Len(u \o x) = m + n
  BY ConcatProperties
<1>2. \A j \in 1 .. m + n : (u \o x)[j] \in P
  BY <1>1
<1>3. ASSUME NEW i \in 1 .. m PROVE u[i] \in P
  <2>1. i \in 1 .. m + n /\ i \in 1 .. Len(u) + Len(x) /\ i <= Len(u)
    BY <1>1
  <2>2. (u \o x)[i] = u[i]
    BY <2>1, ConcatProperties
  <2> QED
    BY <1>2, <2>1, <2>2
<1>4. ASSUME NEW i \in 1 .. n PROVE x[i] \in P
  <2>1. PICK j \in 1 .. m + n : j = m + i /\ j > m /\ j - m = i
    OBVIOUS
  <2>2. j \in 1 .. Len(u) + Len(x) /\ ~ (j <= Len(u)) /\ j - Len(u) = i
    BY <1>1, <2>1
  <2>3. (u \o x)[j] = x[j - Len(u)]
    BY <2>2, ConcatProperties
  <2>4. (u \o x)[j] \in P
    BY <1>2
  <2> QED
    BY <2>2, <2>3, <2>4
<1>5. u = [i \in 1 .. m |-> u[i]] /\ x = [i \in 1 .. n |-> x[i]]
  BY <1>1
<1>6. \A i \in 1 .. m : u[i] \in P
  BY <1>3
<1>7. \A i \in 1 .. n : x[i] \in P
  BY <1>4
<1>8. u \in [1 .. m -> P]
  BY <1>5, <1>6
<1>9. x \in [1 .. n -> P]
  BY <1>5, <1>7
<1> QED
  BY <1>8, <1>9, SeqDef

\* What is spelled with some bytes only was made of these bytes only.
LEMMA FlattenOver ==
    ASSUME NEW T, NEW P, P \subseteq T, NEW ss \in Seq(Seq(T)), FlattenSeq(ss) \in Seq(P)
    PROVE  \A i \in 1 .. Len(ss) : ss[i] \in Seq(P)
<1>1. PICK n \in Nat : n = Len(ss)
  OBVIOUS
<1> DEFINE S == {k \in 0 .. n : FlattenSeq(SubSeq(ss, 1, k)) \in Seq(P)
                                   => \A i \in 1 .. k : ss[i] \in Seq(P)}
<1>2. 0 \in S
  OBVIOUS
<1>3. ASSUME NEW k \in 0 .. n - 1, k \in S PROVE k + 1 \in S
  <2>1. PICK c \in Seq(Seq(T)), x \in Seq(T) :
           c = SubSeq(ss, 1, k) /\ x = ss[k + 1] /\ SubSeq(ss, 1, k + 1) = Append(c, x)
    <3>1. k \in 0 .. Len(ss) - 1
      BY <1>1
    <3>2. /\ SubSeq(ss, 1, k) \in Seq(Seq(T)) /\ ss[k + 1] \in Seq(T)
          /\ SubSeq(ss, 1, k + 1) = Append(SubSeq(ss, 1, k), ss[k + 1])
      BY <3>1, BeginningGrows
    <3> QED
      BY <3>2
  <2>2. PICK u \in Seq(T) : u = FlattenSeq(c) /\ FlattenSeq(Append(c, x)) = u \o x
    <3>1. FlattenSeq(c) \in Seq(T)
      BY <2>1, FlattenType
    <3>2. FlattenSeq(Append(c, x)) = FlattenSeq(c) \o x
      BY <2>1, FlattenAppend
    <3> QED
      BY <3>1, <3>2
  <2>3. u \o x \in Seq(P) => u \in Seq(P) /\ x \in Seq(P)
    BY <2>1, <2>2, Parts
  <2>4. k + 1 \in 0 .. n /\ \A i \in 1 .. k + 1 : i = k + 1 \/ i \in 1 .. k
    OBVIOUS
  <2>5. FlattenSeq(c) \in Seq(P) => \A i \in 1 .. k : ss[i] \in Seq(P)
    BY <1>3, <2>1
  <2> QED
    BY <2>1, <2>2, <2>3, <2>4, <2>5
<1> HIDE DEF S
<1>4. n \in S
  <2>1. \A k \in 0 .. n : k \in S
    BY <1>2, <1>3, UpTo
  <2> QED
    BY <2>1
<1>5. SubSeq(ss, 1, n) = ss
  BY <1>1, SubSeqFull
<1> QED
  BY <1>1, <1>4, <1>5 DEF S

\* The bytes with a token of their own.
Known == {b \in Byte : <<b>> \in Vocab}

LEMMA SpellableIsKnown ==
    ASSUME NEW t \in Token
    PROVE  Spellable(t) <=> t \in Seq(Known)
<1>1. PICK n \in Nat : n = Len(t) /\ \A i \in 1 .. n : t[i] \in Byte
  BY DEF Token
<1>2. Spellable(t) => \A i \in 1 .. n : t[i] \in Known
  BY <1>1 DEF Spellable, Known
<1>3. (\A i \in 1 .. n : t[i] \in Known) => t \in Seq(Known)
  BY <1>1 DEF Token
<1>4. t \in Seq(Known) => \A i \in 1 .. Len(t) : t[i] \in Known
  OBVIOUS
<1>5. (\A i \in 1 .. Len(t) : t[i] \in Known) => Spellable(t)
  BY DEF Spellable, Known
<1> QED
  BY <1>2, <1>3, <1>4, <1>5

\* The tokens of a piece are of the vocabulary and spell it.
LEMMA EncodePieceSpells ==
    ASSUME NEW piece \in Token
    PROVE  /\ EncodePiece(piece) \in Seq(Vocab)
           /\ Spellable(piece) => FlattenSeq(EncodePiece(piece)) = piece
<1>1. PICK syms \in Seq(Token) : syms = MergeAll(Chars(piece)) /\ FlattenSeq(syms) = piece
  BY CharsSpell, MergeAllSpells DEF Token
<1>2. PICK n \in Nat : n = Len(syms) /\ DOMAIN syms = 1 .. n /\ \A i \in 1 .. n : syms[i] \in Token
  OBVIOUS
<1> DEFINE ts == [i \in DOMAIN syms |-> TokensOf(syms[i])]
<1>3. ts = [i \in 1 .. n |-> ts[i]] /\ \A i \in 1 .. n : ts[i] = TokensOf(syms[i])
  BY <1>2
<1>4. EncodePiece(piece) = FlattenSeq(ts)
  BY <1>1 DEF EncodePiece
<1> HIDE DEF ts
<1>5. ts \in Seq(Seq(Vocab)) /\ Len(ts) = n
  <2>1. \A i \in 1 .. n : ts[i] \in Seq(Vocab)
    BY <1>2, <1>3, TokensOfSpell
  <2> QED
    BY <1>3, <2>1
<1>6. FlattenSeq(ts) \in Seq(Vocab)
  BY <1>5, FlattenType
<1>7. ASSUME Spellable(piece) PROVE FlattenSeq(FlattenSeq(ts)) = piece
  <2>1. piece \in Seq(Known)
    BY <1>7, SpellableIsKnown
  <2>2. \A i \in 1 .. n : syms[i] \in Seq(Known)
    <3>1. Known \subseteq Byte
      BY DEF Known
    <3> QED
      BY <1>1, <1>2, <2>1, <3>1, FlattenOver DEF Token
  <2>3. \A i \in 1 .. n : FlattenSeq(ts[i]) = syms[i]
    BY <1>2, <1>3, <2>2, SpellableIsKnown, TokensOfSpell
  <2>4. ts \in Seq(Seq(Token))
    <3>1. Vocab \subseteq Token
      BY TokenizerAssumption DEF Token, Byte
    <3>2. Seq(Vocab) \subseteq Seq(Token)
      BY <3>1, SeqMonotonic
    <3> QED
      BY <1>5, <3>2, SeqMonotonic
  <2>5. syms \in Seq(Seq(Byte)) /\ ts \in Seq(Seq(Seq(Byte)))
    BY <2>4 DEF Token
  <2>6. Len(ts) = Len(syms) /\ \A i \in 1 .. Len(syms) : FlattenSeq(ts[i]) = syms[i]
    BY <1>2, <1>5, <2>3
  <2>7. FlattenSeq(FlattenSeq(ts)) = FlattenSeq(syms)
    BY <2>5, <2>6, FlattenTwice
  <2> QED
    BY <1>1, <2>7
<1> QED
  BY <1>4, <1>6, <1>7


-----------------------------------------------------------------------------
(* Texts taken from left to right: what begins at p gives out[p] and ends   *)
(* before end[p].                                                          *)

Advances(n, V, end, out) ==
    /\ end \in [1 .. n -> 1 .. n + 1] /\ out \in [1 .. n -> Seq(V)]
    /\ \A p \in 1 .. n : p < end[p]

Chain(n, end, out, from) ==
    from = [p \in 1 .. n + 1 |-> IF p > n THEN << >> ELSE out[p] \o from[end[p]]]

LEMMA ChainExists ==
    ASSUME NEW n \in Nat, NEW V, NEW end, NEW out, Advances(n, V, end, out)
    PROVE  \E from : Chain(n, end, out, from)
<1> DEFINE D == 1 .. n + 1
           W == Seq(V)
           m == [p \in D |-> n + 1 - p]
           prev == [p \in D |-> IF p > n THEN p ELSE end[p]]
           base == [p \in D |-> << >>]
           G == [p \in D |-> [v \in W |-> IF p > n THEN v ELSE out[p] \o v]]
<1>1. Recursive(D, W, n, m, prev, base, G)
  <2>1. m \in [D -> 0 .. n] /\ prev \in [D -> D] /\ base \in [D -> W]
    BY DEF Advances
  <2>2. G \in [D -> [W -> W]]
    <3> SUFFICES ASSUME NEW p \in D, NEW v \in W PROVE G[p][v] \in W
      OBVIOUS
    <3>1. CASE p > n
      BY <3>1
    <3>2. CASE ~(p > n)
      <4>1. out[p] \in Seq(V)
        BY <3>2 DEF Advances
      <4> QED
        BY <3>2, <4>1
    <3> QED
      BY <3>1, <3>2
  <2>3. \A d \in D : m[d] # 0 => m[prev[d]] < m[d]
    BY DEF Advances
  <2> HIDE DEF D, W, m, prev, base, G
  <2> QED
    BY <2>1, <2>2, <2>3 DEF Recursive
<1>2. PICK f : Solution(D, W, m, prev, base, G, f)
  <2> HIDE DEF D, W, m, prev, base, G
  <2> QED
    BY <1>1, Recursion
<1>3. f = [p \in D |-> f[p]] /\ \A p \in D : f[p] \in W
  <2> HIDE DEF D, W, m, prev, base, G
  <2> QED
    BY <1>2 DEF Solution
<1>4. ASSUME NEW p \in D PROVE f[p] = IF p > n THEN << >> ELSE out[p] \o f[end[p]]
  <2>1. /\ (m[p] = 0) <=> (p > n)
        /\ base[p] = << >>
        /\ p <= n => prev[p] = end[p] /\ prev[p] \in D /\ \A v \in W : G[p][v] = out[p] \o v
    BY DEF Advances
  <2>2. (p > n) \/ (p <= n)
    OBVIOUS
  <2> HIDE DEF D, W, m, prev, base, G
  <2>3. p > n => f[p] = << >>
    BY <1>2, <1>3, <2>1 DEF Solution
  <2>4. p <= n => f[p] = out[p] \o f[end[p]]
    <3> SUFFICES ASSUME p <= n PROVE f[p] = out[p] \o f[end[p]]
      OBVIOUS
    <3>1. ~(p > n)
      BY DEF D
    <3>2. m[p] # 0
      BY <2>1, <3>1
    <3>3. f[p] = G[p][f[prev[p]]]
      BY <1>2, <3>2 DEF Solution
    <3>4. f[prev[p]] \in W
      BY <1>3, <2>1
    <3> QED
      BY <2>1, <3>3, <3>4
  <2> QED
    BY <2>2, <2>3, <2>4
<1> QED
  BY <1>3, <1>4 DEF Chain

LEMMA ChainStep ==
    ASSUME NEW n \in Nat, NEW V, NEW end, NEW out, NEW from,
           Advances(n, V, end, out), Chain(n, end, out, from)
    PROVE  /\ \A p \in 1 .. n + 1 : p > n => from[p] = << >>
           /\ \A p \in 1 .. n : /\ from[p] = out[p] \o from[end[p]]
                                 /\ end[p] \in 1 .. n + 1 /\ p < end[p]
                                 /\ out[p] \in Seq(V)
<1>1. \A p \in 1 .. n + 1 : from[p] = IF p > n THEN << >> ELSE out[p] \o from[end[p]]
  BY DEF Chain
<1>2. \A p \in 1 .. n : p \in 1 .. n + 1 /\ ~(p > n)
  OBVIOUS
<1>3. \A p \in 1 .. n : from[p] = out[p] \o from[end[p]]
  <2> SUFFICES ASSUME NEW p \in 1 .. n PROVE from[p] = out[p] \o from[end[p]]
    OBVIOUS
  <2>1. p \in 1 .. n + 1 /\ ~(p > n)
    BY <1>2
  <2> QED
    BY <1>1, <2>1, Zenon
<1>4. \A p \in 1 .. n : end[p] \in 1 .. n + 1 /\ p < end[p] /\ out[p] \in Seq(V)
  BY DEF Advances
<1> QED
  BY <1>1, <1>3, <1>4

\* What holds of all of the out[p] holds of what the chain gives.
LEMMA ChainType ==
    ASSUME NEW n \in Nat, NEW V, NEW end, NEW out, NEW from,
           Advances(n, V, end, out), Chain(n, end, out, from)
    PROVE  \A p \in 1 .. n + 1 : from[p] \in Seq(V)
<1> DEFINE S == {k \in 0 .. n : \A p \in 1 .. n + 1 : n + 1 - p <= k => from[p] \in Seq(V)}
<1>1. /\ \A p \in 1 .. n + 1 : p > n => from[p] = << >>
      /\ \A p \in 1 .. n : from[p] = out[p] \o from[end[p]] /\ end[p] \in 1 .. n + 1 /\ p < end[p]
                           /\ out[p] \in Seq(V)
  BY ChainStep
<1>2. 0 \in S
  <2> SUFFICES ASSUME NEW p \in 1 .. n + 1, n + 1 - p <= 0 PROVE from[p] \in Seq(V)
    OBVIOUS
  <2>1. p > n
    OBVIOUS
  <2>2. from[p] = << >>
    BY <1>1, <2>1
  <2> QED
    BY <2>2
<1>3. ASSUME NEW k \in 0 .. n - 1, k \in S PROVE k + 1 \in S
  <2> SUFFICES ASSUME NEW p \in 1 .. n + 1, n + 1 - p <= k + 1 PROVE from[p] \in Seq(V)
    OBVIOUS
  <2>1. CASE p > n
    <3>1. from[p] = << >>
      BY <1>1, <2>1
    <3> QED
      BY <3>1
  <2>2. CASE p <= n
    <3>1. PICK q \in 1 .. n + 1 : q = end[p] /\ p < q /\ from[p] = out[p] \o from[q]
                                  /\ out[p] \in Seq(V)
      <4>1. p \in 1 .. n
        BY <2>2
      <4> QED
        BY <1>1, <4>1
    <3>2. from[q] \in Seq(V)
      BY <1>3, <3>1
    <3> QED
      BY <3>1, <3>2
  <2> QED
    BY <2>1, <2>2
<1> HIDE DEF S
<1>4. n \in S
  <2>1. \A k \in 0 .. n : k \in S
    BY <1>2, <1>3, UpTo
  <2> QED
    BY <2>1
<1> QED
  BY <1>4 DEF S

\* Where the parts spell what they stand for, so does the chain.
LEMMA ChainSpells ==
    ASSUME NEW T, NEW t \in Seq(T), NEW n \in Nat, n = Len(t), NEW end, NEW out, NEW from,
           Advances(n, Seq(T), end, out), Chain(n, end, out, from),
           \A p \in 1 .. n : FlattenSeq(out[p]) = SubSeq(t, p, end[p] - 1)
    PROVE  FlattenSeq(from[1]) = t
<1> DEFINE S == {k \in 0 .. n : \A p \in 1 .. n + 1 :
                    n + 1 - p <= k => FlattenSeq(from[p]) = SubSeq(t, p, n)}
<1>1. /\ \A p \in 1 .. n + 1 : p > n => from[p] = << >>
      /\ \A p \in 1 .. n : from[p] = out[p] \o from[end[p]] /\ end[p] \in 1 .. n + 1 /\ p < end[p]
                           /\ out[p] \in Seq(Seq(T))
  <2> DEFINE V == Seq(T)
  <2>1. Advances(n, V, end, out)
    OBVIOUS
  <2> HIDE DEF V
  <2>2. /\ \A p \in 1 .. n + 1 : p > n => from[p] = << >>
        /\ \A p \in 1 .. n : /\ from[p] = out[p] \o from[end[p]]
                              /\ end[p] \in 1 .. n + 1 /\ p < end[p]
                              /\ out[p] \in Seq(V)
    BY <2>1, ChainStep
  <2> QED
    BY <2>2 DEF V
<1>2. \A p \in 1 .. n + 1 : from[p] \in Seq(Seq(T))
  BY ChainType
<1>3. ASSUME NEW p \in 1 .. n + 1, p > n PROVE FlattenSeq(from[p]) = SubSeq(t, p, n)
  <2>1. from[p] = << >> /\ SubSeq(t, p, n) = << >>
    BY <1>1, <1>3, SubSeqEmpty
  <2> QED
    BY <2>1, FlattenEmpty, Zenon
<1>4. 0 \in S
  BY <1>3
<1>5. ASSUME NEW k \in 0 .. n - 1, k \in S PROVE k + 1 \in S
  <2> SUFFICES ASSUME NEW p \in 1 .. n + 1, n + 1 - p <= k + 1
               PROVE  FlattenSeq(from[p]) = SubSeq(t, p, n)
    OBVIOUS
  <2>1. CASE p > n
    BY <1>3, <2>1
  <2>2. CASE p <= n
    <3>1. PICK q \in 1 .. n + 1 : q = end[p] /\ p < q /\ from[p] = out[p] \o from[q]
                                  /\ out[p] \in Seq(Seq(T)) /\ FlattenSeq(out[p]) = SubSeq(t, p, q - 1)
      <4>1. p \in 1 .. n
        BY <2>2
      <4> QED
        BY <1>1, <4>1
    <3>2. FlattenSeq(from[q]) = SubSeq(t, q, n) /\ from[q] \in Seq(Seq(T))
      <4>1. n + 1 - q <= k
        BY <3>1
      <4>2. \A r \in 1 .. n + 1 : n + 1 - r <= k => FlattenSeq(from[r]) = SubSeq(t, r, n)
        BY <1>5
      <4> QED
        BY <1>2, <4>1, <4>2
    <3>3. FlattenSeq(out[p] \o from[q]) = FlattenSeq(out[p]) \o FlattenSeq(from[q])
      BY <3>1, <3>2, FlattenConcat
    <3>4. PICK k1 \in p - 1 .. Len(t) : k1 = q - 1 /\ k1 + 1 = q /\ Len(t) \in k1 .. Len(t) /\ p \in 1 .. Len(t) + 1
      <4>1. q - 1 \in p - 1 .. Len(t) /\ (q - 1) + 1 = q /\ Len(t) \in q - 1 .. Len(t)
            /\ p \in 1 .. Len(t) + 1
        BY <3>1
      <4> QED
        BY <4>1
    <3>5. SubSeq(t, p, k1) \o SubSeq(t, k1 + 1, Len(t)) = SubSeq(t, p, Len(t))
      BY <3>4, ConcatAdjacentSubSeq
    <3> QED
      BY <3>1, <3>2, <3>3, <3>4, <3>5
  <2> QED
    BY <2>1, <2>2
<1> HIDE DEF S
<1>6. n \in S
  <2>1. \A k \in 0 .. n : k \in S
    BY <1>4, <1>5, UpTo
  <2> QED
    BY <2>1
<1>7. FlattenSeq(from[1]) = SubSeq(t, 1, n)
  BY <1>6 DEF S
<1> QED
  BY <1>7, SubSeqFull

-----------------------------------------------------------------------------
(* The pieces of a text.                                                   *)

LEMMA RunEndIs ==
    ASSUME NEW t \in Token, NEW p \in 1 .. Len(t) + 1, NEW cs
    PROVE  /\ RunEnd(t, p, cs) \in p .. Len(t) + 1
           /\ \A k \in p .. RunEnd(t, p, cs) - 1 : Class(t[k]) \in cs
           /\ p <= Len(t) /\ Class(t[p]) \in cs => p < RunEnd(t, p, cs)
<1>1. PICK n \in Nat : n = Len(t)
  BY DEF Token
<1> DEFINE S == {q \in p .. n + 1 : q = n + 1 \/ Class(t[q]) \notin cs}
<1>2. RunEnd(t, p, cs) = Min(S)
  BY <1>1 DEF RunEnd
<1>3. S \in SUBSET Nat /\ S # {}
  <2>1. n + 1 \in S
    BY <1>1
  <2> QED
    BY <1>1, <2>1
<1>4. Min(S) \in S /\ \A y \in S : Min(S) <= y
  <2> HIDE DEF S
  <2> QED
    BY <1>3, MinExists
<1>5. PICK e \in p .. n + 1 : /\ e = RunEnd(t, p, cs) /\ (e = n + 1 \/ Class(t[e]) \notin cs)
                              /\ \A y \in S : e <= y
  BY <1>2, <1>4
<1>6. \A k \in p .. e - 1 : k \in p .. n + 1 /\ k # n + 1 /\ ~(e <= k)
  BY <1>1
<1>7. \A k \in p .. e - 1 : Class(t[k]) \in cs
  BY <1>5, <1>6
<1>8. p <= n /\ Class(t[p]) \in cs => p # e
  BY <1>5
<1> QED
  BY <1>1, <1>5, <1>7, <1>8

\* Where the word of a piece that begins at p begins.
BodyStart(t, p) == IF t[p] \in {Blank, Quote} THEN p + 1 ELSE p

\* What lies before e from p on is one word, one number, or neither.
OneWord(t, p, e) ==
    \/ \A k \in BodyStart(t, p) .. e - 1 : Class(t[k]) = "L"
    \/ e <= p + 3 /\ \A k \in p .. e - 1 : Class(t[k]) = "N"
    \/ \A k \in BodyStart(t, p) .. e - 1 : Class(t[k]) \notin {"L", "N"}

LEMMA Classes ==
    /\ \A b : Class(b) \in {"L", "N", "S", "R", "P"}
    /\ Class(Blank) = "S" /\ Class(Quote) = "P"
    /\ \A b : Class(b) = "L" <=> b \in Letters
  BY TokenizerAssumption DEF Class

\* A piece is not empty, ends within the text, and is one word.
LEMMA PieceIsWord ==
    ASSUME NEW t \in Token, NEW p \in 1 .. Len(t)
    PROVE  /\ PieceEnd(t, p) \in p + 1 .. Len(t) + 1
           /\ OneWord(t, p, PieceEnd(t, p))
<1>1. PICK n \in Nat : n = Len(t) /\ p \in 1 .. n
  BY DEF Token
<1> DEFINE q == IF t[p] = Blank THEN p + 1 ELSE p
           e == PieceEnd(t, p)
           Short == t[p] = Quote /\ p < Len(t) /\ t[p + 1] \in OneEnding
           Double == t[p] = Quote /\ p + 1 < Len(t) /\ SubSeq(t, p + 1, p + 2) \in TwoEndings
           Word == ClassAt(t, q) = "L"
           Number == Class(t[p]) = "N"
           Lines == Class(t[p]) = "R"
           Marks == ClassAt(t, q) = "P"
<1>2. e = IF Short THEN p + 2
          ELSE IF Double THEN p + 3
          ELSE IF Word THEN RunEnd(t, q, {"L"})
          ELSE IF Number THEN Min({p + 3, RunEnd(t, p, {"N"})})
          ELSE IF Lines THEN RunEnd(t, p, {"R", "S"})
          ELSE IF Marks THEN RunEnd(t, RunEnd(t, q, {"P"}), {"R"})
          ELSE RunEnd(t, p, {"S"})
  BY DEF PieceEnd
<1>3. q \in 1 .. n + 1 /\ q \in 1 .. Len(t) + 1 /\ p <= q /\ q <= p + 1 /\ p \in 1 .. Len(t) + 1
      /\ BodyStart(t, p) \in p .. p + 1 /\ q <= BodyStart(t, p)
  BY <1>1 DEF BodyStart
<1>4. ClassAt(t, q) # "end" => q \in 1 .. n /\ q <= Len(t) /\ ClassAt(t, q) = Class(t[q])
  BY <1>1, <1>3 DEF ClassAt
<1> HIDE DEF q, e
<1>5. CASE Short
  <2>1. e = p + 2
    BY <1>2, <1>5
  <2>2. e = p + 2 /\ BodyStart(t, p) = p + 1 /\ p + 1 \in 1 .. n
    BY <1>1, <1>5, <2>1 DEF BodyStart
  <2>3. Class(t[p + 1]) = "L"
    BY <1>5, Classes, TokenizerAssumption
  <2>4. \A k \in BodyStart(t, p) .. e - 1 : k = p + 1
    BY <2>2
  <2>5. e \in p + 1 .. Len(t) + 1
    BY <1>1, <2>2
  <2>6. OneWord(t, p, e)
    BY <2>3, <2>4, Zenon DEF OneWord
  <2> QED
    BY <2>5, <2>6 DEF e
<1>6. CASE ~Short /\ Double
  <2>1. e = p + 3
    BY <1>2, <1>6
  <2>2. BodyStart(t, p) = p + 1 /\ p + 2 \in 1 .. n
    BY <1>1, <1>6 DEF BodyStart
  <2>3. PICK two \in Seq(Letters) : two = SubSeq(t, p + 1, p + 2)
    BY <1>6, TokenizerAssumption
  <2>4. two[1] = t[p + 1] /\ two[2] = t[p + 2] /\ Len(two) = 2
    <3>1. PICK a \in 1 .. n : a = p + 1
      BY <2>2
    <3>2. PICK b \in 1 .. n : b = p + 2 /\ b = a + 1
      BY <2>2, <3>1
    <3> QED
      BY <1>1, <2>3, <3>1, <3>2 DEF Token
  <2>5. Class(t[p + 1]) = "L" /\ Class(t[p + 2]) = "L"
    <3>1. two[1] \in Letters /\ two[2] \in Letters
      BY <2>4
    <3> QED
      BY <2>4, <3>1, Classes
  <2>6. \A k \in BodyStart(t, p) .. e - 1 : k = p + 1 \/ k = p + 2
    BY <2>1, <2>2
  <2>7. e \in p + 1 .. Len(t) + 1
    BY <1>1, <2>1, <2>2
  <2>8. OneWord(t, p, e)
    BY <2>5, <2>6, Zenon DEF OneWord
  <2> QED
    BY <2>7, <2>8 DEF e
<1>7. CASE ~Short /\ ~Double
  <2> HIDE DEF Short, Double
  <2>0. e = IF Word THEN RunEnd(t, q, {"L"})
            ELSE IF Number THEN Min({p + 3, RunEnd(t, p, {"N"})})
            ELSE IF Lines THEN RunEnd(t, p, {"R", "S"})
            ELSE IF Marks THEN RunEnd(t, RunEnd(t, q, {"P"}), {"R"})
            ELSE RunEnd(t, p, {"S"})
    BY <1>2, <1>7
  <2>1. CASE Word
    <3>1. e = RunEnd(t, q, {"L"})
      BY <2>0, <2>1
    <3>2. Class(t[q]) = "L" /\ q \in 1 .. n
      BY <1>4, <2>1
    <3>3. e \in q .. Len(t) + 1 /\ q < e /\ \A k \in q .. e - 1 : Class(t[k]) \in {"L"}
      BY <1>1, <1>3, <3>1, <3>2, RunEndIs
    <3>4. \A k \in BodyStart(t, p) .. e - 1 : k \in q .. e - 1
      BY <1>1, <1>3, <3>2, <3>3
    <3>5. e \in p + 1 .. Len(t) + 1
      BY <1>1, <1>3, <3>3
    <3>6. OneWord(t, p, e)
      BY <3>3, <3>4 DEF OneWord
    <3> QED
      BY <3>5, <3>6 DEF e
  <2>2. CASE ~Word /\ Number
    <3> DEFINE r == RunEnd(t, p, {"N"})
    <3>1. r \in p .. Len(t) + 1 /\ p < r /\ \A k \in p .. r - 1 : Class(t[k]) \in {"N"}
      BY <1>1, <1>3, <2>2, RunEndIs
    <3>2. e = Min({p + 3, r})
      BY <2>0, <2>2
    <3> HIDE DEF r
    <3>3. Min({p + 3, r}) \in {p + 3, r} /\ \A y \in {p + 3, r} : Min({p + 3, r}) <= y
      <4>1. {p + 3, r} \in SUBSET Nat
        BY <1>1, <3>1
      <4> QED
        BY <4>1, MinExists
    <3>4. e \in {p + 3, r} /\ e <= p + 3 /\ e <= r
      BY <3>2, <3>3
    <3>5. e \in p + 1 .. Len(t) + 1
      BY <1>1, <3>1, <3>4
    <3>6. \A k \in p .. e - 1 : k \in p .. r - 1
      BY <1>1, <3>1, <3>4
    <3>7. OneWord(t, p, e)
      BY <3>1, <3>4, <3>6 DEF OneWord
    <3> QED
      BY <3>5, <3>7 DEF e
  <2>3. CASE ~Word /\ ~Number /\ Lines
    <3>1. e = RunEnd(t, p, {"R", "S"})
      BY <2>0, <2>3
    <3>2. e \in p .. Len(t) + 1 /\ p < e /\ \A k \in p .. e - 1 : Class(t[k]) \in {"R", "S"}
      BY <1>1, <1>3, <2>3, <3>1, RunEndIs
    <3>3. \A k \in BodyStart(t, p) .. e - 1 : k \in p .. e - 1
      BY <1>1, <1>3, <3>2
    <3>4. e \in p + 1 .. Len(t) + 1
      BY <1>1, <3>2
    <3>5. OneWord(t, p, e)
      BY <3>2, <3>3 DEF OneWord
    <3> QED
      BY <3>4, <3>5 DEF e
  <2>4. CASE ~Word /\ ~Number /\ ~Lines /\ Marks
    <3> DEFINE r == RunEnd(t, q, {"P"})
    <3>1. Class(t[q]) = "P" /\ q \in 1 .. n
      BY <1>4, <2>4
    <3>2. r \in q .. Len(t) + 1 /\ q < r /\ \A k \in q .. r - 1 : Class(t[k]) \in {"P"}
      BY <1>1, <1>3, <3>1, RunEndIs
    <3>3. e = RunEnd(t, r, {"R"})
      BY <2>0, <2>4
    <3> HIDE DEF r
    <3>4. r \in 1 .. Len(t) + 1
      BY <1>1, <3>1, <3>2
    <3>5. e \in r .. Len(t) + 1 /\ \A k \in r .. e - 1 : Class(t[k]) \in {"R"}
      BY <3>3, <3>4, RunEndIs
    <3>6. \A k \in BodyStart(t, p) .. e - 1 : k \in q .. r - 1 \/ k \in r .. e - 1
      BY <1>1, <1>3, <3>1, <3>2, <3>5
    <3>7. e \in p + 1 .. Len(t) + 1
      BY <1>1, <1>3, <3>1, <3>2, <3>5
    <3>8. OneWord(t, p, e)
      BY <3>2, <3>5, <3>6 DEF OneWord
    <3> QED
      BY <3>7, <3>8 DEF e
  <2>5. CASE ~Word /\ ~Number /\ ~Lines /\ ~Marks
    <3>1. e = RunEnd(t, p, {"S"})
      BY <2>0, <2>5
    <3>2. Class(t[p]) = "S"
      <4>1. CASE t[p] = Blank
        BY <4>1, Classes
      <4>2. CASE t[p] # Blank
        <5>1. ClassAt(t, q) = Class(t[p])
          BY <1>1, <4>2 DEF q, ClassAt
        <5> QED
          BY <2>5, <5>1, Classes
      <4> QED
        BY <4>1, <4>2
    <3>3. e \in p .. Len(t) + 1 /\ p < e /\ \A k \in p .. e - 1 : Class(t[k]) \in {"S"}
      BY <1>1, <1>3, <3>1, <3>2, RunEndIs
    <3>4. \A k \in BodyStart(t, p) .. e - 1 : k \in p .. e - 1
      BY <1>1, <1>3, <3>3
    <3>5. e \in p + 1 .. Len(t) + 1
      BY <1>1, <3>3
    <3>6. OneWord(t, p, e)
      BY <3>3, <3>4 DEF OneWord
    <3> QED
      BY <3>5, <3>6 DEF e
  <2> QED
    BY <2>1, <2>2, <2>3, <2>4, <2>5
<1> QED
  BY <1>5, <1>6, <1>7

\* The pieces are those of the text, one after the other.
LEMMA PiecesCut ==
    ASSUME NEW t \in Token
    PROVE  /\ Pieces(t) \in Seq({SubSeq(t, p, PieceEnd(t, p) - 1) : p \in 1 .. Len(t)})
           /\ Pieces(t) \in Seq(Token)
           /\ FlattenSeq(Pieces(t)) = t
<1>1. PICK n \in Nat : n = Len(t)
  BY DEF Token
<1> DEFINE piece(p) == SubSeq(t, p, PieceEnd(t, p) - 1)
           V == {piece(p) : p \in 1 .. n}
           end == [p \in 1 .. n |-> PieceEnd(t, p)]
           out == [p \in 1 .. n |-> <<piece(p)>>]
           Taken(f) == f = [p \in 1 .. Len(t) + 1 |->
                               IF p > Len(t) THEN << >>
                               ELSE LET q == PieceEnd(t, p) IN <<SubSeq(t, p, q - 1)>> \o f[q]]
<1>2. \A p \in 1 .. n : PieceEnd(t, p) \in 1 .. n + 1 /\ p < PieceEnd(t, p)
  <2> SUFFICES ASSUME NEW p \in 1 .. n PROVE PieceEnd(t, p) \in 1 .. n + 1 /\ p < PieceEnd(t, p)
    OBVIOUS
  <2>1. PieceEnd(t, p) \in p + 1 .. n + 1
    BY <1>1, PieceIsWord
  <2> QED
    BY <2>1
<1>3. V \in SUBSET Token
  <2> SUFFICES ASSUME NEW p \in 1 .. n PROVE piece(p) \in Token
    OBVIOUS
  <2>1. PICK e \in 1 .. n + 1 : e = PieceEnd(t, p)
    BY <1>2
  <2>2. e - 1 \in 0 .. n
    OBVIOUS
  <2>3. \A i \in p .. e - 1 : t[i] \in Byte
    BY <1>1, <2>2 DEF Token
  <2>4. SubSeq(t, p, e - 1) \in Seq(Byte)
    BY <2>2, <2>3, SubSeqProperties
  <2> QED
    BY <2>1, <2>4 DEF Token
<1>4. Advances(n, V, end, out)
  <2>1. ASSUME NEW p \in 1 .. n PROVE <<piece(p)>> \in Seq(V)
    <3> HIDE DEF piece
    <3>1. piece(p) \in V
      OBVIOUS
    <3> HIDE DEF V
    <3> QED
      BY <3>1
  <2> QED
    BY <1>2, <2>1 DEF Advances
<1>5. PICK g : Chain(n, end, out, g)
  <2> HIDE DEF V, end, out
  <2> QED
    BY <1>4, ChainExists
<1>6. \A f : Taken(f) <=> Chain(n, end, out, f)
  <2>1. \A p \in 1 .. n : out[p] = <<piece(p)>> /\ end[p] = PieceEnd(t, p)
    <3> HIDE DEF piece
    <3>1. ASSUME NEW p \in 1 .. n PROVE out[p] = <<piece(p)>>
      BY Zenon
    <3>2. ASSUME NEW p \in 1 .. n PROVE end[p] = PieceEnd(t, p)
      BY Zenon
    <3> QED
      BY <3>1, <3>2, Zenon
  <2> HIDE DEF V, end, out
  <2>2. ASSUME NEW f
        PROVE  \A p \in 1 .. n + 1 :
                 (IF p > Len(t) THEN << >>
                  ELSE LET q == PieceEnd(t, p) IN <<SubSeq(t, p, q - 1)>> \o f[q])
                 = IF p > n THEN << >> ELSE out[p] \o f[end[p]]
    <3> SUFFICES ASSUME NEW p \in 1 .. n + 1, ~(p > n)
                 PROVE  (LET q == PieceEnd(t, p) IN <<SubSeq(t, p, q - 1)>> \o f[q]) = out[p] \o f[end[p]]
      BY <1>1
    <3>1. p \in 1 .. n
      OBVIOUS
    <3>2. out[p] = <<piece(p)>> /\ end[p] = PieceEnd(t, p)
      BY <2>1, <3>1
    <3> QED
      BY <3>2, Zenon
  <2> QED
    BY <1>1, <2>2 DEF Chain
<1> DEFINE from == CHOOSE from : Taken(from)
<1>7. Taken(from)
  <2> HIDE DEF Taken
  <2> QED
    BY <1>5, <1>6, Zenon
<1>8. Pieces(t) = from[1]
  BY Zenon DEF Pieces
<1> HIDE DEF from
<1>9. Chain(n, end, out, from)
  BY <1>6, <1>7
<1>10. from[1] \in Seq(V)
  <2> HIDE DEF V, end, out
  <2> QED
    BY <1>4, <1>9, ChainType
<1>11. from[1] \in Seq(Token)
  <2> HIDE DEF V
  <2> QED
    BY <1>3, <1>10, SeqMonotonic
<1>12. Advances(n, Seq(Byte), end, out)
  <2>1. \A p \in 1 .. n : <<piece(p)>> \in Seq(Seq(Byte))
    <3> SUFFICES ASSUME NEW p \in 1 .. n PROVE <<piece(p)>> \in Seq(Seq(Byte))
      OBVIOUS
    <3>1. piece(p) \in Seq(Byte)
      BY <1>3 DEF Token
    <3> HIDE DEF piece
    <3> QED
      BY <3>1
  <2> QED
    BY <1>2, <2>1 DEF Advances
<1>13. \A p \in 1 .. n : FlattenSeq(out[p]) = SubSeq(t, p, end[p] - 1)
  <2> SUFFICES ASSUME NEW p \in 1 .. n PROVE FlattenSeq(out[p]) = SubSeq(t, p, end[p] - 1)
    OBVIOUS
  <2>1. piece(p) \in Seq(Byte)
    BY <1>3 DEF Token
  <2>2. FlattenSeq(<<piece(p)>>) = piece(p)
    <3> HIDE DEF piece
    <3> QED
      BY <2>1, FlattenSingle
  <2> QED
    BY <2>2
<1>14. FlattenSeq(from[1]) = t
  <2>1. t \in Seq(Byte)
    BY DEF Token
  <2> HIDE DEF V, end, out
  <2> QED
    BY <1>1, <1>9, <1>12, <1>13, <2>1, ChainSpells
<1> QED
  BY <1>1, <1>8, <1>10, <1>11, <1>14

\* Whatever the text, a piece is one word with at most one blank before it, a
\* number of up to three digits, a contraction, or neither letters nor digits.
THEOREM SplitsWell == \A t \in Token : WellSplit(t)
<1> SUFFICES ASSUME NEW t \in Token, NEW i \in DOMAIN Pieces(t)
             PROVE  LET piece == Pieces(t)[i]
                        body  == IF piece[1] \in {Blank, Quote} THEN Tail(piece) ELSE piece
                        cs    == {Class(body[k]) : k \in DOMAIN body}
                    IN  /\ piece # << >>
                        /\ "N" \in cs => cs = {"N"} /\ Len(piece) <= 3
                        /\ "L" \in cs => cs = {"L"}
  BY DEF WellSplit
<1>1. PICK n \in Nat : n = Len(t) /\ \A k \in 1 .. n : t[k] \in Byte
  BY DEF Token
<1>2. PICK p \in 1 .. n : Pieces(t)[i] = SubSeq(t, p, PieceEnd(t, p) - 1)
  <2>1. Pieces(t) \in Seq({SubSeq(t, p, PieceEnd(t, p) - 1) : p \in 1 .. n})
    BY <1>1, PiecesCut
  <2>2. Pieces(t)[i] \in {SubSeq(t, p, PieceEnd(t, p) - 1) : p \in 1 .. n}
    <3> DEFINE V == {SubSeq(t, p, PieceEnd(t, p) - 1) : p \in 1 .. n}
    <3>1. Pieces(t) \in Seq(V)
      BY <2>1
    <3> HIDE DEF V
    <3>2. Pieces(t)[i] \in V
      BY <3>1
    <3> QED
      BY <3>2 DEF V
  <2> QED
    BY <2>2
<1>3. PICK e \in p + 1 .. n + 1 : e = PieceEnd(t, p) /\ OneWord(t, p, e)
  BY <1>1, PieceIsWord
<1>4. PICK len \in Nat : len = e - p /\ len > 0
  OBVIOUS
<1>5. PICK piece \in Seq(Byte) :
         /\ piece = Pieces(t)[i] /\ Len(piece) = len
         /\ \A k \in 1 .. len : piece[k] = t[p + k - 1]
  <2>1. e - 1 \in Int /\ p <= e - 1 /\ (e - 1) - p + 1 = len
    BY <1>4
  <2>2. \A k \in p .. e - 1 : t[k] \in Byte
    BY <1>1
  <2>3. /\ SubSeq(t, p, e - 1) \in Seq(Byte) /\ Len(SubSeq(t, p, e - 1)) = len
        /\ \A k \in 1 .. len : SubSeq(t, p, e - 1)[k] = t[p + k - 1]
    BY <2>1, <2>2, SubSeqProperties
  <2> QED
    BY <1>2, <1>3, <2>3
<1> DEFINE body == IF piece[1] \in {Blank, Quote} THEN Tail(piece) ELSE piece
           cs == {Class(body[k]) : k \in DOMAIN body}
<1>6. piece[1] = t[p] /\ piece # << >>
  BY <1>4, <1>5
<1>7. cs \subseteq {Class(t[k]) : k \in BodyStart(t, p) .. e - 1}
  <2> SUFFICES ASSUME NEW k \in DOMAIN body
               PROVE  \E j \in BodyStart(t, p) .. e - 1 : body[k] = t[j]
    OBVIOUS
  <2>1. CASE piece[1] \in {Blank, Quote}
    <3>1. body = Tail(piece) /\ BodyStart(t, p) = p + 1
      BY <1>6, <2>1 DEF BodyStart
    <3>2. k \in 1 .. len - 1
      BY <1>4, <1>5, <1>6, <3>1
    <3>3. PICK j \in 1 .. len : j = k + 1
      BY <3>2
    <3>4. body[k] = piece[j]
      BY <1>5, <1>6, <3>1, <3>2, <3>3
    <3>5. PICK h \in BodyStart(t, p) .. e - 1 : h = p + j - 1
      BY <1>4, <3>1, <3>2, <3>3
    <3> QED
      BY <1>5, <3>4, <3>5
  <2>2. CASE piece[1] \notin {Blank, Quote}
    <3>1. body = piece /\ BodyStart(t, p) = p
      BY <1>6, <2>2 DEF BodyStart
    <3>2. k \in 1 .. len
      BY <1>5, <3>1
    <3>3. PICK h \in BodyStart(t, p) .. e - 1 : h = p + k - 1
      BY <1>4, <3>1, <3>2
    <3> QED
      BY <1>5, <3>1, <3>2, <3>3
  <2> QED
    BY <2>1, <2>2
<1>8. BodyStart(t, p) .. e - 1 \subseteq p .. e - 1
  BY DEF BodyStart
<1>9. /\ "N" \in cs => cs = {"N"} /\ Len(piece) <= 3
      /\ "L" \in cs => cs = {"L"}
  <2> HIDE DEF cs
  <2>1. CASE \A k \in BodyStart(t, p) .. e - 1 : Class(t[k]) = "L"
    BY <1>7, <2>1
  <2>2. CASE e <= p + 3 /\ \A k \in p .. e - 1 : Class(t[k]) = "N"
    <3>1. cs \subseteq {"N"}
      BY <1>7, <1>8, <2>2
    <3>2. Len(piece) <= 3
      BY <1>4, <1>5, <2>2
    <3> QED
      BY <3>1, <3>2
  <2>3. CASE \A k \in BodyStart(t, p) .. e - 1 : Class(t[k]) \notin {"L", "N"}
    BY <1>7, <2>3
  <2> QED
    BY <1>3, <2>1, <2>2, <2>3 DEF OneWord
<1> QED
  BY <1>5, <1>6, <1>9

-----------------------------------------------------------------------------
(* What is encoded decodes to what it was.                                 *)

VocabIsTokens == Vocab \subseteq Token /\ Specials \subseteq Token /\ Bos \in Token

LEMMA TokensAreTexts == VocabIsTokens
  BY TokenizerAssumption DEF VocabIsTokens, Token, Byte

\* A part of a text whose bytes have tokens is such a text.
LEMMA PartsSpellable ==
    ASSUME NEW t \in Token, Spellable(t), NEW a \in 1 .. Len(t), NEW b \in 0 .. Len(t)
    PROVE  SubSeq(t, a, b) \in Token /\ Spellable(SubSeq(t, a, b))
<1>1. PICK n \in Nat : n = Len(t) /\ t \in Seq(Byte)
  BY DEF Token
<1>2. t \in Seq(Known)
  BY SpellableIsKnown
<1>3. \A i \in a .. b : i \in 1 .. n
  BY <1>1
<1>4. (\A i \in a .. b : t[i] \in Byte) /\ (\A i \in a .. b : t[i] \in Known)
  BY <1>1, <1>2, <1>3
<1>5. a \in Int /\ b \in Int
  BY <1>1
<1>6. SubSeq(t, a, b) \in Seq(Byte)
  BY <1>4, <1>5, SubSeqProperties
<1>7. SubSeq(t, a, b) \in Seq(Known)
  BY <1>4, <1>5, SubSeqProperties
<1> QED
  BY <1>6, <1>7, SpellableIsKnown DEF Token

LEMMA EncodeSegmentSpells ==
    ASSUME NEW t \in Token
    PROVE  /\ EncodeSegment(t) \in Seq(Vocab)
           /\ Spellable(t) => FlattenSeq(EncodeSegment(t)) = t
<1>1. PICK ps \in Seq(Token) : ps = Pieces(t) /\ FlattenSeq(ps) = t
  BY PiecesCut
<1>2. PICK n \in Nat : n = Len(ps) /\ DOMAIN ps = 1 .. n /\ \A i \in 1 .. n : ps[i] \in Token
  OBVIOUS
<1> DEFINE ts == [i \in DOMAIN ps |-> EncodePiece(ps[i])]
<1>3. ts = [i \in 1 .. n |-> ts[i]] /\ \A i \in 1 .. n : ts[i] = EncodePiece(ps[i])
  BY <1>2
<1>4. EncodeSegment(t) = FlattenSeq(ts)
  BY <1>1, Zenon DEF EncodeSegment
<1> HIDE DEF ts
<1>5. ts \in Seq(Seq(Vocab)) /\ Len(ts) = n
  <2>1. \A i \in 1 .. n : ts[i] \in Seq(Vocab)
    BY <1>2, <1>3, EncodePieceSpells
  <2> QED
    BY <1>3, <2>1
<1>6. FlattenSeq(ts) \in Seq(Vocab)
  BY <1>5, FlattenType
<1>7. ASSUME Spellable(t) PROVE FlattenSeq(FlattenSeq(ts)) = t
  <2>1. t \in Seq(Known)
    BY <1>7, SpellableIsKnown
  <2>2. \A i \in 1 .. n : ps[i] \in Seq(Known)
    <3>1. Known \subseteq Byte
      BY DEF Known
    <3> QED
      BY <1>1, <1>2, <2>1, <3>1, FlattenOver DEF Token
  <2>3. \A i \in 1 .. n : FlattenSeq(ts[i]) = ps[i]
    BY <1>2, <1>3, <2>2, SpellableIsKnown, EncodePieceSpells
  <2>4. ts \in Seq(Seq(Token))
    <3>1. Vocab \subseteq Token
      BY TokensAreTexts DEF VocabIsTokens
    <3>2. Seq(Vocab) \subseteq Seq(Token)
      BY <3>1, SeqMonotonic
    <3> QED
      BY <1>5, <3>2, SeqMonotonic
  <2>5. ps \in Seq(Seq(Byte)) /\ ts \in Seq(Seq(Seq(Byte)))
    BY <2>4 DEF Token
  <2>6. Len(ts) = Len(ps) /\ \A i \in 1 .. Len(ps) : FlattenSeq(ts[i]) = ps[i]
    BY <1>2, <1>5, <2>3
  <2>7. FlattenSeq(FlattenSeq(ts)) = FlattenSeq(ps)
    BY <2>5, <2>6, FlattenTwice
  <2> QED
    BY <1>1, <2>7
<1> QED
  BY <1>4, <1>6, <1>7

\* A special token that is found at p is what the text has there.
LEMMA LongestIs ==
    ASSUME NEW t \in Token, NEW p \in 1 .. Len(t), SpecialsAt(t, p) # {}
    PROVE  /\ Longest(SpecialsAt(t, p)) \in Specials
           /\ p + Len(Longest(SpecialsAt(t, p))) \in p + 1 .. Len(t) + 1
           /\ Longest(SpecialsAt(t, p)) = SubSeq(t, p, p + Len(Longest(SpecialsAt(t, p))) - 1)
<1>1. PICK n \in Nat : n = Len(t) /\ p \in 1 .. n /\ t \in Seq(Byte)
  BY DEF Token
<1>2. PICK rest \in Seq(Byte) : /\ rest = SubSeq(t, p, n) /\ Len(rest) = n - p + 1
                                /\ \A i \in 1 .. n - p + 1 : rest[i] = t[p + i - 1]
  <2>1. \A i \in p .. n : t[i] \in Byte
    BY <1>1
  <2>2. p <= n /\ p \in Int /\ n \in Int
    BY <1>1
  <2>3. /\ SubSeq(t, p, n) \in Seq(Byte) /\ Len(SubSeq(t, p, n)) = n - p + 1
        /\ \A i \in 1 .. n - p + 1 : SubSeq(t, p, n)[i] = t[p + i - 1]
    BY <2>1, <2>2, SubSeqProperties
  <2> QED
    BY <2>3
<1> DEFINE S == SpecialsAt(t, p)
<1>3. ASSUME NEW s \in S
      PROVE  /\ s \in Specials /\ s \in Seq(Byte) /\ Len(s) \in 1 .. n - p + 1
             /\ \A i \in 1 .. Len(s) : s[i] = rest[i]
  <2>1. s \in Specials /\ IsPrefix(s, rest)
    BY <1>1, <1>2 DEF SpecialsAt
  <2>2. s \in Seq(Byte) /\ s # << >>
    BY <2>1, TokenizerAssumption DEF Byte
  <2>3. Len(s) \in Nat /\ Len(s) # 0
    BY <2>2, EmptySeq
  <2>4. Len(s) <= Len(rest) /\ \A i \in 1 .. Len(s) : s[i] = rest[i]
    BY <1>2, <2>1, <2>2, <2>3 DEF IsPrefix
  <2> QED
    BY <1>1, <1>2, <2>1, <2>2, <2>3, <2>4
<1> DEFINE lens == {Len(s) : s \in S}
<1> HIDE DEF S
<1>4. Max(lens) \in lens /\ \A y \in lens : Max(lens) >= y
  <2>1. lens \in SUBSET (0 .. n) /\ lens # {}
    <3>1. S # {}
      BY DEF S
    <3>2. \A s \in S : Len(s) \in 0 .. n
      BY <1>1, <1>3
    <3> QED
      BY <3>1, <3>2
  <2> HIDE DEF lens
  <2> QED
    BY <2>1, MaxExists
<1>5. \E s \in S : \A u \in S : Len(u) <= Len(s)
  <2>1. PICK s \in S : Len(s) = Max(lens)
    BY <1>4
  <2>2. \A u \in S : Len(u) \in lens /\ Len(u) \in Nat
    BY <1>3
  <2> HIDE DEF lens
  <2>3. ASSUME NEW u \in S PROVE Len(u) <= Len(s)
    BY <1>4, <2>1, <2>2
  <2> QED
    BY <2>3
<1>6. PICK s \in S : s = Longest(S)
  BY <1>5, Zenon DEF Longest
<1>7. PICK m \in 1 .. n - p + 1 : m = Len(s)
  BY <1>3
<1>8. s \in Specials /\ p + Len(s) \in p + 1 .. Len(t) + 1
  BY <1>1, <1>3, <1>7
<1>9. s = SubSeq(t, p, p + Len(s) - 1)
  <2>1. PICK k \in p .. n : k = p + m - 1 /\ k - p + 1 = m
    BY <1>1
  <2>2. \A i \in p .. k : t[i] \in Byte
    BY <1>1
  <2>3. k \in Int /\ p \in Int /\ p <= k
    BY <1>1
  <2>4. /\ SubSeq(t, p, k) \in Seq(Byte) /\ Len(SubSeq(t, p, k)) = m
        /\ \A i \in 1 .. m : SubSeq(t, p, k)[i] = t[p + i - 1]
    BY <2>1, <2>2, <2>3, SubSeqProperties
  <2>5. \A i \in 1 .. m : s[i] = t[p + i - 1]
    <3>1. \A i \in 1 .. m : i \in 1 .. n - p + 1
      BY <1>1
    <3> QED
      BY <1>2, <1>3, <1>7, <3>1
  <2>6. s \in Seq(Byte) /\ Len(s) = Len(SubSeq(t, p, k)) /\ \A i \in 1 .. Len(s) : s[i] = SubSeq(t, p, k)[i]
    BY <1>3, <1>7, <2>4, <2>5
  <2>7. s = SubSeq(t, p, k)
    BY <2>4, <2>6, SeqEqual
  <2> QED
    BY <1>7, <2>1, <2>7
<1> QED
  BY <1>6, <1>8, <1>9 DEF S

LEMMA SegmentEndIs ==
    ASSUME NEW t \in Token, NEW p \in 1 .. Len(t)
    PROVE  SegmentEnd(t, p) \in p + 1 .. Len(t) + 1
<1>1. PICK n \in Nat : n = Len(t) /\ p \in 1 .. n
  BY DEF Token
<1> DEFINE S == {q \in p + 1 .. n + 1 : q = n + 1 \/ t[q] \in LeadBytes}
<1>2. SegmentEnd(t, p) = Min(S)
  BY <1>1 DEF SegmentEnd
<1>3. n + 1 \in S
  BY <1>1
<1>4. S \in SUBSET Nat /\ S # {} /\ S \subseteq p + 1 .. n + 1
  BY <1>1, <1>3
<1> HIDE DEF S
<1>5. Min(S) \in S
  BY <1>4, MinExists
<1> QED
  BY <1>1, <1>2, <1>4, <1>5

\* What begins at p, and where it ends: a special token, or a segment.
NextAt(t, p) == IF SpecialsAt(t, p) # {} THEN p + Len(Longest(SpecialsAt(t, p)))
                ELSE SegmentEnd(t, p)
PartAt(t, p) == IF SpecialsAt(t, p) # {} THEN <<Longest(SpecialsAt(t, p))>>
                ELSE EncodeSegment(SubSeq(t, p, NextAt(t, p) - 1))

LEMMA NextAdvances ==
    ASSUME NEW t \in Token, NEW p \in 1 .. Len(t)
    PROVE  /\ NextAt(t, p) \in p + 1 .. Len(t) + 1
           /\ SubSeq(t, p, NextAt(t, p) - 1) \in Token
<1>1. NextAt(t, p) \in p + 1 .. Len(t) + 1
  BY LongestIs, SegmentEndIs DEF NextAt
<1>0. PICK n \in Nat : n = Len(t) /\ \A i \in 1 .. n : t[i] \in Byte
  BY DEF Token
<1>2. PICK e \in p + 1 .. n + 1 : e = NextAt(t, p)
  BY <1>1, <1>0
<1>3. e - 1 \in 0 .. n /\ p \in 1 .. n
  BY <1>0
<1>4. \A i \in p .. e - 1 : t[i] \in Byte
  BY <1>0, <1>3
<1>5. SubSeq(t, p, e - 1) \in Seq(Byte)
  BY <1>3, <1>4, SubSeqProperties
<1> QED
  BY <1>1, <1>2, <1>5 DEF Token

LEMMA PartType ==
    ASSUME NEW t \in Token, NEW p \in 1 .. Len(t)
    PROVE  PartAt(t, p) \in Seq(Vocab \cup Specials)
<1> DEFINE V == Vocab \cup Specials
<1>1. CASE SpecialsAt(t, p) # {}
  <2>1. Longest(SpecialsAt(t, p)) \in V
    BY <1>1, LongestIs
  <2> HIDE DEF V
  <2>2. PartAt(t, p) \in Seq(V)
    BY <1>1, <2>1 DEF PartAt
  <2> QED
    BY <2>2 DEF V
<1>2. CASE ~(SpecialsAt(t, p) # {})
  <2>1. EncodeSegment(SubSeq(t, p, NextAt(t, p) - 1)) \in Seq(Vocab)
    BY NextAdvances, EncodeSegmentSpells
  <2>2. Vocab \subseteq V
    OBVIOUS
  <2>3. EncodeSegment(SubSeq(t, p, NextAt(t, p) - 1)) \in Seq(V)
    <3> HIDE DEF V
    <3> QED
      BY <2>1, <2>2, SeqMonotonic
  <2> QED
    BY <1>2, <2>3, Zenon DEF PartAt
<1> QED
  BY <1>1, <1>2

LEMMA PartSpells ==
    ASSUME NEW t \in Token, Spellable(t), NEW p \in 1 .. Len(t)
    PROVE  FlattenSeq(PartAt(t, p)) = SubSeq(t, p, NextAt(t, p) - 1)
<1>1. CASE SpecialsAt(t, p) # {}
  <2>1. /\ Longest(SpecialsAt(t, p)) \in Specials
        /\ NextAt(t, p) = p + Len(Longest(SpecialsAt(t, p)))
        /\ Longest(SpecialsAt(t, p)) = SubSeq(t, p, NextAt(t, p) - 1)
    BY <1>1, LongestIs DEF NextAt
  <2>2. PartAt(t, p) = <<Longest(SpecialsAt(t, p))>>
    BY <1>1 DEF PartAt
  <2>3. Longest(SpecialsAt(t, p)) \in Seq(Byte)
    BY <2>1, TokensAreTexts DEF VocabIsTokens, Token
  <2>4. FlattenSeq(<<Longest(SpecialsAt(t, p))>>) = Longest(SpecialsAt(t, p))
    BY <2>3, FlattenSingle
  <2> QED
    BY <2>1, <2>2, <2>4, Zenon
<1>2. CASE ~(SpecialsAt(t, p) # {})
  <2>1. PICK e \in p + 1 .. Len(t) + 1 : e = NextAt(t, p)
    BY NextAdvances
  <2>2. PartAt(t, p) = EncodeSegment(SubSeq(t, p, e - 1))
    BY <1>2, <2>1 DEF PartAt
  <2>3. SubSeq(t, p, e - 1) \in Token /\ Spellable(SubSeq(t, p, e - 1))
    <3>1. e - 1 \in 0 .. Len(t)
      BY DEF Token
    <3> QED
      BY <3>1, PartsSpellable
  <2>4. FlattenSeq(EncodeSegment(SubSeq(t, p, e - 1))) = SubSeq(t, p, e - 1)
    BY <2>3, EncodeSegmentSpells
  <2> QED
    BY <2>1, <2>2, <2>4, Zenon
<1> QED
  BY <1>1, <1>2

\* encode takes the text from left to right.
Encoding(t, end, out, from) ==
    /\ Advances(Len(t), Vocab \cup Specials, end, out) /\ Chain(Len(t), end, out, from)
    /\ \A p \in 1 .. Len(t) : out[p] = PartAt(t, p) /\ end[p] = NextAt(t, p)
    /\ EncodeAll(t) = from[1]

LEMMA EncodeAllChain ==
    ASSUME NEW t \in Token
    PROVE  \E end, out, from : Encoding(t, end, out, from)
<1>1. PICK n \in Nat : n = Len(t)
  BY DEF Token
<1> DEFINE V == Vocab \cup Specials
           end == [p \in 1 .. n |-> NextAt(t, p)]
           out == [p \in 1 .. n |-> PartAt(t, p)]
           Taken(f) == f = [p \in 1 .. Len(t) + 1 |->
                               IF p > Len(t) THEN << >>
                               ELSE LET found == SpecialsAt(t, p)
                                        q     == IF found # {} THEN p + Len(Longest(found))
                                                 ELSE SegmentEnd(t, p)
                                    IN  (IF found # {} THEN <<Longest(found)>>
                                         ELSE EncodeSegment(SubSeq(t, p, q - 1))) \o f[q]]
<1>2. \A p \in 1 .. n : out[p] = PartAt(t, p) /\ end[p] = NextAt(t, p)
  OBVIOUS
<1>3. end \in [1 .. n -> 1 .. n + 1] /\ \A p \in 1 .. n : p < end[p]
  <2>1. \A p \in 1 .. n : NextAt(t, p) \in 1 .. n + 1 /\ p < NextAt(t, p)
    <3> SUFFICES ASSUME NEW p \in 1 .. n PROVE NextAt(t, p) \in 1 .. n + 1 /\ p < NextAt(t, p)
      OBVIOUS
    <3>1. NextAt(t, p) \in p + 1 .. n + 1
      BY <1>1, NextAdvances
    <3> QED
      BY <3>1
  <2> QED
    BY <2>1
<1>4. Advances(n, V, end, out)
  <2>1. \A p \in 1 .. n : PartAt(t, p) \in Seq(V)
    BY <1>1, PartType
  <2> HIDE DEF V, end
  <2>2. out \in [1 .. n -> Seq(V)]
    BY <2>1
  <2> QED
    BY <1>3, <2>2 DEF Advances
<1>5. PICK g : Chain(n, end, out, g)
  <2> HIDE DEF V, end, out
  <2> QED
    BY <1>4, ChainExists
<1>6. \A f : Taken(f) <=> Chain(n, end, out, f)
  <2> HIDE DEF V, end, out
  <2>1. ASSUME NEW f
        PROVE  \A p \in 1 .. n + 1 :
                 (IF p > Len(t) THEN << >>
                  ELSE LET found == SpecialsAt(t, p)
                           q     == IF found # {} THEN p + Len(Longest(found)) ELSE SegmentEnd(t, p)
                       IN  (IF found # {} THEN <<Longest(found)>>
                            ELSE EncodeSegment(SubSeq(t, p, q - 1))) \o f[q])
                 = IF p > n THEN << >> ELSE out[p] \o f[end[p]]
    <3> SUFFICES ASSUME NEW p \in 1 .. n + 1, ~(p > n)
                 PROVE  (LET found == SpecialsAt(t, p)
                             q     == IF found # {} THEN p + Len(Longest(found)) ELSE SegmentEnd(t, p)
                         IN  (IF found # {} THEN <<Longest(found)>>
                              ELSE EncodeSegment(SubSeq(t, p, q - 1))) \o f[q])
                        = out[p] \o f[end[p]]
      BY <1>1
    <3>1. p \in 1 .. n
      OBVIOUS
    <3>2. out[p] = PartAt(t, p) /\ end[p] = NextAt(t, p)
      BY <1>2, <3>1
    <3> QED
      BY <3>2, Zenon DEF PartAt, NextAt
  <2> QED
    BY <1>1, <2>1 DEF Chain
<1> DEFINE from == CHOOSE from : Taken(from)
<1>7. Taken(from)
  <2> HIDE DEF Taken
  <2> QED
    BY <1>5, <1>6, Zenon
<1>8. EncodeAll(t) = from[1]
  BY Zenon DEF EncodeAll
<1> HIDE DEF from
<1>9. Chain(n, end, out, from)
  BY <1>6, <1>7
<1>10. Encoding(t, end, out, from)
  <2> HIDE DEF end, out
  <2> QED
    BY <1>1, <1>2, <1>4, <1>8, <1>9 DEF Encoding
<1> QED
  BY <1>10

\* Special tokens and segments, one after the other, are the text.
LEMMA EncodeAllSpells ==
    ASSUME NEW t \in Token
    PROVE  /\ EncodeAll(t) \in Seq(Vocab \cup Specials)
           /\ Spellable(t) => FlattenSeq(EncodeAll(t)) = t
<1> DEFINE V == Vocab \cup Specials
<1>1. PICK n \in Nat : n = Len(t) /\ t \in Seq(Byte)
  BY DEF Token
<1>2. PICK end, out, from : Encoding(t, end, out, from)
  BY EncodeAllChain
<1>3. Advances(n, V, end, out) /\ Chain(n, end, out, from) /\ EncodeAll(t) = from[1]
      /\ \A p \in 1 .. n : out[p] = PartAt(t, p) /\ end[p] = NextAt(t, p)
  BY <1>1, <1>2 DEF Encoding
<1>4. from[1] \in Seq(V)
  <2> HIDE DEF V
  <2> QED
    BY <1>3, ChainType
<1>5. ASSUME Spellable(t) PROVE FlattenSeq(from[1]) = t
  <2>1. Advances(n, Seq(Byte), end, out)
    <3>1. V \subseteq Seq(Byte)
      BY TokensAreTexts DEF VocabIsTokens, Token
    <3> HIDE DEF V
    <3>2. out \in [1 .. n -> Seq(V)]
      BY <1>3 DEF Advances
    <3>3. ASSUME NEW p \in 1 .. n PROVE out[p] \in Seq(Seq(Byte))
      BY <3>1, <3>2, SeqMonotonic
    <3>4. out \in [1 .. n -> Seq(Seq(Byte))]
      BY <3>2, <3>3
    <3> QED
      BY <1>3, <3>4 DEF Advances
  <2>2. \A p \in 1 .. n : FlattenSeq(out[p]) = SubSeq(t, p, end[p] - 1)
    BY <1>1, <1>3, <1>5, PartSpells
  <2> QED
    BY <1>1, <1>3, <2>1, <2>2, ChainSpells
<1> QED
  BY <1>3, <1>4, <1>5

\* A text in which no special token can begin is one segment.
LEMMA OneSegment ==
    ASSUME NEW t \in Token, \A i \in 1 .. Len(t) : t[i] \notin LeadBytes
    PROVE  EncodeAll(t) = EncodeSegment(t)
<1>1. PICK n \in Nat : n = Len(t) /\ t \in Seq(Byte)
  BY DEF Token
<1>2. PICK end, out, from : Encoding(t, end, out, from)
  BY EncodeAllChain
<1>3. Advances(n, Vocab \cup Specials, end, out) /\ Chain(n, end, out, from) /\ EncodeAll(t) = from[1]
      /\ \A p \in 1 .. n : out[p] = PartAt(t, p) /\ end[p] = NextAt(t, p)
  BY <1>1, <1>2 DEF Encoding
<1>4. CASE n = 0
  <2>1. from[1] = << >>
    BY <1>3, <1>4 DEF Chain
  <2>3. Pieces(t) = << >>
    <3>1. Pieces(t) \in Seq({SubSeq(t, p, PieceEnd(t, p) - 1) : p \in 1 .. n})
      BY <1>1, PiecesCut
    <3>2. {SubSeq(t, p, PieceEnd(t, p) - 1) : p \in 1 .. n} = {}
      BY <1>4
    <3>3. Pieces(t) \in Seq({})
      BY <3>1, <3>2, Zenon
    <3> QED
      BY <3>3
  <2>4. EncodeSegment(t) = FlattenSeq([i \in DOMAIN << >> |-> EncodePiece(<< >>[i])])
    BY <2>3, Zenon DEF EncodeSegment
  <2>5. [i \in DOMAIN << >> |-> EncodePiece(<< >>[i])] = << >>
    OBVIOUS
  <2> QED
    BY <1>3, <2>1, <2>4, <2>5, FlattenEmpty, Zenon
<1>5. CASE n > 0
  <2>1. 1 \in 1 .. n
    BY <1>5
  <2>2. SpecialsAt(t, 1) = {}
    <3> SUFFICES ASSUME SpecialsAt(t, 1) # {} PROVE FALSE
      OBVIOUS
    <3>1. PICK s \in Specials : s = Longest(SpecialsAt(t, 1)) /\ 1 + Len(s) \in 1 + 1 .. n + 1
                                /\ s = SubSeq(t, 1, 1 + Len(s) - 1)
      BY <1>1, <2>1, LongestIs
    <3>2. PICK m \in 1 .. n : m = Len(s) /\ m = 1 + Len(s) - 1
      <4>1. Len(s) \in Nat
        BY <3>1, TokensAreTexts DEF VocabIsTokens, Token
      <4>2. Len(s) \in 1 .. n /\ Len(s) = 1 + Len(s) - 1
        BY <3>1, <4>1
      <4> QED
        BY <4>2
    <3>3. s[1] = t[1]
      <4>1. \A i \in 1 .. m : t[i] \in Byte
        BY <1>1
      <4>2. SubSeq(t, 1, m)[1] = t[1]
        <5>1. 1 \in 1 .. m - 1 + 1 /\ 1 + 1 - 1 = 1
          OBVIOUS
        <5>2. \A i \in 1 .. m - 1 + 1 : SubSeq(t, 1, m)[i] = t[1 + i - 1]
          BY <4>1, SubSeqProperties
        <5> QED
          BY <5>1, <5>2
      <4> QED
        BY <3>1, <3>2, <4>2, Zenon
    <3>4. t[1] \in LeadBytes
      BY <3>1, <3>3 DEF LeadBytes
    <3> QED
      BY <1>1, <2>1, <3>4
  <2>3. SegmentEnd(t, 1) = n + 1
    <3>1. {q \in 1 + 1 .. Len(t) + 1 : q = Len(t) + 1 \/ t[q] \in LeadBytes} = {n + 1}
      BY <1>1, <2>1
    <3>2. Min({n + 1}) \in {n + 1}
      BY MinExists
    <3> QED
      BY <3>1, <3>2 DEF SegmentEnd
  <2>4. NextAt(t, 1) = n + 1 /\ PartAt(t, 1) = EncodeSegment(SubSeq(t, 1, n + 1 - 1))
    BY <2>2, <2>3 DEF NextAt, PartAt
  <2>5. n + 1 - 1 = n /\ SubSeq(t, 1, n) = t
    BY <1>1, SubSeqFull
  <2>6. from[1] = out[1] \o from[end[1]]
    <3> DEFINE V == Vocab \cup Specials
    <3>1. Advances(n, V, end, out)
      BY <1>3
    <3>2. Chain(n, end, out, from)
      BY <1>3
    <3> HIDE DEF V
    <3>3. /\ \A p \in 1 .. n + 1 : p > n => from[p] = << >>
          /\ \A p \in 1 .. n : /\ from[p] = out[p] \o from[end[p]]
                                /\ end[p] \in 1 .. n + 1 /\ p < end[p]
                                /\ out[p] \in Seq(V)
      BY <1>1, <3>1, <3>2, ChainStep
    <3> QED
      BY <2>1, <3>3
  <2>7. from[n + 1] = << >>
    BY <1>3 DEF Chain
  <2>8. EncodeSegment(t) \in Seq(Vocab)
    BY EncodeSegmentSpells
  <2>9. from[1] = EncodeSegment(t) \o << >>
    BY <1>3, <2>1, <2>4, <2>5, <2>6, <2>7, Zenon
  <2> QED
    BY <1>3, <2>8, <2>9, ConcatEmptySeq
<1> QED
  BY <1>4, <1>5

\* Whatever the text, the ids that encode gives are those of tokens that exist:
\* the vocabulary, the special tokens and the one of the beginning.
THEOREM EncodeGivesIds == \A t \in Token : Encode(t) \in Seq(AllTokens)
<1> SUFFICES ASSUME NEW t \in Token PROVE Encode(t) \in Seq(AllTokens)
  OBVIOUS
<1>1. Vocab \cup Specials \subseteq AllTokens /\ Bos \in AllTokens
  BY DEF AllTokens
<1>2. EncodeAll(t) \in Seq(AllTokens)
  BY <1>1, EncodeAllSpells, SeqMonotonic
<1> QED
  BY <1>1, <1>2 DEF Encode

\* Whatever the text, if each of its bytes has a token, decoding what it is
\* encoded to gives it back.
THEOREM TextsComeBack == \A t \in Token : TextComesBack(t)
<1> SUFFICES ASSUME NEW t \in Token, \A i \in DOMAIN t : <<t[i]>> \in Vocab
             PROVE  Decode(Tail(Encode(t)), FALSE) = t
  BY DEF TextComesBack
<1>1. Spellable(t)
  BY DEF Spellable, Token
<1>2. PICK ids \in Seq(Vocab \cup Specials) : ids = EncodeAll(t) /\ FlattenSeq(ids) = t
  BY <1>1, EncodeAllSpells
<1>3. Tail(Encode(t)) = ids
  BY <1>2 DEF Encode
<1>4. Decode(ids, FALSE) = FlattenSeq([i \in DOMAIN ids |-> ids[i]])
  BY Zenon DEF Decode
<1>5. [i \in DOMAIN ids |-> ids[i]] = ids
  OBVIOUS
<1> QED
  BY <1>2, <1>3, <1>4, <1>5
=============================================================================
