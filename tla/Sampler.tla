------------------------------- MODULE Sampler -------------------------------
(***************************************************************************)
(* sample_token (src/src/sampler.cpp): temperature, repetition penalty,    *)
(* softmax, top-k and top-p filters, and the draw.                         *)
(*                                                                         *)
(* A token is its index.  Logits are integers, and the probability of a    *)
(* token is a whole number of units, never divided by the total: exp is    *)
(* taken as a power of two, and what lies more than Depth below the       *)
(* largest logit has underflowed to 0, as exp does.                        *)
(***************************************************************************)
EXTENDS Integers, FiniteSetsExt

CONSTANTS
    Depth,        \* how far below the largest logit a probability vanishes
    Temperature,  \* of the SamplerConfig; 0 stands for 1, as in the code
    Penalty,      \* repetition_penalty
    TopK,         \* top_k; 0 for no limit
    TopP          \* top_p in percent

ASSUME SamplerAssumption ==
    /\ Depth \in Nat
    /\ Temperature \in Nat
    /\ Penalty \in Nat \ {0}
    /\ TopK \in Nat
    /\ TopP \in 0 .. 100

Mass(ws, S) == MapThenSumSet(LAMBDA i : ws[i], S)

\* Steps 1 and 2, the penalty once for each token in seen.
Scaled(ls, seen) ==
    [i \in DOMAIN ls |->
        LET x == IF Temperature > 1 THEN ls[i] \div Temperature ELSE ls[i]
        IN  IF i \in seen THEN x \div Penalty ELSE x]

\* Step 3, with the smallest probability two units.
Softmax(ls) ==
    LET top == Max({ls[i] : i \in DOMAIN ls})
    IN  [i \in DOMAIN ls |->
            IF top - ls[i] > Depth THEN 0 ELSE 2 ^ (1 + Depth + ls[i] - top)]

\* std::greater on pairs of probability and index.
Before(ws, i, j) == ws[i] > ws[j] \/ (ws[i] = ws[j] /\ i > j)
Ahead(ws, i) == {j \in DOMAIN ws : Before(ws, j, i)}

Keep(ws, S) == [i \in DOMAIN ws |-> IF i \in S THEN ws[i] ELSE 0]

\* Step 4.
KeepTopK(ws) ==
    IF TopK = 0 \/ TopK >= Cardinality(DOMAIN ws) THEN ws
    ELSE Keep(ws, {i \in DOMAIN ws : Cardinality(Ahead(ws, i)) < TopK})

\* Mutant of KeepTopP: the token that crosses top_p is left out.
KeepBelowTopP(ws, total) ==
    IF TopP \in {0, 100} THEN ws
    ELSE Keep(ws, {i \in DOMAIN ws :
                     100 * (Mass(ws, Ahead(ws, i)) + ws[i]) < TopP * total})

\* Step 5: the loop over the sorted tokens stops after the one that brings the
\* sum to top_p.  total is what softmax divided by: top-k does not change it.
KeepTopP(ws, total) ==
    IF TopP \in {0, 100} THEN ws
    ELSE Keep(ws, {i \in DOMAIN ws :
                     100 * Mass(ws, Ahead(ws, i)) < TopP * total})

Filtered(ls, seen) ==
    LET ws == Softmax(Scaled(ls, seen))
    IN  KeepTopP(KeepTopK(ws), Mass(ws, DOMAIN ws))

\* Step 7: the first token whose sum is not below the sample, or the last
\* token.  The sums are rounded: those that should be the total lack "lost".
Draw(ws, sample, lost) ==
    LET total  == Mass(ws, DOMAIN ws)
        exact(i) == Mass(ws, {j \in DOMAIN ws : j <= i})
        cdf(i) == IF exact(i) = total THEN total - lost ELSE exact(i)
        hits   == {i \in DOMAIN ws : sample <= cdf(i)}
    IN  IF hits = {} THEN Max(DOMAIN ws) ELSE Min(hits)

\* Step 6's fallback: the first of the largest logits.
Largest(ls) == Min({i \in DOMAIN ls : \A j \in DOMAIN ls : ls[j] <= ls[i]})

\* What sample_token returns for logits ls, once filtered to ws.
SampleToken(ls, ws, sample, lost) ==
    IF Mass(ws, DOMAIN ws) = 0 THEN Largest(ls) ELSE Draw(ws, sample, lost)

-----------------------------------------------------------------------------
(* What the filters promise.                                               *)

\* S reaches top_p of the mass of all tokens, or is all that top-k lets.
Reaches(ws, S) ==
    \/ TopP # 0 /\ 100 * Mass(ws, S) >= TopP * Mass(ws, DOMAIN ws)
    \/ TopK # 0 /\ Cardinality(S) >= TopK
    \/ \A i \in DOMAIN ws \ S : ws[i] = 0

\* The nucleus: the smallest set of tokens that reaches, among those that hold
\* with a token every token before it.
Nucleus(ws) ==
    LET tops == {S \in SUBSET DOMAIN ws :
                   /\ S # {}
                   /\ \A i \in S : ws[i] > 0 /\ Ahead(ws, i) \subseteq S
                   /\ Reaches(ws, S)}
    IN  CHOOSE S \in tops : \A U \in tops : Cardinality(S) <= Cardinality(U)

=============================================================================
