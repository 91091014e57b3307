-------------------------- MODULE StopMatcherProofs --------------------------
(***************************************************************************)
(* Proofs about StopMatcher, for any characters, any tokens and any lists  *)
(* of stop sequences: no character of a stop sequence gets out, none is    *)
(* overlooked, and what was held back comes out.                           *)
(*                                                                         *)
(* Everything rests on one fact about safe_len: the number of characters   *)
(* that are safe never shrinks when text is added (SafeMonotone), and a    *)
(* stop sequence completed by the added text begins after them             *)
(* (MatchBeginsAfterSafe).                                                 *)
(***************************************************************************)
EXTENDS StopMatcher, SequenceTheorems, WellFoundedInduction, TLAPS

(***************************************************************************)
(* Least and greatest elements.                                            *)
(***************************************************************************)
LEMMA WellOrdered ==
    ASSUME NEW S, S \in SUBSET Nat, S # {}
    PROVE  \E x \in S : \A y \in S : x <= y
<1> DEFINE R == {ss \in Nat \X Nat : ss[1] < ss[2]}
<1>1. IsWellFoundedOn(R, Nat)
  BY NatLessThanWellFounded, Zenon DEF OpToRel
<1>2. PICK x \in S : \A y \in S : ~ (<<y, x>> \in R)
  <2> HIDE DEF R
  <2> QED BY <1>1, WFMin, Zenon
<1>3. \A y \in S : ~ (y < x)
  BY <1>2
<1> QED
  BY <1>3

LEMMA MinExists ==
    ASSUME NEW S, S \in SUBSET Nat, S # {}
    PROVE  Min(S) \in S /\ \A y \in S : Min(S) <= y
<1>1. \E x \in S : \A y \in S : x <= y
  BY WellOrdered
<1> QED
  BY <1>1, Zenon DEF Min

LEMMA MaxExists ==
    ASSUME NEW S, NEW n \in Nat, S \in SUBSET (0 .. n), S # {}
    PROVE  Max(S) \in S /\ \A y \in S : Max(S) >= y
<1> DEFINE T == {n - x : x \in S}
<1>1. T \in SUBSET Nat /\ T # {}
  <2>1. \A x \in S : x \in 0 .. n
    OBVIOUS
  <2>2. \A x \in 0 .. n : n - x \in Nat
    OBVIOUS
  <2> QED
    BY <2>1, <2>2
<1>2. PICK t \in T : \A y \in T : t <= y
  <2> HIDE DEF T
  <2> QED BY <1>1, WellOrdered
<1>3. PICK x \in S : t = n - x
  BY <1>2
<1>4. \A y \in S : x >= y
  <2> SUFFICES ASSUME NEW y \in S PROVE x >= y
    OBVIOUS
  <2>1. n - y \in T
    OBVIOUS
  <2>2. n - x <= n - y
    BY <1>2, <1>3, <2>1
  <2> QED
    BY <2>2
<1> QED
  BY <1>4, Zenon DEF Max

(***************************************************************************)
(* Span.                                                                   *)
(***************************************************************************)
LEMMA SpanElements ==
    ASSUME NEW from \in Nat \ {0}, NEW to \in Nat
    PROVE  /\ Span(from, to) \in Seq(from .. to)
           /\ Len(Span(from, to)) = IF to >= from THEN to - from + 1 ELSE 0
           /\ \A i \in 1 .. Len(Span(from, to)) : Span(from, to)[i] = from + i - 1
           /\ Range(Span(from, to)) = from .. to
<1> DEFINE n == IF to >= from THEN to - from + 1 ELSE 0
           s == Span(from, to)
<1>1. n \in Nat /\ s = [i \in 1 .. n |-> from + i - 1]
  BY DEF Span
<1>2. \A i \in 1 .. n : from + i - 1 \in from .. to
  OBVIOUS
<1>3. s \in Seq(from .. to) /\ Len(s) = n /\ \A i \in 1 .. n : s[i] = from + i - 1
  <2> HIDE DEF n
  <2> QED BY <1>1, <1>2
<1>4. ASSUME NEW x \in from .. to
      PROVE  x \in Range(s)
  <2>1. x - from + 1 \in 1 .. n /\ from + (x - from + 1) - 1 = x
    OBVIOUS
  <2>2. DOMAIN s = 1 .. n
    BY <1>1
  <2> QED
    BY <1>3, <2>1, <2>2 DEF Range
<1>5. Range(s) \subseteq from .. to
  BY <1>1, <1>2 DEF Range
<1> QED
  BY <1>3, <1>4, <1>5

(***************************************************************************)
(* Occurrences and pending prefixes, character by character.               *)
(***************************************************************************)

\* The lengths a suffix of s can have that is a prefix of p.
Pending(p, s) ==
    {c \in 1 .. Len(p) : c <= Len(s) /\ SubSeq(s, Len(s) - c + 1, Len(s)) = SubSeq(p, 1, c)}

LEMMA OccurrenceElements ==
    ASSUME NEW p \in Seq(Chars), NEW s \in Seq(Chars), NEW o \in Nat, o + Len(p) <= Len(s)
    PROVE  o \in Occurrences(p, s) <=> \A j \in 1 .. Len(p) : s[o + j] = p[j]
<1> DEFINE u == SubSeq(s, o + 1, o + Len(p))
<1>1. u \in Seq(Chars) /\ Len(u) = Len(p) /\ \A j \in 1 .. Len(p) : u[j] = s[o + j]
  OBVIOUS
<1>2. u = p <=> \A j \in 1 .. Len(p) : u[j] = p[j]
  <2> HIDE DEF u
  <2> QED BY <1>1, SeqEqual
<1>3. o \in Occurrences(p, s) <=> u = p
  BY DEF Occurrences
<1> QED
  <2> HIDE DEF u
  <2> QED BY <1>1, <1>2, <1>3

LEMMA PendingElements ==
    ASSUME NEW p \in Seq(Chars), NEW s \in Seq(Chars), NEW c \in 1 .. Len(p), c <= Len(s)
    PROVE  c \in Pending(p, s) <=> \A j \in 1 .. c : s[Len(s) - c + j] = p[j]
<1> DEFINE u == SubSeq(s, Len(s) - c + 1, Len(s))
           v == SubSeq(p, 1, c)
<1>1. u \in Seq(Chars) /\ Len(u) = c /\ \A j \in 1 .. c : u[j] = s[Len(s) - c + j]
  OBVIOUS
<1>2. v \in Seq(Chars) /\ Len(v) = c /\ \A j \in 1 .. c : v[j] = p[j]
  OBVIOUS
<1>3. u = v <=> \A j \in 1 .. c : u[j] = v[j]
  <2> HIDE DEF u, v
  <2> QED BY <1>1, <1>2, SeqEqual
<1>4. c \in Pending(p, s) <=> u = v
  BY DEF Pending
<1> QED
  <2> HIDE DEF u, v
  <2> QED BY <1>1, <1>2, <1>3, <1>4

LEMMA PartialProperties ==
    ASSUME NEW p \in Seq(Chars), NEW s \in Seq(Chars)
    PROVE  /\ PartialLength(p, s) \in 0 .. Len(s)
           /\ PartialLength(p, s) = 0 \/ PartialLength(p, s) \in Pending(p, s)
           /\ \A c \in Pending(p, s) : c <= PartialLength(p, s)
<1> DEFINE S == {0} \cup Pending(p, s)
<1>1. PartialLength(p, s) = Max(S)
  BY DEF PartialLength, Pending
<1>2. Len(s) \in Nat /\ S \in SUBSET (0 .. Len(s)) /\ S # {}
  BY DEF Pending
<1>3. Max(S) \in S /\ \A y \in S : Max(S) >= y
  <2> HIDE DEF S
  <2> QED BY <1>2, MaxExists
<1>4. \A c \in Pending(p, s) : c \in Nat
  BY DEF Pending
<1> QED
  BY <1>1, <1>2, <1>3, <1>4

\* A suffix that is pending after more text either began in that text or was
\* pending before it.
LEMMA PendingExtends ==
    ASSUME NEW p \in Seq(Chars), NEW s \in Seq(Chars), NEW t \in Seq(Chars),
           NEW c \in Pending(p, s \o t), c > Len(t)
    PROVE  c - Len(t) \in Pending(p, s)
<1> DEFINE u == s \o t
           d == c - Len(t)
<1>1. u \in Seq(Chars) /\ Len(u) = Len(s) + Len(t) /\ \A i \in 1 .. Len(s) : u[i] = s[i]
  OBVIOUS
<1>2. c \in 1 .. Len(p) /\ c <= Len(u) /\ c \in Pending(p, u)
  BY DEF Pending
<1>3. d \in 1 .. Len(p) /\ d <= Len(s) /\ d <= c
  <2> HIDE DEF u
  <2> QED BY <1>1, <1>2
<1>4. \A j \in 1 .. c : u[Len(u) - c + j] = p[j]
  <2> HIDE DEF u
  <2> QED BY <1>1, <1>2, PendingElements
<1>5. \A j \in 1 .. d : s[Len(s) - d + j] = p[j]
  <2> SUFFICES ASSUME NEW j \in 1 .. d PROVE s[Len(s) - d + j] = p[j]
    OBVIOUS
  <2> HIDE DEF u
  <2>1. Len(u) - c + j = Len(s) - d + j /\ Len(s) - d + j \in 1 .. Len(s) /\ j \in 1 .. c
    BY <1>1, <1>2, <1>3
  <2>2. u[Len(s) - d + j] = s[Len(s) - d + j]
    BY <1>1, <2>1
  <2> QED
    BY <1>4, <2>1, <2>2
<1>6. d \in Pending(p, s)
  <2> HIDE DEF d
  <2> QED BY <1>3, <1>5, PendingElements
<1> QED
  BY <1>6

\* A stop sequence that the added text completes was pending before it, when it
\* begins before that text.
LEMMA StraddlingIsPending ==
    ASSUME NEW p \in Seq(Chars), NEW s \in Seq(Chars), NEW t \in Seq(Chars),
           NEW o \in Occurrences(p, s \o t), o < Len(s), o + Len(p) > Len(s)
    PROVE  Len(s) - o \in Pending(p, s)
<1> DEFINE u == s \o t
           d == Len(s) - o
<1>1. u \in Seq(Chars) /\ Len(u) = Len(s) + Len(t) /\ \A i \in 1 .. Len(s) : u[i] = s[i]
  OBVIOUS
<1>2. o \in Nat /\ o + Len(p) <= Len(u) /\ o \in Occurrences(p, u)
  BY DEF Occurrences
<1>3. d \in 1 .. Len(p) /\ d <= Len(s) /\ Len(s) - d = o
  <2> HIDE DEF u
  <2> QED BY <1>1, <1>2
<1>4. \A j \in 1 .. Len(p) : u[o + j] = p[j]
  <2> HIDE DEF u
  <2> QED BY <1>1, <1>2, OccurrenceElements
<1>5. \A j \in 1 .. d : s[Len(s) - d + j] = p[j]
  <2> SUFFICES ASSUME NEW j \in 1 .. d PROVE s[Len(s) - d + j] = p[j]
    OBVIOUS
  <2> HIDE DEF u
  <2>1. o + j \in 1 .. Len(s) /\ j \in 1 .. Len(p) /\ Len(s) - d + j = o + j
    BY <1>2, <1>3
  <2> QED
    BY <1>1, <1>4, <2>1
<1> QED
  <2> HIDE DEF d
  <2> QED BY <1>3, <1>5, PendingElements

\* An occurrence in the text is one in every continuation of it, and one that
\* ends within the old text was there before.
LEMMA OccurrenceStays ==
    ASSUME NEW p \in Seq(Chars), NEW s \in Seq(Chars), NEW t \in Seq(Chars), NEW o \in Nat,
           o + Len(p) <= Len(s)
    PROVE  o \in Occurrences(p, s) <=> o \in Occurrences(p, s \o t)
<1> DEFINE u == s \o t
<1>1. u \in Seq(Chars) /\ Len(u) = Len(s) + Len(t) /\ \A i \in 1 .. Len(s) : u[i] = s[i]
  OBVIOUS
<1>2. \A j \in 1 .. Len(p) : u[o + j] = s[o + j]
  <2> SUFFICES ASSUME NEW j \in 1 .. Len(p) PROVE u[o + j] = s[o + j]
    OBVIOUS
  <2> HIDE DEF u
  <2>1. o + j \in 1 .. Len(s)
    OBVIOUS
  <2> QED
    BY <1>1, <2>1
<1>3. o \in Occurrences(p, s) <=> \A j \in 1 .. Len(p) : s[o + j] = p[j]
  BY OccurrenceElements
<1>4. o \in Occurrences(p, u) <=> \A j \in 1 .. Len(p) : u[o + j] = p[j]
  <2> HIDE DEF u
  <2>1. o + Len(p) <= Len(u)
    BY <1>1
  <2> QED
    BY <1>1, <2>1, OccurrenceElements
<1> QED
  BY <1>2, <1>3, <1>4

(***************************************************************************)
(* safe_len.                                                               *)
(***************************************************************************)
LEMMA SafeProperties ==
    ASSUME pats \in Seq(Seq(Chars)), NEW s \in Seq(Chars)
    PROVE  /\ SafeLength(s) \in 0 .. Len(s)
           /\ \A k \in DOMAIN pats : \A c \in Pending(pats[k], s) : SafeLength(s) <= Len(s) - c
           /\ \/ SafeLength(s) = Len(s)
              \/ \E k \in DOMAIN pats : \E c \in Pending(pats[k], s) :
                    SafeLength(s) = Len(s) - c
<1> DEFINE S == {0} \cup {PartialLength(pats[k], s) : k \in DOMAIN pats}
<1>1. \A k \in DOMAIN pats : pats[k] \in Seq(Chars)
  OBVIOUS
<1>2. Len(s) \in Nat /\ \A k \in DOMAIN pats : PartialLength(pats[k], s) \in 0 .. Len(s)
  BY <1>1, PartialProperties
<1>3. S \in SUBSET (0 .. Len(s)) /\ S # {}
  BY <1>2
<1>4. Max(S) \in S /\ \A y \in S : Max(S) >= y
  <2> HIDE DEF S
  <2> QED BY <1>2, <1>3, MaxExists
<1>5. SafeLength(s) = Len(s) - Max(S)
  BY DEF SafeLength
<1>6. Max(S) \in 0 .. Len(s)
  <2> HIDE DEF S
  <2> QED BY <1>3, <1>4, Zenon
<1>7. SafeLength(s) \in 0 .. Len(s)
  <2> HIDE DEF S
  <2> QED BY <1>2, <1>5, <1>6
<1>8. ASSUME NEW k \in DOMAIN pats, NEW c \in Pending(pats[k], s)
      PROVE  SafeLength(s) <= Len(s) - c
  <2>1. c \in Nat /\ c <= PartialLength(pats[k], s)
    BY <1>1, PartialProperties DEF Pending
  <2>2. PartialLength(pats[k], s) \in S
    OBVIOUS
  <2> HIDE DEF S
  <2>3. PartialLength(pats[k], s) <= Max(S) /\ Max(S) \in Nat
    BY <1>4, <1>6, <2>2
  <2> QED
    BY <1>2, <1>5, <2>1, <2>3
<1>9. CASE Max(S) = 0
  <2> HIDE DEF S
  <2> QED BY <1>2, <1>5, <1>7, <1>8, <1>9
<1>10. CASE Max(S) # 0
  <2>1. PICK k \in DOMAIN pats : Max(S) = PartialLength(pats[k], s)
    BY <1>4, <1>10
  <2>2. Max(S) \in Pending(pats[k], s)
    BY <1>1, <1>10, <2>1, PartialProperties
  <2> HIDE DEF S
  <2> QED
    BY <1>5, <1>7, <1>8, <2>2
<1> QED
  BY <1>9, <1>10

\* Text that is safe stays safe when more text follows.
LEMMA SafeMonotone ==
    ASSUME pats \in Seq(Seq(Chars)), NEW s \in Seq(Chars), NEW t \in Seq(Chars)
    PROVE  SafeLength(s) <= SafeLength(s \o t)
<1> DEFINE u == s \o t
<1>1. u \in Seq(Chars) /\ Len(u) = Len(s) + Len(t) /\ Len(s) \in Nat /\ Len(t) \in Nat
  OBVIOUS
<1>2. SafeLength(s) \in 0 .. Len(s) /\ SafeLength(u) \in 0 .. Len(u)
  <2> HIDE DEF u
  <2> QED BY <1>1, SafeProperties
<1>3. CASE SafeLength(u) = Len(u)
  <2> HIDE DEF u
  <2>1. SafeLength(s) <= SafeLength(u)
    BY <1>1, <1>2, <1>3
  <2> USE DEF u
  <2> QED BY <2>1
<1>4. CASE SafeLength(u) # Len(u)
  <2>1. PICK k \in DOMAIN pats : \E c \in Pending(pats[k], u) : SafeLength(u) = Len(u) - c
    <3> HIDE DEF u
    <3> QED BY <1>1, <1>4, SafeProperties
  <2>2. PICK c \in Pending(pats[k], u) : SafeLength(u) = Len(u) - c
    BY <2>1
  <2>3. c \in Nat /\ pats[k] \in Seq(Chars)
    BY DEF Pending
  <2>4. CASE c <= Len(t)
    <3>1. SafeLength(u) >= Len(s)
      <4> HIDE DEF u
      <4> QED BY <1>1, <2>2, <2>3, <2>4
    <3> HIDE DEF u
    <3>2. SafeLength(s) <= SafeLength(u)
      BY <1>1, <1>2, <3>1
    <3> USE DEF u
    <3> QED BY <3>2
  <2>5. CASE c > Len(t)
    <3>1. c - Len(t) \in Pending(pats[k], s)
      BY <2>3, <2>5, PendingExtends
    <3>2. SafeLength(s) <= Len(s) - (c - Len(t))
      BY <3>1, SafeProperties
    <3> HIDE DEF u
    <3>3. SafeLength(s) <= SafeLength(u)
      BY <1>1, <1>2, <2>2, <2>3, <3>2
    <3> USE DEF u
    <3> QED BY <3>3
  <2> QED
    BY <1>1, <2>3, <2>4, <2>5
<1> QED
  BY <1>3, <1>4

\* A stop sequence that was not in the text and is there with the added text
\* begins no earlier than the safe part ends.
LEMMA MatchBeginsAfterSafe ==
    ASSUME pats \in Seq(Seq(Chars)), NEW s \in Seq(Chars), NEW t \in Seq(Chars),
           Matching(s) = {},
           NEW k \in DOMAIN pats, NEW o \in Occurrences(pats[k], s \o t)
    PROVE  SafeLength(s) <= o
<1> DEFINE p == pats[k]
<1>1. p \in Seq(Chars) /\ o \in Nat /\ Len(s) \in Nat /\ Len(p) \in Nat
  BY DEF Occurrences
<1>2. SafeLength(s) \in 0 .. Len(s)
  BY SafeProperties
<1>3. o \notin Occurrences(p, s)
  BY DEF Matching
<1>4. o + Len(p) > Len(s)
  <2> HIDE DEF p
  <2>1. CASE o + Len(p) <= Len(s)
    <3>1. o \in Occurrences(p, s) <=> o \in Occurrences(p, s \o t)
      BY <1>1, <2>1, OccurrenceStays
    <3> USE DEF p
    <3> QED BY <1>3, <3>1
  <2> QED
    BY <1>1, <2>1
<1>5. CASE o >= Len(s)
  BY <1>1, <1>2, <1>5
<1>6. CASE o < Len(s)
  <2>1. Len(s) - o \in Pending(p, s)
    BY <1>1, <1>4, <1>6, StraddlingIsPending
  <2>2. SafeLength(s) <= Len(s) - (Len(s) - o)
    BY <2>1, SafeProperties
  <2> QED
    BY <1>1, <1>2, <2>2
<1> QED
  BY <1>1, <1>5, <1>6

\* The match that feed reports.
LEMMA MatchProperties ==
    ASSUME pats \in Seq(Seq(Chars)), NEW s \in Seq(Chars), Matching(s) # {}
    PROVE  MatchOffset(s) \in 0 .. Len(s) /\ pats # << >>
<1>1. Matching(s) \in SUBSET Nat
  BY DEF Matching
<1>2. Min(Matching(s)) \in Matching(s)
  BY <1>1, MinExists
<1> DEFINE O == Occurrences(pats[Min(Matching(s))], s)
<1>3. O # {} /\ O \subseteq 0 .. Len(s)
  <2>1. O # {}
    BY <1>2 DEF Matching
  <2>2. O \subseteq 0 .. Len(s)
    BY DEF Occurrences
  <2> QED
    BY <2>1, <2>2
<1>4. Min(O) \in O
  <2>1. O \in SUBSET Nat
    BY <1>3
  <2> HIDE DEF O
  <2> QED BY <1>3, <2>1, MinExists
<1>5. pats # << >>
  BY DEF Matching
<1> QED
  BY <1>3, <1>4, <1>5 DEF MatchOffset

LEMMA MaxOfTwo ==
    ASSUME NEW x \in Int
    PROVE  Max({0, x}) = IF x > 0 THEN x ELSE 0
<1>1. \E m \in {0, x} : \A y \in {0, x} : m >= y
  OBVIOUS
<1>2. Max({0, x}) \in {0, x} /\ \A y \in {0, x} : Max({0, x}) >= y
  BY <1>1, Zenon DEF Max
<1> QED
  BY <1>2

-----------------------------------------------------------------------------
(***************************************************************************)
(* The invariant.                                                          *)
(***************************************************************************)

\* buf_ holds all that was fed, unless there are no patterns to look for.
BufferIsText == pc = "feeding" => buf = IF pats = << >> THEN 0 ELSE Len(text)

\* Only text that is safe now has been sent.
SafeSent == pc = "feeding" => \A i \in DOMAIN sent : sent[i] <= SafeLength(text)

\* Without patterns nothing is held back.
AllSent == pats = << >> => 1 .. Len(text) \subseteq Range(sent)

\* What flush_buffer will return is the whole answer.
BufferAtStop == pc \in {"matched", "flushing"} /\ pats # << >> => buf = AnswerLength

StopInv ==
    /\ StopTypeOK
    /\ BufferIsText
    /\ SafeSent
    /\ AllSent
    /\ BufferAtStop
    /\ NoStopMissed
    /\ NoStopLeaks
    /\ HeldTextComesOut

LEMMA PatternTypes ==
    ASSUME StopTypeOK
    PROVE  pats \in Seq(Seq(Chars)) /\ text \in Seq(Chars) /\ Len(text) \in Nat
BY StopAssumption DEF StopTypeOK

\* The buffer that feed looks at is all of the text, the new piece included.
LEMMA GrownIsText ==
    ASSUME StopTypeOK, BufferIsText, pc = "feeding", NEW piece \in Seq(Chars)
    PROVE  /\ pats # << >> => Grown(piece) = text \o piece
           /\ Matching(Grown(piece)) = {} => Matching(text \o piece) = {}
           /\ Matching(Grown(piece)) # {} => pats # << >>
<1>1. CASE pats # << >>
  <2>1. SubSeq(text, 1, Len(text)) = text
    BY PatternTypes
  <2>2. Grown(piece) = text \o piece
    BY <1>1, <2>1 DEF Grown, BufferIsText
  <2> QED
    BY <1>1, <2>2
<1>2. CASE pats = << >>
  BY <1>2 DEF Matching
<1> QED
  BY <1>1, <1>2

\* What feed lets through of the piece ends where the safe text ends.
LEMMA SafeInPieceProperties ==
    ASSUME StopTypeOK, BufferIsText, pc = "feeding", NEW piece \in Seq(Chars)
    PROVE  /\ SafeInPiece(piece) \in 0 .. Len(piece)
           /\ pats = << >> => SafeInPiece(piece) = Len(piece)
           /\ SafeInPiece(piece) > 0 =>
                 Len(text) + SafeInPiece(piece) = SafeLength(text \o piece)
<1> DEFINE u == text \o piece
<1>1. /\ u \in Seq(Chars) /\ Len(u) = Len(text) + Len(piece)
      /\ Len(text) \in Nat /\ Len(piece) \in Nat /\ pats \in Seq(Seq(Chars))
  BY PatternTypes
<1>2. SafeLength(u) \in 0 .. Len(u)
  <2> HIDE DEF u
  <2> QED BY <1>1, SafeProperties
<1>3. CASE pats = << >>
  <2>1. SafeInPiece(piece) = Len(piece)
    BY <1>3 DEF SafeInPiece
  <2>2. SafeLength(u) = Len(u)
    <3> HIDE DEF u
    <3>1. DOMAIN pats = {}
      BY <1>3
    <3> QED BY <1>1, <3>1, SafeProperties
  <2> QED
    BY <1>1, <2>1, <2>2
<1>4. CASE pats # << >>
  <2>1. Grown(piece) = u
    BY <1>4, GrownIsText
  <2>2. SafeInPiece(piece) = Max({0, SafeLength(u) - (Len(u) - Len(piece))})
    BY <1>4, <2>1 DEF SafeInPiece
  <2> DEFINE n == SafeInPiece(piece)
             m == SafeLength(u)
  <2>3. m \in 0 .. Len(text) + Len(piece) /\ n = Max({0, m - Len(text)})
    <3>1. Len(u) - Len(piece) = Len(text)
      BY <1>1
    <3> QED
      BY <1>1, <1>2, <2>2, <3>1
  <2> HIDE DEF n, m
  <2>4. m - Len(text) \in Int
    BY <1>1, <2>3
  <2>5. n = IF m - Len(text) > 0 THEN m - Len(text) ELSE 0
    BY <2>3, <2>4, MaxOfTwo
  <2>6. n \in 0 .. Len(piece) /\ (n > 0 => Len(text) + n = m)
    BY <1>1, <2>3, <2>5
  <2> QED
    BY <1>4, <2>6 DEF n, m
<1> QED
  BY <1>3, <1>4

\* The order in which positions are sent.
Ordered(s) == \A i, j \in DOMAIN s : i < j => s[i] < s[j]

LEMMA SentGrows ==
    ASSUME NEW s, NEW l \in Nat, NEW n \in Nat, NEW m \in Nat, l + n <= m,
           s \in Seq(1 .. l), Ordered(s)
    PROVE  LET t == s \o Span(l + 1, l + n)
           IN  /\ t \in Seq(1 .. m)
               /\ Ordered(t)
               /\ \A i \in DOMAIN t : (i \in DOMAIN s /\ t[i] = s[i]) \/ (n > 0 /\ t[i] <= l + n)
               /\ Range(s) \cup (l + 1 .. l + n) \subseteq Range(t)
<1> DEFINE w == Span(l + 1, l + n)
           t == s \o w
<1>1. /\ w \in Seq(l + 1 .. l + n) /\ Len(w) = n /\ \A i \in 1 .. n : w[i] = l + i
      /\ Range(w) = l + 1 .. l + n
  <2>1. PICK f \in Nat \ {0}, g \in Nat : f = l + 1 /\ g = l + n
    OBVIOUS
  <2>2. w = Span(f, g)
    BY <2>1
  <2>3. /\ w \in Seq(f .. g)
        /\ Len(w) = IF g >= f THEN g - f + 1 ELSE 0
        /\ \A i \in 1 .. Len(w) : w[i] = f + i - 1
        /\ Range(w) = f .. g
    <3> HIDE DEF w
    <3> QED BY <2>2, SpanElements
  <2> HIDE DEF w
  <2>4. Len(w) = n
    BY <2>1, <2>3
  <2>5. \A i \in 1 .. n : w[i] = l + i
    BY <2>1, <2>3, <2>4
  <2> QED
    BY <2>1, <2>3, <2>4, <2>5
<1>2. s \in Seq(1 .. m) /\ Len(s) \in Nat
  BY SeqMonotonic
<1>3. w \in Seq(1 .. m)
  <2>1. l + 1 .. l + n \subseteq 1 .. m
    OBVIOUS
  <2> HIDE DEF w
  <2> QED BY <1>1, <2>1, SeqMonotonic
<1> HIDE DEF w
<1>4. /\ t \in Seq(1 .. m) /\ Len(t) = Len(s) + n
      /\ \A i \in 1 .. Len(s) : t[i] = s[i]
      /\ \A i \in Len(s) + 1 .. Len(s) + n : t[i] = w[i - Len(s)]
  <2>1. /\ t \in Seq(1 .. m) /\ Len(t) = Len(s) + Len(w)
        /\ \A i \in 1 .. Len(s) + Len(w) : t[i] = IF i <= Len(s) THEN s[i] ELSE w[i - Len(s)]
    BY <1>2, <1>3, ConcatProperties
  <2> HIDE DEF t
  <2>2. Len(w) = n /\ Len(s) \in Nat
    BY <1>1, <1>2
  <2>3. \A i \in 1 .. Len(s) : i \in 1 .. Len(s) + Len(w) /\ i <= Len(s)
    BY <2>2
  <2>4. \A i \in Len(s) + 1 .. Len(s) + n : i \in 1 .. Len(s) + Len(w) /\ ~ (i <= Len(s))
    BY <2>2
  <2> QED
    BY <2>1, <2>2, <2>3, <2>4
<1> HIDE DEF t
<1>5. \A i \in Len(s) + 1 .. Len(s) + n : t[i] = l + (i - Len(s))
  <2> SUFFICES ASSUME NEW i \in Len(s) + 1 .. Len(s) + n PROVE t[i] = l + (i - Len(s))
    OBVIOUS
  <2>1. i - Len(s) \in 1 .. n
    BY <1>2
  <2> QED
    BY <1>1, <1>4, <2>1
<1>6. \A i \in 1 .. Len(s) : t[i] = s[i] /\ s[i] \in 1 .. l
  BY <1>4
<1>7. DOMAIN t = 1 .. Len(s) + n /\ DOMAIN s = 1 .. Len(s)
  BY <1>2, <1>4
<1>8. Ordered(t)
  <2> SUFFICES ASSUME NEW i \in 1 .. Len(s) + n, NEW j \in 1 .. Len(s) + n, i < j
               PROVE  t[i] < t[j]
    BY <1>7 DEF Ordered
  <2>1. CASE j <= Len(s)
    <3>1. i \in 1 .. Len(s) /\ j \in 1 .. Len(s)
      BY <1>2, <2>1
    <3> QED
      BY <1>6, <1>7, <3>1 DEF Ordered
  <2>2. CASE j > Len(s) /\ i <= Len(s)
    <3>1. t[j] = l + (j - Len(s)) /\ t[i] \in 1 .. l
      BY <1>2, <1>5, <1>6, <2>2
    <3> QED
      BY <1>2, <2>2, <3>1
  <2>3. CASE j > Len(s) /\ i > Len(s)
    <3>1. t[j] = l + (j - Len(s)) /\ t[i] = l + (i - Len(s))
      BY <1>2, <1>5, <2>3
    <3> QED
      BY <1>2, <2>3, <3>1
  <2> QED
    BY <1>2, <2>1, <2>2, <2>3
<1>9. ASSUME NEW i \in DOMAIN t
      PROVE  (i \in DOMAIN s /\ t[i] = s[i]) \/ (n > 0 /\ t[i] <= l + n)
  <2>1. CASE i <= Len(s)
    BY <1>6, <1>7, <2>1
  <2>2. CASE i > Len(s)
    <3>1. t[i] = l + (i - Len(s)) /\ i - Len(s) \in 1 .. n
      BY <1>2, <1>5, <1>7, <2>2
    <3> QED
      BY <3>1
  <2> QED
    BY <1>2, <1>7, <2>1, <2>2
<1>10. Range(s) \subseteq Range(t)
  <2> SUFFICES ASSUME NEW i \in 1 .. Len(s) PROVE s[i] \in Range(t)
    BY <1>7 DEF Range
  <2>1. i \in DOMAIN t /\ t[i] = s[i]
    BY <1>2, <1>6, <1>7
  <2> QED
    BY <2>1 DEF Range
<1>11. l + 1 .. l + n \subseteq Range(t)
  <2> SUFFICES ASSUME NEW x \in l + 1 .. l + n PROVE x \in Range(t)
    OBVIOUS
  <2>1. Len(s) + (x - l) \in Len(s) + 1 .. Len(s) + n /\ l + (Len(s) + (x - l) - Len(s)) = x
    BY <1>2
  <2>2. t[Len(s) + (x - l)] = x /\ Len(s) + (x - l) \in DOMAIN t
    BY <1>2, <1>5, <1>7, <2>1
  <2> QED
    BY <2>2 DEF Range
<1> QED
  BY <1>4, <1>8, <1>9, <1>10, <1>11 DEF t, w

-----------------------------------------------------------------------------
(***************************************************************************)
(* Every step keeps the invariant.                                         *)
(***************************************************************************)
LEMMA StopInit == Init => StopInv
<1> SUFFICES ASSUME Init PROVE StopInv
  OBVIOUS
<1>1. /\ pats \in Seq(Seq(Chars)) /\ buf = 0 /\ text = << >> /\ sent = << >> /\ tail = << >>
      /\ pc = "feeding" /\ Len(text) = 0 /\ DOMAIN sent = {}
  BY StopAssumption DEF Init
<1>2. StopTypeOK
  BY <1>1, StopAssumption DEF Init, StopTypeOK
<1>3. BufferIsText /\ SafeSent /\ AllSent
  BY <1>1 DEF BufferIsText, SafeSent, AllSent
<1> QED
  BY <1>1, <1>2, <1>3 DEF StopInv, BufferAtStop, NoStopMissed, NoStopLeaks, HeldTextComesOut

\* What a feed adds to the text.
LEMMA TextGrows ==
    ASSUME StopTypeOK, NEW piece \in Pieces, Len(text) + Len(piece) <= MaxText
    PROVE  /\ piece \in Seq(Chars) /\ text \o piece \in Seq(Chars)
           /\ Len(text \o piece) = Len(text) + Len(piece)
           /\ Len(text) \in Nat /\ Len(piece) \in Nat
           /\ Len(text \o piece) <= MaxText
           /\ sent \in Seq(1 .. Len(text \o piece)) /\ tail \in Seq(1 .. Len(text \o piece))
<1>1. piece \in Seq(Chars) /\ text \in Seq(Chars)
  BY StopAssumption, PatternTypes
<1>2. Len(text \o piece) = Len(text) + Len(piece) /\ Len(text) \in Nat /\ Len(piece) \in Nat
  BY <1>1
<1>3. 1 .. Len(text) \subseteq 1 .. Len(text \o piece)
  <2> DEFINE m == Len(text \o piece)
  <2>1. m = Len(text) + Len(piece)
    BY <1>2
  <2> HIDE DEF m
  <2>2. 1 .. Len(text) \subseteq 1 .. m
    BY <1>2, <2>1
  <2> QED
    BY <2>2 DEF m
<1>4. sent \in Seq(1 .. Len(text)) /\ tail \in Seq(1 .. Len(text))
  BY DEF StopTypeOK
<1> QED
  BY <1>1, <1>2, <1>3, <1>4, SeqMonotonic

LEMMA FeedSafeKeeps ==
    ASSUME StopInv, NEW piece \in Pieces, Len(text) + Len(piece) <= MaxText, FeedSafe(piece)
    PROVE  StopInv'
<1> DEFINE u == text \o piece
           n == SafeInPiece(piece)
<1>1. /\ piece \in Seq(Chars) /\ u \in Seq(Chars) /\ Len(u) = Len(text) + Len(piece)
      /\ Len(text) \in Nat /\ Len(piece) \in Nat /\ Len(u) <= MaxText
      /\ tail \in Seq(1 .. Len(u))
  BY TextGrows DEF StopInv
<1>2. /\ pc = "feeding" /\ pc' = "feeding" /\ text' = u /\ pats' = pats /\ tail' = tail
      /\ mode' = mode /\ sent' = sent \o Span(Len(text) + 1, Len(text) + n)
      /\ buf' = IF pats = << >> THEN buf ELSE buf + Len(piece)
      /\ Matching(Grown(piece)) = {}
  BY DEF FeedSafe
<1>3. StopTypeOK /\ BufferIsText /\ pats \in Seq(Seq(Chars)) /\ text \in Seq(Chars)
  BY PatternTypes DEF StopInv
<1>4. Matching(u) = {}
  BY <1>1, <1>2, <1>3, GrownIsText
<1>5. /\ n \in 0 .. Len(piece) /\ (pats = << >> => n = Len(piece))
      /\ (n > 0 => Len(text) + n = SafeLength(u))
  BY <1>1, <1>2, <1>3, SafeInPieceProperties
<1>6. SafeLength(text) <= SafeLength(u) /\ SafeLength(text) \in 0 .. Len(text)
      /\ SafeLength(u) \in 0 .. Len(u)
  <2>1. SafeLength(text) <= SafeLength(u)
    BY <1>1, <1>3, SafeMonotone
  <2> HIDE DEF u
  <2> QED BY <1>1, <1>3, <2>1, SafeProperties
<1>7. /\ Matching(text)' = Matching(u) /\ SafeLength(text)' = SafeLength(u)
      /\ \A k \in DOMAIN pats : Occurrences(pats[k], text)' = Occurrences(pats[k], u)
  BY <1>2 DEF Matching, SafeLength
<1> HIDE DEF u, n
<1>8. sent \in Seq(1 .. Len(text)) /\ Ordered(sent)
      /\ \A i \in DOMAIN sent : sent[i] \in Nat /\ sent[i] <= SafeLength(text)
  <2>1. sent \in Seq(1 .. Len(text)) /\ Ordered(sent)
    BY DEF StopInv, StopTypeOK, NoStopLeaks, Ordered
  <2>2. \A i \in DOMAIN sent : sent[i] \in 1 .. Len(text)
    BY <2>1
  <2> QED
    BY <1>2, <2>1, <2>2 DEF StopInv, SafeSent
<1>9. /\ sent' \in Seq(1 .. Len(u)) /\ Ordered(sent')
      /\ \A i \in DOMAIN sent' : (i \in DOMAIN sent /\ sent'[i] = sent[i])
                                 \/ (n > 0 /\ sent'[i] <= Len(text) + n)
      /\ Range(sent) \cup (Len(text) + 1 .. Len(text) + n) \subseteq Range(sent')
  <2>1. Len(text) + n <= Len(u) /\ Len(u) \in Nat /\ n \in Nat
    BY <1>1, <1>5
  <2>2. PICK l \in Nat, m \in Nat : l = Len(text) /\ m = Len(u)
    BY <1>1, <2>1
  <2>3. l + n <= m /\ sent \in Seq(1 .. l) /\ sent' = sent \o Span(l + 1, l + n)
    BY <1>2, <1>8, <2>1, <2>2
  <2> DEFINE t == sent \o Span(l + 1, l + n)
  <2>4. /\ t \in Seq(1 .. m) /\ Ordered(t)
        /\ \A i \in DOMAIN t : (i \in DOMAIN sent /\ t[i] = sent[i]) \/ (n > 0 /\ t[i] <= l + n)
        /\ Range(sent) \cup (l + 1 .. l + n) \subseteq Range(t)
    BY <1>8, <2>1, <2>3, SentGrows
  <2>5. sent' = t
    BY <2>3
  <2> HIDE DEF t
  <2> QED
    BY <2>2, <2>4, <2>5
<1>10. StopTypeOK'
  <2>1. buf' \in 0 .. Len(u)
    BY <1>1, <1>2, <1>3 DEF StopTypeOK
  <2> QED
    BY <1>1, <1>2, <1>3, <1>9, <2>1 DEF StopTypeOK
<1>11. BufferIsText'
  <2>1. buf = IF pats = << >> THEN 0 ELSE Len(text)
    BY <1>2, <1>3 DEF BufferIsText
  <2> QED
    BY <1>1, <1>2, <2>1 DEF BufferIsText
<1>12. SafeSent'
  <2> SUFFICES ASSUME NEW i \in DOMAIN sent' PROVE sent'[i] <= SafeLength(u)
    BY <1>7 DEF SafeSent
  <2>1. CASE i \in DOMAIN sent /\ sent'[i] = sent[i]
    BY <1>1, <1>6, <1>8, <2>1
  <2>2. CASE n > 0 /\ sent'[i] <= Len(text) + n
    BY <1>5, <2>2
  <2> QED
    BY <1>9, <2>1, <2>2
<1>13. AllSent'
  <2> SUFFICES ASSUME pats = << >> PROVE 1 .. Len(u) \subseteq Range(sent')
    BY <1>2 DEF AllSent
  <2>1. 1 .. Len(text) \subseteq Range(sent) /\ Len(text) + n = Len(u)
    BY <1>1, <1>5 DEF StopInv, AllSent
  <2>2. 1 .. Len(u) \subseteq (1 .. Len(text)) \cup (Len(text) + 1 .. Len(text) + n)
    BY <1>1, <2>1
  <2> QED
    BY <1>9, <2>1, <2>2
<1>14. NoStopLeaks'
  <2>1. \A k \in DOMAIN pats : Occurrences(pats[k], u) = {}
    BY <1>4 DEF Matching
  <2> QED
    BY <1>2, <1>7, <1>9, <2>1 DEF NoStopLeaks, Ordered
<1>15. NoStopMissed' /\ BufferAtStop' /\ HeldTextComesOut'
  BY <1>2, <1>4, <1>7 DEF NoStopMissed, BufferAtStop, HeldTextComesOut
<1> QED
  BY <1>10, <1>11, <1>12, <1>13, <1>14, <1>15 DEF StopInv

LEMMA FeedMatchKeeps ==
    ASSUME StopInv, NEW piece \in Pieces, Len(text) + Len(piece) <= MaxText, FeedMatch(piece)
    PROVE  StopInv'
<1> DEFINE u == text \o piece
<1>1. /\ piece \in Seq(Chars) /\ u \in Seq(Chars) /\ Len(u) = Len(text) + Len(piece)
      /\ Len(text) \in Nat /\ Len(piece) \in Nat /\ Len(u) <= MaxText
      /\ sent \in Seq(1 .. Len(u)) /\ tail \in Seq(1 .. Len(u))
  BY TextGrows DEF StopInv
<1>2. /\ pc = "feeding" /\ pc' = "matched" /\ text' = u /\ pats' = pats /\ tail' = tail
      /\ mode' = mode /\ sent' = sent /\ buf' = MatchOffset(Grown(piece))
      /\ Matching(Grown(piece)) # {}
  BY DEF FeedMatch
<1>3. StopTypeOK /\ BufferIsText /\ pats \in Seq(Seq(Chars)) /\ text \in Seq(Chars)
  BY PatternTypes DEF StopInv
<1>4. pats # << >> /\ Grown(piece) = u
  BY <1>1, <1>2, <1>3, GrownIsText
<1>5. \A k \in DOMAIN pats : \A o \in Occurrences(pats[k], u) : \A i \in DOMAIN sent : sent[i] <= o
  <2> SUFFICES ASSUME NEW k \in DOMAIN pats, NEW o \in Occurrences(pats[k], u),
                      NEW i \in DOMAIN sent
               PROVE  sent[i] <= o
    OBVIOUS
  <2>1. sent \in Seq(1 .. Len(text)) /\ sent[i] \in 1 .. Len(text)
    <3>1. sent \in Seq(1 .. Len(text))
      BY DEF StopInv, StopTypeOK
    <3> QED
      BY <3>1
  <2>2. text # << >>
    BY <1>1, <2>1
  <2>3. Matching(text) = {}
    BY <1>2, <2>2 DEF StopInv, NoStopMissed
  <2>4. SafeLength(text) <= o
    BY <1>1, <1>3, <2>3, MatchBeginsAfterSafe
  <2>5. sent[i] <= SafeLength(text)
    BY <1>2 DEF StopInv, SafeSent
  <2>6. SafeLength(text) \in Nat /\ o \in Nat
    BY <1>3, SafeProperties DEF Occurrences
  <2> QED
    BY <2>1, <2>4, <2>5, <2>6
<1> HIDE DEF u
<1>6. MatchOffset(u) \in 0 .. Len(u) /\ Matching(u) # {}
  BY <1>1, <1>2, <1>3, <1>4, MatchProperties
<1>7. /\ Matching(text)' = Matching(u) /\ MatchOffset(text)' = MatchOffset(u)
      /\ \A k \in DOMAIN pats : Occurrences(pats[k], text)' = Occurrences(pats[k], u)
  BY <1>2 DEF Matching, MatchOffset
<1>8. StopTypeOK'
  BY <1>1, <1>2, <1>3, <1>4, <1>6 DEF StopTypeOK
<1>9. BufferAtStop'
  BY <1>2, <1>4, <1>6, <1>7 DEF BufferAtStop, AnswerLength
<1>10. NoStopLeaks'
  BY <1>2, <1>5, <1>7 DEF NoStopLeaks, StopInv
<1> QED
  BY <1>2, <1>4, <1>8, <1>9, <1>10
     DEF StopInv, BufferIsText, SafeSent, AllSent, NoStopMissed, HeldTextComesOut

\* While pieces are fed, all of the text is the answer.
LEMMA AnswerIsText ==
    ASSUME StopInv, pc = "feeding"
    PROVE  AnswerLength = Len(text)
<1>1. pats \in Seq(Seq(Chars)) /\ text \in Seq(Chars)
  BY PatternTypes DEF StopInv
<1>2. CASE Matching(text) = {}
  BY <1>2 DEF AnswerLength
<1>3. CASE Matching(text) # {}
  <2>1. text = << >>
    BY <1>3 DEF StopInv, NoStopMissed
  <2>2. MatchOffset(text) \in 0 .. Len(text) /\ Len(text) = 0
    BY <1>1, <1>3, <2>1, MatchProperties
  <2> QED
    BY <1>3, <2>2 DEF AnswerLength
<1> QED
  BY <1>2, <1>3

LEMMA EndOfTextKeeps == StopInv /\ EndOfText => StopInv'
<1> SUFFICES ASSUME StopInv, EndOfText PROVE StopInv'
  OBVIOUS
<1>1. /\ pc = "feeding" /\ pc' = IF mode = "stream" THEN "flushing" ELSE "done"
      /\ mode' = mode /\ pats' = pats /\ buf' = buf /\ text' = text /\ sent' = sent /\ tail' = tail
  BY DEF EndOfText
<1>2. /\ Matching(text)' = Matching(text) /\ MatchOffset(text)' = MatchOffset(text)
      /\ AnswerLength' = AnswerLength
  BY <1>1 DEF Matching, MatchOffset, AnswerLength
<1>3. AnswerLength = Len(text)
  BY <1>1, AnswerIsText
<1>4. StopTypeOK' /\ NoStopLeaks' /\ AllSent'
  BY <1>1, <1>2 DEF StopInv, StopTypeOK, NoStopLeaks, AllSent
<1>5. BufferAtStop'
  BY <1>1, <1>2, <1>3 DEF StopInv, BufferIsText, BufferAtStop
<1>6. HeldTextComesOut'
  <2> SUFFICES ASSUME pc' = "done", mode = "stream" \/ Matching(text) # {}
               PROVE  1 .. AnswerLength \subseteq Range(sent) \cup Range(tail)
    BY <1>1, <1>2 DEF HeldTextComesOut
  <2>1. Matching(text) # {}
    BY <1>1
  <2>2. text = << >>
    BY <1>1, <2>1 DEF StopInv, NoStopMissed
  <2>3. Len(text) = 0
    BY <2>2
  <2> QED
    BY <1>3, <2>3
<1> QED
  BY <1>1, <1>4, <1>5, <1>6 DEF StopInv, BufferIsText, SafeSent, NoStopMissed

LEMMA LeaveLoopKeeps == StopInv /\ LeaveLoop => StopInv'
<1> SUFFICES ASSUME StopInv, LeaveLoop PROVE StopInv'
  OBVIOUS
<1>1. /\ pc = "matched" /\ pc' = "flushing"
      /\ mode' = mode /\ pats' = pats /\ buf' = buf /\ text' = text /\ sent' = sent /\ tail' = tail
  BY DEF LeaveLoop
<1>2. AnswerLength' = AnswerLength
  BY <1>1 DEF Matching, MatchOffset, AnswerLength
<1>3. StopTypeOK' /\ NoStopLeaks' /\ AllSent' /\ BufferAtStop'
  BY <1>1, <1>2 DEF StopInv, StopTypeOK, NoStopLeaks, AllSent, BufferAtStop
<1> QED
  BY <1>1, <1>3 DEF StopInv, BufferIsText, SafeSent, NoStopMissed, HeldTextComesOut

LEMMA FlushKeeps == StopInv /\ Flush => StopInv'
<1> SUFFICES ASSUME StopInv, Flush PROVE StopInv'
  OBVIOUS
<1>1. /\ pc = "flushing" /\ pc' = "done" /\ tail' = Span(1, buf) /\ buf' = 0
      /\ mode' = mode /\ pats' = pats /\ text' = text /\ sent' = sent
  BY DEF Flush
<1>2. AnswerLength' = AnswerLength /\ Matching(text)' = Matching(text)
  BY <1>1 DEF Matching, MatchOffset, AnswerLength
<1>3. buf \in 0 .. Len(text) /\ Len(text) \in Nat
  BY PatternTypes DEF StopInv, StopTypeOK
<1>4. tail' \in Seq(1 .. buf) /\ Range(tail') = 1 .. buf
  <2>1. 1 \in Nat \ {0} /\ buf \in Nat
    BY <1>3
  <2> QED
    BY <1>1, <2>1, SpanElements
<1>5. tail' \in Seq(1 .. Len(text))
  <2>1. 1 .. buf \subseteq 1 .. Len(text)
    BY <1>3
  <2> QED
    BY <1>4, <2>1, SeqMonotonic
<1>6. StopTypeOK' /\ NoStopLeaks' /\ AllSent'
  BY <1>1, <1>3, <1>5 DEF StopInv, StopTypeOK, NoStopLeaks, AllSent
<1>7. HeldTextComesOut'
  <2> SUFFICES 1 .. AnswerLength \subseteq Range(sent) \cup Range(tail')
    BY <1>1, <1>2 DEF HeldTextComesOut
  <2>1. CASE pats # << >>
    BY <1>1, <1>4, <2>1 DEF StopInv, BufferAtStop
  <2>2. CASE pats = << >>
    <3>1. Matching(text) = {}
      BY <2>2 DEF Matching
    <3>2. AnswerLength = Len(text)
      BY <3>1 DEF AnswerLength
    <3> QED
      BY <2>2, <3>2 DEF StopInv, AllSent
  <2> QED
    BY <2>1, <2>2
<1> QED
  BY <1>1, <1>6, <1>7 DEF StopInv, BufferIsText, SafeSent, BufferAtStop, NoStopMissed

LEMMA StopNext == StopInv /\ [Next]_stopVars => StopInv'
<1> SUFFICES ASSUME StopInv, [Next]_stopVars PROVE StopInv'
  OBVIOUS
<1>1. CASE Feed
  BY <1>1, FeedSafeKeeps, FeedMatchKeeps DEF Feed
<1>2. CASE EndOfText
  BY <1>2, EndOfTextKeeps
<1>3. CASE LeaveLoop
  BY <1>3, LeaveLoopKeeps
<1>4. CASE Flush
  BY <1>4, FlushKeeps
<1>5. CASE UNCHANGED stopVars
  <2>1. /\ mode' = mode /\ pats' = pats /\ buf' = buf /\ text' = text /\ sent' = sent
        /\ tail' = tail /\ pc' = pc
    BY <1>5 DEF stopVars
  <2>2. /\ Matching(text)' = Matching(text) /\ SafeLength(text)' = SafeLength(text)
        /\ AnswerLength' = AnswerLength
    BY <2>1 DEF Matching, SafeLength, MatchOffset, AnswerLength
  <2> QED
    BY <2>1, <2>2 DEF StopInv, StopTypeOK, BufferIsText, SafeSent, AllSent, BufferAtStop,
                      NoStopMissed, NoStopLeaks, HeldTextComesOut
<1> QED
  BY <1>1, <1>2, <1>3, <1>4, <1>5 DEF Next

-----------------------------------------------------------------------------
(***************************************************************************)
(* The theorems.                                                           *)
(***************************************************************************)

\* What StopMatcher and the loops around it keep true of the buffer, the text
\* and what was sent, whatever the tokens and the stop sequences are.
THEOREM StopInductive == Spec => []StopInv
<1>1. Init => StopInv
  BY StopInit
<1>2. StopInv /\ [Next]_stopVars => StopInv'
  BY StopNext
<1> QED
  BY <1>1, <1>2, PTL DEF Spec

\* The buffer is never longer than the text, and only positions of generated
\* text are sent.
THEOREM StopTypeCorrect == Spec => []StopTypeOK
<1>1. StopInv => StopTypeOK
  BY DEF StopInv
<1> QED
  BY <1>1, StopInductive, PTL

\* No character of a stop sequence is sent before the sequence is recognised,
\* however the tokens cut it up; what is sent is in order and never twice.
THEOREM NoStopLeaksHolds == Spec => []NoStopLeaks
<1>1. StopInv => NoStopLeaks
  BY DEF StopInv
<1> QED
  BY <1>1, StopInductive, PTL

\* While the loops feed more pieces, the text holds no complete stop sequence.
THEOREM NoStopMissedHolds == Spec => []NoStopMissed
<1>1. StopInv => NoStopMissed
  BY DEF StopInv
<1> QED
  BY <1>1, StopInductive, PTL

\* Text that was held back comes out in the end, up to the stop sequence.
THEOREM HeldTextComesOutHolds == Spec => []HeldTextComesOut
<1>1. StopInv => HeldTextComesOut
  BY DEF StopInv
<1> QED
  BY <1>1, StopInductive, PTL

=============================================================================
