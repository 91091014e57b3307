------------------------------ MODULE BytePair ------------------------------
(***************************************************************************)
(* The tokenizer (src/src/tokenizer.cpp): the split of a text into pieces, *)
(* byte-pair encoding of a piece, the special tokens, and decoding.        *)
(*                                                                         *)
(* A text is a sequence of bytes, and so is a token: the GPT-2 alphabet    *)
(* that stands for bytes in the vocabulary is left out, it is a bijection. *)
(* The id of a token is the token itself.  Texts are well-formed UTF-8, so *)
(* that stepping over a character steps over letters; lower and upper case *)
(* are one letter.  The control tokens that decode may leave out are taken *)
(* to be those that encode looks for.                                      *)
(***************************************************************************)
EXTENDS Integers, Sequences, FiniteSetsExt, SequencesExt

CONSTANTS
    Letters, Digits, Spaces, Newlines,   \* byte_cls: any other is punctuation
    Blank,       \* the one of Spaces that is ' '
    Quote,       \* the apostrophe
    OneEnding,   \* the letters of 's, 't, 'm and 'd
    TwoEndings,  \* re, ve and ll
    Merges,      \* tokenizer.ggml.merges: pairs of tokens, the first first
    Vocab,       \* tokenizer.ggml.tokens
    Specials,    \* special_token_map_
    Bos          \* the token that encode puts first

ASSUME TokenizerAssumption ==
    /\ Blank \in Spaces \ (Letters \cup Digits)
    /\ Quote \notin Letters \cup Digits \cup Spaces \cup Newlines
    /\ OneEnding \subseteq Letters /\ TwoEndings \subseteq Seq(Letters)
    /\ Vocab \subseteq Seq(STRING) /\ Specials \subseteq Seq(STRING) /\ Bos \in Seq(STRING)
    /\ << >> \notin Specials    \* encode would find it without end
    /\ Merges \in Seq(Seq(STRING) \X Seq(STRING))

-----------------------------------------------------------------------------
(* pre_tokenize.                                                           *)

Class(b) == IF b \in Letters THEN "L" ELSE IF b \in Digits THEN "N"
            ELSE IF b \in Spaces THEN "S" ELSE IF b \in Newlines THEN "R"
            ELSE "P"

\* The first position from p on whose byte is not of the classes cs.
RunEnd(t, p, cs) ==
    Min({q \in p .. Len(t) + 1 : q = Len(t) + 1 \/ Class(t[q]) \notin cs})

\* The class of the byte at p, "end" beyond the text.
ClassAt(t, p) == IF p <= Len(t) THEN Class(t[p]) ELSE "end"

\* Mutant of PieceEnd: digits are not counted.
PieceEndAllDigits(t, p) ==
    LET q == IF t[p] = Blank THEN p + 1 ELSE p
    IN  CASE ClassAt(t, q) = "L" -> RunEnd(t, q, {"L"})
          [] ClassAt(t, q) = "P" -> RunEnd(t, RunEnd(t, q, {"P"}), {"R"})
          [] OTHER -> RunEnd(t, p, {Class(t[p])})

\* Where the piece that begins at p ends: the tests in their order.
PieceEnd(t, p) ==
    LET q == IF t[p] = Blank THEN p + 1 ELSE p
    IN  IF t[p] = Quote /\ p < Len(t) /\ t[p + 1] \in OneEnding THEN p + 2
        ELSE IF t[p] = Quote /\ p + 1 < Len(t) /\ SubSeq(t, p + 1, p + 2) \in TwoEndings THEN p + 3
        ELSE IF ClassAt(t, q) = "L" THEN RunEnd(t, q, {"L"})
        ELSE IF Class(t[p]) = "N" THEN Min({p + 3, RunEnd(t, p, {"N"})})
        ELSE IF Class(t[p]) = "R" THEN RunEnd(t, p, {"R", "S"})
        ELSE IF ClassAt(t, q) = "P" THEN RunEnd(t, RunEnd(t, q, {"P"}), {"R"})
        ELSE RunEnd(t, p, {"S"})

\* One piece after the other, up to the end of the text.
Pieces(t) ==
    LET from[p \in 1 .. Len(t) + 1] ==
            IF p > Len(t) THEN << >>
            ELSE LET q == PieceEnd(t, p) IN <<SubSeq(t, p, q - 1)>> \o from[q]
    IN  from[1]

-----------------------------------------------------------------------------
(* bpe_encode_piece.                                                       *)

\* merge_rank_ of the pair at i; a pair that is listed twice has the last rank.
RanksAt(syms, i) ==
    {r \in DOMAIN Merges : Merges[r] = <<syms[i], syms[i + 1]>>}

Mergeable(syms) == {i \in 1 .. Len(syms) - 1 : RanksAt(syms, i) # {}}

\* Mutant of BestPair: the first pair that can be merged, whatever its rank.
FirstPair(syms) == Min(Mergeable(syms))

\* The leftmost of the pairs with the lowest rank.
BestPair(syms) ==
    LET rank(i) == Max(RanksAt(syms, i))
        low == Min({rank(i) : i \in Mergeable(syms)})
    IN  Min({i \in Mergeable(syms) : rank(i) = low})

MergeAt(syms, i) ==
    SubSeq(syms, 1, i - 1) \o <<syms[i] \o syms[i + 1]>>
        \o SubSeq(syms, i + 2, Len(syms))

\* One round of the loop; the loop is over when there is nothing to merge.
MergeOnce(syms) ==
    IF Mergeable(syms) = {} THEN syms ELSE MergeAt(syms, BestPair(syms))

\* A merge leaves one symbol less, so there are fewer rounds than symbols.
MergeAll(syms) ==
    LET after[k \in 0 .. Len(syms)] == IF k = 0 THEN syms ELSE MergeOnce(after[k - 1])
    IN  after[Len(syms)]

Chars(s) == [i \in 1 .. Len(s) |-> <<s[i]>>]

\* Mutant of TokensOf: a symbol without a token is dropped.
TokensOrNothing(sym) == IF sym \in Vocab THEN <<sym>> ELSE << >>

\* A symbol that is no token becomes those of its bytes that are.
TokensOf(sym) ==
    IF sym \in Vocab THEN <<sym>>
    ELSE FlattenSeq([i \in DOMAIN sym |->
            IF <<sym[i]>> \in Vocab THEN <<<<sym[i]>>>> ELSE << >>])

EncodePiece(piece) ==
    LET syms == MergeAll(Chars(piece))
    IN  FlattenSeq([i \in DOMAIN syms |-> TokensOf(syms[i])])

EncodeSegment(t) ==
    LET pieces == Pieces(t)
    IN  FlattenSeq([i \in DOMAIN pieces |-> EncodePiece(pieces[i])])

-----------------------------------------------------------------------------
(* encode and decode.                                                      *)

LeadBytes == {s[1] : s \in Specials}

\* The longest special token at p, if there is one.
SpecialsAt(t, p) == {s \in Specials : IsPrefix(s, SubSeq(t, p, Len(t)))}
Longest(S) == CHOOSE s \in S : \A u \in S : Len(u) <= Len(s)

\* Where the segment of ordinary text that begins at p ends: before the next
\* byte that could begin a special token.
SegmentEnd(t, p) ==
    Min({q \in p + 1 .. Len(t) + 1 : q = Len(t) + 1 \/ t[q] \in LeadBytes})

\* A special token or a segment after the other, up to the end of the text.
EncodeAll(t) ==
    LET from[p \in 1 .. Len(t) + 1] ==
            IF p > Len(t) THEN << >>
            ELSE LET found == SpecialsAt(t, p)
                     q     == IF found # {} THEN p + Len(Longest(found)) ELSE SegmentEnd(t, p)
                 IN  (IF found # {} THEN <<Longest(found)>>
                      ELSE EncodeSegment(SubSeq(t, p, q - 1))) \o from[q]
    IN  from[1]

\* encode(text, true)
Encode(t) == <<Bos>> \o EncodeAll(t)

\* decode: Bos and the special tokens are left out when skip is set.
Decode(ids, skip) ==
    FlattenSeq([i \in DOMAIN ids |->
        IF skip /\ ids[i] \in Specials \cup {Bos} THEN << >> ELSE ids[i]])

-----------------------------------------------------------------------------
(* What the encoder promises of a text.                                    *)

\* Byte-pair encoding as it is usually defined: each merge of the table in
\* turn, wherever it applies, from the left.
ApplyMerge(syms, m) ==
    FoldLeft(LAMBDA acc, x : IF acc # << >> /\ Last(acc) = m[1] /\ x = m[2]
                             THEN Append(Front(acc), m[1] \o x)
                             ELSE Append(acc, x),
             << >>, syms)

ByTheTable(piece) == FoldLeft(ApplyMerge, Chars(piece), Merges)

\* Merging one pair at a time, from the lowest rank among those present, gives
\* what the merge table says.
MergesByTheTable(t) ==
    LET ps == Pieces(t)
    IN  \A i \in DOMAIN ps : MergeAll(Chars(ps[i])) = ByTheTable(ps[i])

\* A table in the order of training: each pair is there once, and a token is
\* made before any merge uses it.
InOrder ==
    /\ IsInjective(Merges)
    /\ \A r \in DOMAIN Merges : \A q \in 1 .. r :
          Merges[r][1] \o Merges[r][2] \notin {Merges[q][1], Merges[q][2]}

\* Nothing of a text is lost or invented by splitting, merging and looking up,
\* when every byte has a token.
TextComesBack(t) ==
    (\A i \in DOMAIN t : <<t[i]>> \in Vocab) =>
        Decode(Tail(Encode(t)), FALSE) = t

\* A piece is one word with at most one blank before it, up to three digits, a
\* contraction, or a run without letters and digits.
WellSplit(t) ==
    \A i \in DOMAIN Pieces(t) :
        LET piece == Pieces(t)[i]
            body  == IF piece[1] \in {Blank, Quote} THEN Tail(piece) ELSE piece
            cs    == {Class(body[k]) : k \in DOMAIN body}
        IN  /\ piece # << >>
            /\ "N" \in cs => cs = {"N"} /\ Len(piece) <= 3
            /\ "L" \in cs => cs = {"L"}

=============================================================================
