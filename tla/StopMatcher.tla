----------------------------- MODULE StopMatcher -----------------------------
(***************************************************************************)
(* The stop-sequence detector (class StopMatcher, src/src/request.cpp) and *)
(* the way Worker::process uses it: what text a client is given for the    *)
(* text that was generated.                                                *)
(*                                                                         *)
(* A stream feeds the piece of each token and sends its safe part; when    *)
(* the token loop is over it sends what flush_buffer returns.  A block     *)
(* request feeds the whole text character by character after the loop and  *)
(* keeps the safe characters; it flushes only after a match.  Both are the *)
(* loop below: how the text of a block request was cut into tokens does    *)
(* not matter, so its pieces are single characters.                        *)
(*                                                                         *)
(* Characters are model values.  What the client got is recorded as the    *)
(* positions of the generated text it was taken from, so that loss and     *)
(* duplication can be told from coincidence.                               *)
(***************************************************************************)
EXTENDS Integers, Sequences, FiniteSetsExt, Functions

CONSTANTS
    Chars,         \* characters
    Pieces,        \* the decoded texts of tokens (sequences of characters)
    PatternLists,  \* values of GenRequest::stop_sequences
    MaxText        \* bound on the length of the generated text

ASSUME StopAssumption ==
    /\ Pieces \subseteq Seq(Chars)
    /\ PatternLists \subseteq Seq(Seq(Chars))
    /\ MaxText \in Nat

VARIABLES
    mode,     \* "stream" or "block" (GenRequest::stream)
    pats,     \* StopMatcher::pats_
    buf,      \* StopMatcher::buf_, as a length: buf_ is a prefix of the text
    text,     \* history: all the text that has been fed
    sent,     \* positions of text given to the client by feed
    tail,     \* positions of text given to the client by flush_buffer
    pc        \* "feeding", "matched", "flushing" or "done"

stopVars == <<mode, pats, buf, text, sent, tail, pc>>

-----------------------------------------------------------------------------
(* feed                                                                    *)

\* Where p occurs in s: offsets of its first character.
Occurrences(p, s) ==
    {o \in 0 .. Len(s) : o + Len(p) <= Len(s) /\ SubSeq(s, o + 1, o + Len(p)) = p}

\* The patterns are tried in order; each is searched from the start of buf_.
Matching(s) == {k \in DOMAIN pats : Occurrences(pats[k], s) # {}}
MatchOffset(s) == Min(Occurrences(pats[Min(Matching(s))], s))

\* Mutant of PartialLength: the shortest pending prefix instead of the longest.
ShortestPartial(p, s) ==
    LET pending == {c \in 1 .. Len(p) :
                       c <= Len(s) /\ SubSeq(s, Len(s) - c + 1, Len(s)) = SubSeq(p, 1, c)}
    IN  IF pending = {} THEN 0 ELSE Min(pending)

\* The longest suffix of s that is a prefix of p.
PartialLength(p, s) ==
    Max({0} \cup {c \in 1 .. Len(p) :
             c <= Len(s) /\ SubSeq(s, Len(s) - c + 1, Len(s)) = SubSeq(p, 1, c)})

\* safe_len: s without the longest suffix that may become a stop sequence.
SafeLength(s) ==
    Len(s) - Max({0} \cup {PartialLength(pats[k], s) : k \in DOMAIN pats})

-----------------------------------------------------------------------------
(* The loop of Worker::process.                                            *)

Init ==
    /\ mode \in {"stream", "block"}
    /\ pats \in PatternLists
    /\ buf = 0
    /\ text = << >>
    /\ sent = << >>
    /\ tail = << >>
    /\ pc = "feeding"

\* The positions from .. to of the text, in order.
Span(from, to) == [i \in 1 .. (IF to >= from THEN to - from + 1 ELSE 0) |-> from + i - 1]

\* Mutant of Grown: "buf_ = piece", the buffer does not outlive a piece.
GrownFromNothing(piece) == piece

\* buf_ after "buf_ += piece"; without patterns buf_ is not used at all.
Grown(piece) == SubSeq(text, 1, buf) \o piece

\* feed returns -1: the buffer keeps what precedes the match.
FeedMatch(piece) ==
    /\ pc = "feeding"
    /\ Matching(Grown(piece)) # {}
    /\ text' = text \o piece
    /\ buf' = MatchOffset(Grown(piece))
    /\ pc' = "matched"
    /\ UNCHANGED <<mode, pats, sent, tail>>

\* Mutant of SafeInPiece: the safe part of the buffer taken for the piece's.
SafeInBuffer(piece) ==
    IF pats = << >> THEN Len(piece) ELSE SafeLength(Grown(piece))

\* How much of the piece feed lets through: the safe part of the buffer less
\* what the buffer already held; nothing when that is negative.
SafeInPiece(piece) ==
    IF pats = << >> THEN Len(piece)
    ELSE Max({0, SafeLength(Grown(piece)) - (Len(Grown(piece)) - Len(piece))})

\* The caller sends the safe beginning of the piece.  A block request keeps a
\* piece of one character or drops it, which is the same.
FeedSafe(piece) ==
    /\ pc = "feeding"
    /\ Matching(Grown(piece)) = {}
    /\ text' = text \o piece
    /\ buf' = IF pats = << >> THEN buf ELSE buf + Len(piece)
    /\ sent' = sent \o Span(Len(text) + 1, Len(text) + SafeInPiece(piece))
    /\ UNCHANGED <<mode, pats, tail, pc>>

Feed ==
    \E piece \in Pieces :
        /\ Len(text) + Len(piece) <= MaxText
        /\ mode = "block" => Len(piece) = 1
        /\ FeedMatch(piece) \/ FeedSafe(piece)

\* The text ends without a match: eos, max_tokens, cancel or the context.
EndOfText ==
    /\ pc = "feeding"
    /\ pc' = IF mode = "stream" THEN "flushing" ELSE "done"
    /\ UNCHANGED <<mode, pats, buf, text, sent, tail>>

\* The match ends the loop; both modes flush after it.
LeaveLoop ==
    /\ pc = "matched"
    /\ pc' = "flushing"
    /\ UNCHANGED <<mode, pats, buf, text, sent, tail>>

\* Mutant of Flush: the buffer is cleared before it is returned.
FlushCleared ==
    /\ pc = "flushing"
    /\ tail' = << >>
    /\ buf' = 0
    /\ pc' = "done"
    /\ UNCHANGED <<mode, pats, text, sent>>

\* flush_buffer() returns buf_ and clears it; the caller sends the result.
Flush ==
    /\ pc = "flushing"
    /\ tail' = Span(1, buf)
    /\ buf' = 0
    /\ pc' = "done"
    /\ UNCHANGED <<mode, pats, text, sent>>

Next == Feed \/ EndOfText \/ LeaveLoop \/ Flush

Spec == Init /\ [][Next]_stopVars

-----------------------------------------------------------------------------

StopTypeOK ==
    /\ mode \in {"stream", "block"}
    /\ pats \in PatternLists
    /\ text \in Seq(Chars)
    /\ Len(text) <= MaxText
    /\ buf \in 0 .. Len(text)
    /\ sent \in Seq(1 .. Len(text))
    /\ tail \in Seq(1 .. Len(text))
    /\ pc \in {"feeding", "matched", "flushing", "done"}

\* No character of a stop sequence gets out before the sequence is recognised,
\* however the tokens cut it up and whichever pattern it belongs to; what gets
\* out is in order and never twice.
NoStopLeaks ==
    /\ \A k \in DOMAIN pats : \A o \in Occurrences(pats[k], text) :
          \A i \in DOMAIN sent : sent[i] <= o
    /\ \A i, j \in DOMAIN sent : i < j => sent[i] < sent[j]

\* Generation stops as soon as a stop sequence is complete: while pieces are
\* still fed the text contains none, not even across pieces.  (The empty stop
\* sequence is only found by the first call of feed.)
NoStopMissed == pc = "feeding" /\ text # << >> => Matching(text) = {}

\* The text that belongs to the answer: up to the stop sequence, all of it when
\* there is none.
AnswerLength == IF Matching(text) = {} THEN Len(text) ELSE MatchOffset(text)

\* Text held back as the possible beginning of a stop sequence is not lost: in
\* every stream, and in a block request that met a stop sequence, each
\* character of the answer is delivered by feed or by flush_buffer.
HeldTextComesOut ==
    pc = "done" /\ (mode = "stream" \/ Matching(text) # {}) =>
        1 .. AnswerLength \subseteq Range(sent) \cup Range(tail)

\* "Any buffered text that turned out not to be a stop sequence"
\* (request.h:76): what flush_buffer adds to what feed let through makes the
\* answer, once and in order.
TextUpToStop == pc = "done" => sent \o tail = Span(1, AnswerLength)

=============================================================================
