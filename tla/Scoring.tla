------------------------------- MODULE Scoring -------------------------------
(***************************************************************************)
(* Which tokens of a text are scored: Model::score_logprobs                *)
(* (src/src/model.cpp) and the handlers that lay out its result,           *)
(* handle_completions with echo and handle_logprobs (src/src/server.cpp).  *)
(*                                                                         *)
(* The log-probability of a token is left out: an entry of the result is   *)
(* the token it is about.  Sequences count from 1 here, from 0 in the      *)
(* code.                                                                   *)
(***************************************************************************)
EXTENDS BytePair

CONSTANT MaxCtx    \* config.max_ctx_size

ASSUME ScoringAssumption == MaxCtx \in Nat \ {0}

\* first_pos: the first token has nothing before it.
FirstScored(start) == IF start < 1 THEN 1 ELSE start

\* score_logprobs(ids, k, start).logprobs
Scored(ids, start) == SubSeq(ids, FirstScored(start) + 1, Len(ids))

\* handle_completions: only the last max_ctx_size tokens of the prompt remain.
Truncated(ids) ==
    IF Len(ids) > MaxCtx THEN SubSeq(ids, Len(ids) - MaxCtx + 1, Len(ids)) ELSE ids

\* The "tokens" of an echo response; the first one has a null log-probability.
EchoTokens(ids, start) == <<Head(ids)>> \o Scored(ids, start)

\* Mutant of ContinuationTokens: the entry of the token is taken at its index.
ContinuationAtIndex(p, c) ==
    LET full == Encode(p \o c)
    IN  SubSeq(Scored(full, 0), Len(Encode(p)) + 1, Len(full) - 1)

\* The "token_logprobs" of /v1/logprobs: the entries from prompt_len - 1 on.
ContinuationTokens(p, c) ==
    LET full == Encode(p \o c)
    IN  SubSeq(Scored(full, 0), Len(Encode(p)), Len(full) - 1)

-----------------------------------------------------------------------------
(* What a client takes the answers for.                                    *)

\* The tokenizer ends a piece where the prompt ends, and no special token is
\* in the way.
CleanSplit(p, c) ==
    /\ \A i \in DOMAIN (p \o c) : (p \o c)[i] \notin LeadBytes
    /\ Pieces(p \o c) = Pieces(p) \o Pieces(c)

\* The tokens that /v1/logprobs scores spell the continuation.
SpellsContinuation(p, c) == Decode(ContinuationTokens(p, c), FALSE) = c

=============================================================================
