------------------------- MODULE MCInferenceServer --------------------------
(***************************************************************************)
(* The requests of the TLC runs of InferenceServer.  With MaxSeqLen = 3:   *)
(* a prompt of 1 leaves room for the whole max_tokens of 2, a prompt of 2  *)
(* meets the end of the context while generating, a prompt of 4 does not   *)
(* fit in the KV cache, and a prompt of 0 never reaches the model.         *)
(***************************************************************************)
EXTENDS InferenceServer, TLC

Rq(k, p, s) == [kind |-> k, plen |-> p, limit |-> 2, stops |-> s]

AllRequests ==
    {Rq("light", 1, FALSE), Rq("direct", 0, FALSE), Rq("direct", 2, FALSE),
     Rq("direct", 4, FALSE), Rq("block", 0, FALSE), Rq("block", 2, FALSE),
     Rq("stream", 1, TRUE), Rq("stream", 4, TRUE)}

\* One of each, with one token at most, for the run that checks liveness: a
\* stream still has a token, a tail and a FINISH for a channel that holds one.
FewRequests ==
    {[r EXCEPT !.limit = 1] : r \in {Rq("direct", 1, FALSE),
                                     Rq("block", 1, FALSE),
                                     Rq("stream", 1, TRUE)}}

Symmetry == Permutations(Handlers)

=============================================================================
