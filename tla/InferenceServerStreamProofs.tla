--------------------- MODULE InferenceServerStreamProofs ---------------------
(***************************************************************************)
(* What travels on a token channel arrives: proofs about the events        *)
(* between the worker and the client of InferenceServer, for every set of  *)
(* connections, channel capacity, context length and set of requests; and, *)
(* from them, that the server implements SerialService.                    *)
(***************************************************************************)
EXTENDS InferenceServerProofs, SequenceTheorems

-----------------------------------------------------------------------------
(* The inductive invariant.  NoFragmentLost and ResponseComplete are not   *)
(* inductive: that a fragment is sent in its turn depends on where it      *)
(* stood in the channel, and that the loop over pop() ends with a          *)
(* finish_reason on no channel being closed before its last event is in.   *)

\* Where no fragment can be: the request is not a stream, or has not been
\* submitted.
Unstreamed == {"off", "parse", "lock", "body", "prefill", "sample", "step",
               "reply", "error", "submit", "await"}

\* Where the handler has nothing more to read from its channel.
Over == {"last", "unlock", "close", "done"}

\* TOKEN events of h that have left its channel.
Taken(h) == emitted[h] - Pending(h)

\* The last event of h is in its channel.
Ended(h) == chan[h].q # << >> /\ Terminal(chan[h].q[Len(chan[h].q)])

\* The tokens of a channel are the last ones emitted, in order, and only a
\* terminal event follows them.
ChannelInv(h) ==
    /\ Pending(h) <= emitted[h]
    /\ \A i \in 1 .. Pending(h) : chan[h].q[i] = Token(Taken(h) + i)

\* Where the handler is and what is left in its channel; a channel is closed
\* after its last event only.
PlaceInv(h) ==
    /\ hpc[h] \in Unstreamed => emitted[h] = 0 /\ chan[h].q = << >>
    /\ hpc[h] = "headers" => Taken(h) = 0
    /\ hpc[h] = "chunk" => Taken(h) >= 1 /\ held[h].n = Taken(h)
    /\ hpc[h] \in Over => chan[h].q = << >>
    /\ chan[h].closed \/ (wpc = "close" /\ wreq = h)
          => Ended(h) \/ hpc[h] \in Over

\* s starts with an SSE stream of n fragments.
Opens(s, n) ==
    /\ s[1].kind = "headers" /\ s[2].kind = "role"
    /\ \A i \in 1 .. n : s[i + 2] = Item("chunk", i)

Finished(s, n) ==
    /\ Len(s) = n + 4
    /\ Opens(s, n)
    /\ s[n + 3].kind \in Reasons
    /\ s[n + 4].kind = "DONE"

\* What a client that stays has received.
OutInv(h) ==
    conn[h] =>
        /\ hpc[h] \in Unstreamed \cup {"headers"} => out[h] = << >>
        /\ hpc[h] \in {"drain", "last"} =>
              Len(out[h]) = Taken(h) + 2 /\ Opens(out[h], Taken(h))
        /\ hpc[h] = "chunk" =>
              Len(out[h]) = Taken(h) + 1 /\ Opens(out[h], Taken(h) - 1)
        /\ hpc[h] \in {"unlock", "close", "done"} =>
              \/ /\ emitted[h] = 0
                 /\ Len(out[h]) = 1 /\ out[h][1].kind \in {"reply", "error"}
              \/ req[h].kind = "stream" /\ Finished(out[h], emitted[h])
              \/ hpc[h] # "unlock" /\ emitted[h] = 0 /\ out[h] = << >>

StreamOf(h) == ChannelInv(h) /\ PlaceInv(h) /\ OutInv(h)

\* The worker emits, flushes and closes for a stream only.
StreamOnly == wpc \in {"emit", "flush", "close"} => req[wreq].kind = "stream"

StreamInv == StreamOnly /\ \A h \in Handlers : StreamOf(h)

-----------------------------------------------------------------------------
(* Frames.                                                                 *)

USE DEF handlerVars, sharedVars, modelVars, workerVars, mainVars, historyVars

\* The facts about types that the proofs below use.
LEMMA StreamTypes ==
  ASSUME IInv, NEW h \in Handlers
  PROVE  /\ chan[h] \in Channel
         /\ chan[h].q \in Seq(TokenEvent)
         /\ Len(chan[h].q) \in Nat
         /\ emitted[h] \in Nat
         /\ Pending(h) \in Nat
         /\ out[h] \in Seq(Delivered)
         /\ held[h] \in TokenEvent
         /\ hpc[h] \in HandlerPC
         /\ conn[h] \in BOOLEAN
<1>1. chan[h] \in Channel /\ emitted[h] \in Nat /\ out[h] \in Seq(Delivered)
      /\ held[h] \in TokenEvent /\ hpc[h] \in HandlerPC /\ conn[h] \in BOOLEAN
  BY DEF IInv, TypeOK, SharedTypeOK, HandlerTypeOK, WorkerTypeOK
<1>2. chan[h].q \in Seq(TokenEvent) /\ Len(chan[h].q) \in Nat
  BY <1>1 DEF Channel
<1>3. Pending(h) \in Nat
  <2>1. chan[h].q # << >> => Len(chan[h].q) - 1 \in Nat
    BY <1>2
  <2> QED BY <1>2, <2>1 DEF Pending
<1> QED BY <1>1, <1>2, <1>3

\* A handler none of whose variables change, and whose channel the worker is
\* not about to close.
LEMMA StreamFrame ==
  ASSUME NEW k \in Handlers, StreamOf(k),
         hpc'[k] = hpc[k], req'[k] = req[k], conn'[k] = conn[k],
         out'[k] = out[k], held'[k] = held[k], chan'[k] = chan[k],
         emitted'[k] = emitted[k],
         (wpc' = "close" /\ wreq' = k) => (wpc = "close" /\ wreq = k)
  PROVE  StreamOf(k)'
<1>1. Pending(k)' = Pending(k) /\ Taken(k)' = Taken(k) /\ (Ended(k)' <=> Ended(k))
  BY DEF Pending, Taken, Ended
<1>2. ChannelInv(k)'
  BY <1>1 DEF StreamOf, ChannelInv
<1>3. PlaceInv(k)'
  BY <1>1 DEF StreamOf, PlaceInv
<1>4. OutInv(k)'
  BY <1>1 DEF StreamOf, OutInv
<1> QED BY <1>2, <1>3, <1>4 DEF StreamOf

\* A step of h leaves the streams of the others alone.
LEMMA OtherStreams ==
  ASSUME IInv, StreamInv, NEW h \in Handlers, UNCHANGED <<wpc, wreq>>,
         \A k \in Handlers \ {h} :
            /\ hpc'[k] = hpc[k] /\ req'[k] = req[k] /\ conn'[k] = conn[k]
            /\ out'[k] = out[k] /\ held'[k] = held[k] /\ chan'[k] = chan[k]
            /\ emitted'[k] = emitted[k],
         req'[h] = req[h] \/ hpc[h] = "off",
         StreamOf(h)'
  PROVE  StreamInv'
<1>1. \A k \in Handlers : StreamOf(k)'
  BY StreamFrame DEF StreamInv
<1>2. StreamOnly'
  <2>1. wpc \in {"emit", "flush"} => wreq \in Handlers /\ hpc[wreq] # "off"
    BY DEF IInv, HandOver, Serving, Waiting
  <2>2. wpc = "close" => wreq \in Handlers /\ hpc[wreq] # "off"
    BY DEF IInv, CloseInv, Fresh
  <2> QED BY <2>1, <2>2 DEF StreamInv, StreamOnly
<1> QED BY <1>1, <1>2 DEF StreamInv

-----------------------------------------------------------------------------
(* The actions of a connection thread.                                     *)

\* What the other handlers see of a step of h that moves h alone.
LEMMA OthersStay ==
  ASSUME IInv, NEW h \in Handlers, NEW to \in HandlerPC,
         hpc' = [hpc EXCEPT ![h] = to]
  PROVE  /\ hpc'[h] = to
         /\ \A k \in Handlers \ {h} : hpc'[k] = hpc[k]
BY DEF IInv, TypeOK, HandlerTypeOK

\* A step of a handler that has nothing to do with a stream, before and after.
LEMMA NoStreamYet ==
  ASSUME IInv, StreamInv, NEW h \in Handlers, NEW to \in Unstreamed,
         hpc[h] \in Unstreamed,
         hpc' = [hpc EXCEPT ![h] = to],
         req' = req \/ (hpc[h] = "off" /\ \A k \in Handlers \ {h} : req'[k] = req[k]),
         UNCHANGED <<conn, out, held, chan, emitted, wpc, wreq>>
  PROVE  StreamInv'
<1>1. hpc'[h] = to /\ \A k \in Handlers \ {h} : hpc'[k] = hpc[k]
  BY OthersStay DEF Unstreamed, HandlerPC
<1>2. StreamOf(h)
  BY DEF StreamInv
<1>3. Pending(h)' = Pending(h) /\ Taken(h)' = Taken(h) /\ (Ended(h)' <=> Ended(h))
  BY DEF Pending, Taken, Ended
<1>4. ChannelInv(h)'
  BY <1>2, <1>3 DEF StreamOf, ChannelInv
<1>5. PlaceInv(h)'
  BY <1>1, <1>2, <1>3 DEF StreamOf, PlaceInv, Unstreamed, Over, Ended
<1>6. OutInv(h)'
  BY <1>1, <1>2, <1>3 DEF StreamOf, OutInv, Unstreamed
<1>7. StreamOf(h)'
  BY <1>4, <1>5, <1>6 DEF StreamOf
<1> QED BY <1>1, <1>7, OtherStreams

LEMMA BeforeStreamStep ==
  ASSUME IInv, StreamInv, NEW h \in Handlers,
         \/ Accept(h) \/ Route(h) \/ Lock(h) \/ RejectBody(h) \/ AcceptBody(h)
         \/ EnterModel(h) \/ RunPrompt(h) \/ LeaveModel(h) \/ SampleToken(h)
         \/ ForwardToken(h) \/ AwaitResult(h)
  PROVE  StreamInv'
<1>0. req \in [Handlers -> Requests]
  BY DEF IInv, TypeOK, HandlerTypeOK
<1>1. /\ UNCHANGED <<conn, out, held, chan, emitted, wpc, wreq>>
      /\ hpc[h] \in Unstreamed
      /\ \E to \in Unstreamed : hpc' = [hpc EXCEPT ![h] = to]
      /\ req' = req \/ (hpc[h] = "off" /\ \A k \in Handlers \ {h} : req'[k] = req[k])
  <2>1. CASE Accept(h)
    <3>1. \E r \in Requests : req' = [req EXCEPT ![h] = r]
      BY <2>1 DEF Accept
    <3> QED BY <1>0, <2>1, <3>1 DEF Accept, Goto, Unstreamed
  <2>2. CASE Route(h) \/ Lock(h) \/ RejectBody(h) \/ AcceptBody(h)
    BY <2>2 DEF Route, Lock, RejectBody, AcceptBody, Goto, Unstreamed
  <2>3. CASE EnterModel(h) \/ RunPrompt(h) \/ LeaveModel(h) \/ SampleToken(h)
    BY <2>3 DEF EnterModel, RunPrompt, LeaveModel, SampleToken, Goto, Unstreamed
  <2>4. CASE ForwardToken(h) \/ AwaitResult(h)
    BY <2>4 DEF ForwardToken, AwaitResult, Goto, Unstreamed
  <2> QED BY <2>1, <2>2, <2>3, <2>4
<1> QED BY <1>1, NoStreamYet

LEMMA SubmitStream ==
  ASSUME IInv, StreamInv, NEW h \in Handlers, SubmitRequest(h)
  PROVE  StreamInv'
<1> DEFINE to == IF req[h].kind = "stream" THEN "headers" ELSE "await"
<1>1. /\ hpc[h] = "submit"
      /\ hpc' = [hpc EXCEPT ![h] = to]
      /\ to \in {"headers", "await"}
      /\ UNCHANGED <<req, conn, out, held, chan, emitted, wpc, wreq>>
  BY DEF SubmitRequest, Goto
<1> HIDE DEF to
<1>2. hpc'[h] = to /\ \A k \in Handlers \ {h} : hpc'[k] = hpc[k]
  BY <1>1, OthersStay DEF HandlerPC
<1>3. StreamOf(h) /\ emitted[h] = 0 /\ chan[h].q = << >>
  BY <1>1 DEF StreamInv, StreamOf, PlaceInv, Unstreamed
<1>4. /\ Pending(h) = 0 /\ Taken(h) = 0
      /\ Pending(h)' = 0 /\ Taken(h)' = 0
      /\ (Ended(h)' <=> Ended(h))
  <2>1. Pending(h) = 0 /\ Pending(h)' = Pending(h)
    BY <1>1, <1>3 DEF Pending
  <2>2. emitted'[h] = 0
    BY <1>1, <1>3
  <2> QED BY <1>1, <1>3, <2>1, <2>2 DEF Taken, Ended
<1>5. ChannelInv(h)'
  BY <1>1, <1>3, <1>4 DEF StreamOf, ChannelInv
<1>6. PlaceInv(h)'
  BY <1>1, <1>2, <1>3, <1>4 DEF StreamOf, PlaceInv, Unstreamed, Over
<1>7. OutInv(h)'
  BY <1>1, <1>2, <1>3, <1>4 DEF StreamOf, OutInv, Unstreamed
<1>8. StreamOf(h)'
  BY <1>5, <1>6, <1>7 DEF StreamOf
<1> QED BY <1>1, <1>2, <1>8, OtherStreams

\* A handler whose request came to nothing.
LEMMA BadHttpStream ==
  ASSUME IInv, StreamInv, NEW h \in Handlers, BadHttp(h)
  PROVE  StreamInv'
<1>1. /\ hpc[h] = "parse"
      /\ hpc' = [hpc EXCEPT ![h] = "close"]
      /\ UNCHANGED <<req, conn, out, held, chan, emitted, wpc, wreq>>
  BY DEF BadHttp, Goto
<1>2. hpc'[h] = "close" /\ \A k \in Handlers \ {h} : hpc'[k] = hpc[k]
  BY <1>1, OthersStay DEF HandlerPC
<1>3. StreamOf(h) /\ emitted[h] = 0 /\ chan[h].q = << >>
  BY <1>1 DEF StreamInv, StreamOf, PlaceInv, Unstreamed
<1>4. Pending(h)' = Pending(h) /\ Taken(h)' = Taken(h)
  BY <1>1 DEF Pending, Taken
<1>5. ChannelInv(h)'
  BY <1>1, <1>3, <1>4 DEF StreamOf, ChannelInv
<1>6. PlaceInv(h)'
  BY <1>1, <1>2, <1>3 DEF StreamOf, PlaceInv, Unstreamed, Over
<1>7. OutInv(h)'
  BY <1>1, <1>2, <1>3 DEF StreamOf, OutInv, Unstreamed
<1>8. StreamOf(h)'
  BY <1>5, <1>6, <1>7 DEF StreamOf
<1> QED BY <1>1, <1>2, <1>8, OtherStreams

\* What Deliver does to a client that is there.
LEMMA Delivery ==
  ASSUME IInv, NEW h \in Handlers, NEW items, Deliver(h, items)
  PROVE  /\ conn[h] => out'[h] = out[h] \o items
         /\ ~conn[h] => out'[h] = out[h]
         /\ \A k \in Handlers \ {h} : out'[k] = out[k]
BY DEF Deliver, IInv, TypeOK, HandlerTypeOK

LEMMA ReplyStream ==
  ASSUME IInv, StreamInv, NEW h \in Handlers, Reply(h)
  PROVE  StreamInv'
<1> DEFINE to == IF req[h].kind = "light" THEN "close" ELSE "unlock"
           item == Item(hpc[h], 0)
<1>1. /\ hpc[h] \in {"reply", "error"}
      /\ hpc' = [hpc EXCEPT ![h] = to]
      /\ to \in {"close", "unlock"}
      /\ Deliver(h, <<item>>)
      /\ item.kind \in {"reply", "error"}
      /\ UNCHANGED <<req, conn, held, chan, emitted, wpc, wreq>>
  BY DEF Reply, Goto, Item
<1> HIDE DEF to, item
<1>2. hpc'[h] = to /\ \A k \in Handlers \ {h} : hpc'[k] = hpc[k]
  BY <1>1, OthersStay DEF HandlerPC
<1>3. StreamOf(h) /\ emitted[h] = 0 /\ chan[h].q = << >>
  BY <1>1 DEF StreamInv, StreamOf, PlaceInv, Unstreamed
<1>4. Pending(h)' = Pending(h) /\ Taken(h)' = Taken(h)
  BY <1>1 DEF Pending, Taken
<1>5. ChannelInv(h)'
  BY <1>1, <1>3, <1>4 DEF StreamOf, ChannelInv
<1>6. PlaceInv(h)'
  BY <1>1, <1>2, <1>3 DEF StreamOf, PlaceInv, Unstreamed, Over
<1>7. OutInv(h)'
  <2>1. conn[h] => out[h] = << >>
    BY <1>1, <1>3 DEF StreamOf, OutInv, Unstreamed
  <2>2. conn[h] => out'[h] = <<item>>
    BY <1>1, <2>1, Delivery
  <2> QED BY <1>1, <1>2, <1>3, <2>2 DEF OutInv, Unstreamed
<1>8. StreamOf(h)'
  BY <1>5, <1>6, <1>7 DEF StreamOf
<1>9. \A k \in Handlers \ {h} : out'[k] = out[k]
  BY <1>1, Delivery
<1> QED BY <1>1, <1>2, <1>8, <1>9, OtherStreams

LEMMA HeadersStream ==
  ASSUME IInv, StreamInv, NEW h \in Handlers, SendHeaders(h)
  PROVE  StreamInv'
<1> DEFINE a == Item("headers", 0)
           b == Item("role", 0)
<1>1. /\ hpc[h] = "headers"
      /\ hpc' = [hpc EXCEPT ![h] = "drain"]
      /\ Deliver(h, <<a, b>>)
      /\ a.kind = "headers" /\ b.kind = "role"
      /\ UNCHANGED <<req, conn, held, chan, emitted, wpc, wreq>>
  BY DEF SendHeaders, Goto, Item
<1> HIDE DEF a, b
<1>2. hpc'[h] = "drain" /\ \A k \in Handlers \ {h} : hpc'[k] = hpc[k]
  BY <1>1, OthersStay DEF HandlerPC
<1>3. StreamOf(h) /\ Taken(h) = 0
  BY <1>1 DEF StreamInv, StreamOf, PlaceInv
<1>4. /\ Pending(h)' = Pending(h) /\ Taken(h)' = Taken(h)
      /\ (Ended(h)' <=> Ended(h))
  BY <1>1 DEF Pending, Taken, Ended
<1>5. ChannelInv(h)'
  BY <1>1, <1>3, <1>4 DEF StreamOf, ChannelInv
<1>6. PlaceInv(h)'
  BY <1>1, <1>2, <1>3, <1>4 DEF StreamOf, PlaceInv, Unstreamed, Over
<1>7. OutInv(h)'
  <2>1. conn[h] => out'[h] = <<a, b>>
    BY <1>1, <1>3, Delivery DEF StreamOf, OutInv
  <2> QED BY <1>1, <1>2, <1>3, <1>4, <2>1 DEF OutInv, Unstreamed, Opens
<1>8. StreamOf(h)'
  BY <1>5, <1>6, <1>7 DEF StreamOf
<1>9. \A k \in Handlers \ {h} : out'[k] = out[k]
  BY <1>1, Delivery
<1> QED BY <1>1, <1>2, <1>8, <1>9, OtherStreams

\* One more fragment behind the ones a stream starts with.
LEMMA OpensAppend ==
  ASSUME NEW s \in Seq(Delivered), NEW n \in Nat, Len(s) = n + 2, Opens(s, n),
         NEW item, item = Item("chunk", n + 1)
  PROVE  Len(s \o <<item>>) = n + 3 /\ Opens(s \o <<item>>, n + 1)
<1>0. item \in Delivered
  BY DEF Item, Delivered
<1> DEFINE t == s \o <<item>>
<1>1. /\ Len(t) = n + 3
      /\ \A i \in 1 .. n + 2 : t[i] = s[i]
      /\ t[n + 3] = item
  BY <1>0
<1> HIDE DEF t
<1>2. t[1].kind = "headers" /\ t[2].kind = "role"
  BY <1>1 DEF Opens
<1>3. ASSUME NEW i \in 1 .. n + 1
      PROVE  t[i + 2] = Item("chunk", i)
  <2>1. CASE i \in 1 .. n
    <3>1. i + 2 \in 1 .. n + 2
      BY <2>1
    <3> QED BY <1>1, <2>1, <3>1 DEF Opens
  <2>2. CASE i = n + 1
    BY <1>1, <2>2
  <2> QED BY <2>1, <2>2
<1>4. Opens(t, n + 1)
  BY <1>2, <1>3 DEF Opens
<1> QED BY <1>1, <1>4 DEF t

LEMMA ChunkStream ==
  ASSUME IInv, StreamInv, NEW h \in Handlers, SendChunk(h)
  PROVE  StreamInv'
<1> DEFINE item == Item("chunk", held[h].n)
<1>1. /\ hpc[h] = "chunk"
      /\ hpc' = [hpc EXCEPT ![h] = "drain"]
      /\ Deliver(h, <<item>>)
      /\ UNCHANGED <<req, conn, held, chan, emitted, wpc, wreq>>
  BY DEF SendChunk, Goto
<1>2. hpc'[h] = "drain" /\ \A k \in Handlers \ {h} : hpc'[k] = hpc[k]
  BY <1>1, OthersStay DEF HandlerPC
<1>3. StreamOf(h) /\ Taken(h) >= 1 /\ held[h].n = Taken(h)
  BY <1>1 DEF StreamInv, StreamOf, PlaceInv
<1>4. /\ Pending(h)' = Pending(h) /\ Taken(h)' = Taken(h)
      /\ (Ended(h)' <=> Ended(h))
  BY <1>1 DEF Pending, Taken, Ended
<1>5. ChannelInv(h)'
  BY <1>1, <1>3, <1>4 DEF StreamOf, ChannelInv
<1>6. PlaceInv(h)'
  BY <1>1, <1>2, <1>3, <1>4 DEF StreamOf, PlaceInv, Unstreamed, Over
<1>7. OutInv(h)'
  <2> DEFINE n == Taken(h) - 1
  <2>1. n \in Nat /\ n + 1 = Taken(h)
    BY <1>3, StreamTypes DEF Taken
  <2>2. ASSUME conn[h]
        PROVE  Len(out'[h]) = Taken(h) + 2 /\ Opens(out'[h], Taken(h))
    <3>1. Len(out[h]) = n + 2 /\ Opens(out[h], n)
      BY <1>1, <1>3, <2>1, <2>2 DEF StreamOf, OutInv
    <3>2. item = Item("chunk", n + 1)
      BY <1>3, <2>1
    <3>3. out'[h] = out[h] \o <<item>>
      BY <1>1, <2>2, Delivery
    <3>4. out[h] \in Seq(Delivered)
      BY StreamTypes
    <3> HIDE DEF item, n
    <3>5. Len(out'[h]) = n + 3 /\ Opens(out'[h], n + 1)
      BY <2>1, <3>1, <3>2, <3>3, <3>4, OpensAppend
    <3> QED BY <2>1, <3>5
  <2> QED BY <1>1, <1>2, <1>4, <2>2 DEF OutInv, Unstreamed
<1>8. StreamOf(h)'
  BY <1>5, <1>6, <1>7 DEF StreamOf
<1>9. \A k \in Handlers \ {h} : out'[k] = out[k]
  BY <1>1, Delivery
<1> QED BY <1>1, <1>2, <1>8, <1>9, OtherStreams

LEMMA ChunkFailsStream ==
  ASSUME IInv, StreamInv, NEW h \in Handlers, ChunkFails(h)
  PROVE  StreamInv'
<1>1. /\ hpc[h] = "chunk" /\ ~conn[h]
      /\ hpc' = [hpc EXCEPT ![h] = "drain"]
      /\ UNCHANGED <<req, conn, out, held, chan, emitted, wpc, wreq>>
  BY DEF ChunkFails, Goto
<1>2. hpc'[h] = "drain" /\ \A k \in Handlers \ {h} : hpc'[k] = hpc[k]
  BY <1>1, OthersStay DEF HandlerPC
<1>3. StreamOf(h)
  BY DEF StreamInv
<1>4. /\ Pending(h)' = Pending(h) /\ Taken(h)' = Taken(h)
      /\ (Ended(h)' <=> Ended(h))
  BY <1>1 DEF Pending, Taken, Ended
<1>5. ChannelInv(h)'
  BY <1>1, <1>3, <1>4 DEF StreamOf, ChannelInv
<1>6. PlaceInv(h)'
  BY <1>1, <1>2, <1>3, <1>4 DEF StreamOf, PlaceInv, Unstreamed, Over
<1>7. OutInv(h)'
  BY <1>1 DEF OutInv
<1>8. StreamOf(h)'
  BY <1>5, <1>6, <1>7 DEF StreamOf
<1> QED BY <1>1, <1>2, <1>8, OtherStreams

LEMMA FinishedAppend ==
  ASSUME NEW s \in Seq(Delivered), NEW n \in Nat, Len(s) = n + 2, Opens(s, n),
         NEW t \in Seq(Delivered), Len(t) = 2, t[1].kind \in Reasons,
         t[2].kind = "DONE"
  PROVE  Finished(s \o t, n)
<1> DEFINE u == s \o t
<1>1. /\ Len(u) = Len(s) + Len(t)
      /\ \A i \in 1 .. Len(s) + Len(t) :
            u[i] = IF i <= Len(s) THEN s[i] ELSE t[i - Len(s)]
  BY ConcatProperties
<1> HIDE DEF u
<1>2. /\ Len(u) = n + 4
      /\ \A i \in 1 .. n + 2 : u[i] = s[i]
      /\ u[n + 3] = t[1] /\ u[n + 4] = t[2]
  BY <1>1
<1>3. Opens(u, n)
  <2>1. \A i \in 1 .. n : i + 2 \in 1 .. n + 2
    OBVIOUS
  <2> QED BY <1>2, <2>1 DEF Opens
<1>4. Finished(u, n)
  BY <1>2, <1>3 DEF Finished
<1> QED BY <1>4 DEF u

LEMMA LastStream ==
  ASSUME IInv, StreamInv, NEW h \in Handlers, SendLast(h)
  PROVE  StreamInv'
<1> DEFINE a == Item(held[h].reason, 0)
           b == Item("DONE", 0)
<1>1. /\ hpc[h] = "last"
      /\ hpc' = [hpc EXCEPT ![h] = "unlock"]
      /\ Deliver(h, <<a, b>>)
      /\ a.kind = held[h].reason /\ b.kind = "DONE"
      /\ UNCHANGED <<req, conn, held, chan, emitted, wpc, wreq>>
  BY DEF SendLast, Goto, Item
<1>2. hpc'[h] = "unlock" /\ \A k \in Handlers \ {h} : hpc'[k] = hpc[k]
  BY <1>1, OthersStay DEF HandlerPC
<1>3. StreamOf(h) /\ chan[h].q = << >> /\ req[h].kind = "stream"
  BY <1>1 DEF StreamInv, StreamOf, PlaceInv, Over, IInv, KindInv
<1>4. /\ Pending(h)' = Pending(h) /\ Taken(h)' = Taken(h)
      /\ Taken(h) = emitted[h]
  <2>1. Pending(h) = 0
    BY <1>3 DEF Pending
  <2> QED BY <1>1, <2>1, StreamTypes DEF Pending, Taken
<1>5. ChannelInv(h)'
  BY <1>1, <1>3, <1>4 DEF StreamOf, ChannelInv
<1>6. PlaceInv(h)'
  BY <1>1, <1>2, <1>3 DEF StreamOf, PlaceInv, Unstreamed, Over
<1>7. OutInv(h)'
  <2> DEFINE n == emitted[h]
  <2>1. n \in Nat
    BY StreamTypes
  <2>2. held[h].reason \in Reasons
    <3>1. held[h] \in TokenEvent /\ held[h].kind # "TOKEN"
      BY <1>1, StreamTypes DEF IInv, HeldInv, Terminal
    <3> QED BY <3>1 DEF TokenEvent
  <2> DEFINE t == <<a, b>>
  <2>3. /\ t \in Seq(Delivered) /\ Len(t) = 2
        /\ t[1].kind \in Reasons /\ t[2].kind = "DONE"
    BY <2>2 DEF Item, Delivered
  <2> HIDE DEF t, n
  <2>4. ASSUME conn[h]
        PROVE  Finished(out'[h], n)
    <3>1. Len(out[h]) = n + 2 /\ Opens(out[h], n) /\ out[h] \in Seq(Delivered)
      BY <1>1, <1>3, <1>4, <2>4, StreamTypes DEF StreamOf, OutInv, n
    <3>2. out'[h] = out[h] \o t
      BY <1>1, <2>4, Delivery DEF t
    <3> QED BY <2>1, <2>3, <3>1, <3>2, FinishedAppend
  <2> QED BY <1>1, <1>2, <1>3, <2>4 DEF OutInv, Unstreamed, n
<1>8. StreamOf(h)'
  BY <1>5, <1>6, <1>7 DEF StreamOf
<1>9. \A k \in Handlers \ {h} : out'[k] = out[k]
  BY <1>1, Delivery
<1> QED BY <1>1, <1>2, <1>8, <1>9, OtherStreams

LEMMA LeaveStream ==
  ASSUME IInv, StreamInv, NEW h \in Handlers, Unlock(h) \/ CloseSocket(h)
  PROVE  StreamInv'
<1> DEFINE to == IF hpc[h] = "unlock" THEN "close" ELSE "done"
<1>1. /\ hpc[h] \in {"unlock", "close"}
      /\ hpc' = [hpc EXCEPT ![h] = to]
      /\ to \in {"close", "done"}
      /\ UNCHANGED <<req, conn, out, held, chan, emitted, wpc, wreq>>
  BY DEF Unlock, CloseSocket, Goto
<1> HIDE DEF to
<1>2. hpc'[h] = to /\ \A k \in Handlers \ {h} : hpc'[k] = hpc[k]
  BY <1>1, OthersStay DEF HandlerPC
<1>3. StreamOf(h)
  BY DEF StreamInv
<1>4. Pending(h)' = Pending(h) /\ Taken(h)' = Taken(h)
  BY <1>1 DEF Pending, Taken
<1>5. ChannelInv(h)'
  BY <1>1, <1>3, <1>4 DEF StreamOf, ChannelInv
<1>6. PlaceInv(h)'
  BY <1>1, <1>2, <1>3 DEF StreamOf, PlaceInv, Unstreamed, Over
<1>7. OutInv(h)'
  BY <1>1, <1>2, <1>3 DEF StreamOf, OutInv, Unstreamed
<1>8. StreamOf(h)'
  BY <1>5, <1>6, <1>7 DEF StreamOf
<1> QED BY <1>1, <1>2, <1>8, OtherStreams

LEMMA GoneStream ==
  ASSUME IInv, StreamInv, NEW h \in Handlers, ClientGone(h)
  PROVE  StreamInv'
<1>0. conn \in [Handlers -> BOOLEAN] /\ out \in [Handlers -> Seq(Delivered)]
  BY DEF IInv, TypeOK, HandlerTypeOK
<1>1. /\ UNCHANGED <<hpc, req, held, chan, emitted, wpc, wreq>>
      /\ conn'[h] = FALSE
      /\ \A k \in Handlers \ {h} : conn'[k] = conn[k] /\ out'[k] = out[k]
  BY <1>0 DEF ClientGone
<1>2. StreamOf(h)
  BY DEF StreamInv
<1>3. /\ Pending(h)' = Pending(h) /\ Taken(h)' = Taken(h)
      /\ (Ended(h)' <=> Ended(h))
  BY <1>1 DEF Pending, Taken, Ended
<1>4. ChannelInv(h)' /\ PlaceInv(h)'
  BY <1>1, <1>2, <1>3 DEF StreamOf, ChannelInv, PlaceInv
<1>5. OutInv(h)'
  BY <1>1 DEF OutInv
<1>6. StreamOf(h)'
  BY <1>4, <1>5 DEF StreamOf
<1> QED BY <1>1, <1>6, OtherStreams

\* Taking the front of a channel: a token is the next one in its turn, and a
\* terminal event leaves nothing behind.
LEMMA PopFacts ==
  ASSUME IInv, NEW h \in Handlers, ChannelInv(h), chan[h].q # << >>,
         chan'[h] = PopFront(chan[h]), emitted'[h] = emitted[h]
  PROVE  /\ Front(chan[h]).kind = "TOKEN" =>
               /\ Front(chan[h]) = Token(Taken(h) + 1)
               /\ Pending(h) >= 1 /\ Pending(h)' = Pending(h) - 1
               /\ Taken(h)' = Taken(h) + 1
               /\ Ended(h)' <=> Ended(h)
               /\ ChannelInv(h)'
         /\ Front(chan[h]).kind # "TOKEN" =>
               /\ chan'[h].q = << >>
               /\ Taken(h) = emitted[h] /\ Taken(h)' = emitted[h]
               /\ ChannelInv(h)'
<1> DEFINE q == chan[h].q
           r == chan'[h].q
<1>0. emitted[h] \in Nat /\ Pending(h) \in Nat /\ Taken(h) \in Int
  BY StreamTypes DEF Taken
<1>1. /\ q \in Seq(TokenEvent) /\ q # << >> /\ Len(q) \in Nat /\ Len(q) >= 1
      /\ Front(chan[h]) = q[1]
      /\ r = Tail(q) /\ Len(r) = Len(q) - 1
      /\ \A i \in 1 .. Len(r) : r[i] = q[i + 1]
  <2>1. q \in Seq(TokenEvent)
    BY StreamTypes
  <2>2. r = Tail(q)
    BY StreamTypes DEF PopFront, Channel
  <2>3. Head(q) = q[1] /\ Len(q) >= 1
    BY <2>1
  <2> QED BY <2>1, <2>2, <2>3, HeadTailProperties DEF Front
<1> HIDE DEF q, r
<1>2. /\ Ended(h) => Pending(h) = Len(q) - 1
      /\ ~Ended(h) => Pending(h) = Len(q)
      /\ Ended(h)' => Pending(h)' = Len(r) - 1
      /\ ~Ended(h)' => Pending(h)' = Len(r)
  BY DEF Pending, Ended, q, r
<1>3. Len(q) >= 2 => (Ended(h)' <=> Ended(h))
  <2>1. ASSUME Len(q) >= 2
        PROVE  r # << >> /\ r[Len(r)] = q[Len(q)]
    <3>1. Len(r) \in 1 .. Len(r) /\ Len(r) + 1 = Len(q)
      BY <1>1, <2>1
    <3>2. r[Len(r)] = q[Len(r) + 1]
      BY <1>1, <3>1
    <3>3. Len(<< >>) = 0
      OBVIOUS
    <3> QED BY <3>1, <3>2, <3>3
  <2> QED BY <1>1, <2>1 DEF Ended, q, r
<1>4. Len(q) = 1 => r = << >> /\ ~Ended(h)'
  <2>1. Len(q) = 1 => r = << >>
    <3>1. r \in Seq(TokenEvent)
      BY <1>1
    <3> QED BY <1>1, <3>1
  <2> QED BY <2>1 DEF Ended, q, r
<1>5. \A i \in 1 .. Pending(h) : q[i] = Token(Taken(h) + i)
  BY DEF ChannelInv, q
<1>6. Pending(h) <= emitted[h]
  BY DEF ChannelInv
<1>7. ASSUME Front(chan[h]).kind = "TOKEN"
      PROVE  /\ Front(chan[h]) = Token(Taken(h) + 1)
             /\ Pending(h) >= 1 /\ Pending(h)' = Pending(h) - 1
             /\ Taken(h)' = Taken(h) + 1
             /\ Ended(h)' <=> Ended(h)
             /\ ChannelInv(h)'
  <2>1. Len(q) = 1 => ~Ended(h)
    BY <1>1, <1>7 DEF Ended, Terminal, q
  <2>2. Ended(h)' <=> Ended(h)
    <3>1. Len(q) = 1 \/ Len(q) >= 2
      BY <1>1
    <3> QED BY <1>3, <1>4, <2>1, <3>1
  <2>3. Pending(h) >= 1 /\ Pending(h)' = Pending(h) - 1
    BY <1>1, <1>2, <2>1, <2>2
  <2>4. Front(chan[h]) = Token(Taken(h) + 1)
    BY <1>0, <1>1, <1>5, <2>3
  <2>5. Taken(h)' = Taken(h) + 1
    BY <1>0, <2>3 DEF Taken
  <2>6. ASSUME NEW i \in 1 .. Pending(h)'
        PROVE  r[i] = Token(Taken(h)' + i)
    <3>1. i \in 1 .. Len(r) /\ i + 1 \in 1 .. Pending(h)
      BY <1>0, <1>1, <1>2, <2>2, <2>3
    <3>2. r[i] = Token(Taken(h) + (i + 1))
      BY <1>1, <1>5, <3>1
    <3>3. Taken(h) + (i + 1) = Taken(h)' + i
      BY <1>0, <2>5
    <3> QED BY <3>2, <3>3
  <2>7. ChannelInv(h)'
    BY <1>0, <1>6, <2>3, <2>6 DEF ChannelInv, r
  <2> QED BY <2>2, <2>3, <2>4, <2>5, <2>7
<1>8. ASSUME Front(chan[h]).kind # "TOKEN"
      PROVE  /\ chan'[h].q = << >>
             /\ Taken(h) = emitted[h] /\ Taken(h)' = emitted[h]
             /\ ChannelInv(h)'
  <2>1. Pending(h) = 0
    <3>1. q[1] # Token(Taken(h) + 1)
      BY <1>1, <1>8 DEF Token
    <3>2. ~ (1 \in 1 .. Pending(h))
      BY <1>5, <3>1
    <3> QED BY <1>0, <3>2
  <2>2. Len(q) = 1 /\ r = << >> /\ Pending(h)' = 0
    BY <1>1, <1>2, <1>4, <2>1
  <2>3. Taken(h) = emitted[h] /\ Taken(h)' = emitted[h]
    BY <1>0, <2>1, <2>2 DEF Taken
  <2> QED BY <1>0, <2>2, <2>3 DEF ChannelInv, r
<1> QED BY <1>7, <1>8

LEMMA PopStream ==
  ASSUME IInv, StreamInv, NEW h \in Handlers, PopEvent(h)
  PROVE  StreamInv'
<1>0. /\ hpc[h] = "drain" /\ StreamOf(h)
      /\ chan \in [Handlers -> Channel] /\ held \in [Handlers -> TokenEvent]
  BY DEF PopEvent, StreamInv, IInv, TypeOK, SharedTypeOK, HandlerTypeOK
<1>1. chan[h].q # << >>
  <2>1. chan[h].closed => chan[h].q # << >>
    BY <1>0 DEF StreamOf, PlaceInv, Ended, Over
  <2> QED BY <2>1 DEF PopEvent, MayPop
<1> DEFINE to == IF Front(chan[h]).kind = "TOKEN" THEN "chunk" ELSE "last"
<1>2. /\ hpc' = [hpc EXCEPT ![h] = to]
      /\ held' = [held EXCEPT ![h] = Front(chan[h])]
      /\ chan' = [chan EXCEPT ![h] = PopFront(chan[h])]
      /\ UNCHANGED <<req, conn, out, emitted, wpc, wreq>>
  BY <1>1 DEF PopEvent, Drained, Goto
<1>3. hpc'[h] = to /\ \A k \in Handlers \ {h} : hpc'[k] = hpc[k]
  BY <1>2, OthersStay DEF HandlerPC
<1>4. /\ chan'[h] = PopFront(chan[h]) /\ held'[h] = Front(chan[h])
      /\ chan'[h].closed = chan[h].closed
      /\ \A k \in Handlers \ {h} : chan'[k] = chan[k] /\ held'[k] = held[k]
  BY <1>0, <1>2 DEF PopFront, Channel
<1>5. CASE Front(chan[h]).kind = "TOKEN"
  <2>1. /\ to = "chunk" /\ held'[h] = Token(Taken(h) + 1)
        /\ Taken(h)' = Taken(h) + 1
        /\ Ended(h)' <=> Ended(h)
        /\ ChannelInv(h)'
    BY <1>0, <1>1, <1>2, <1>4, <1>5, PopFacts DEF StreamOf
  <2>2. Taken(h) \in Int /\ Taken(h) >= 0
    BY <1>0, StreamTypes DEF StreamOf, ChannelInv, Taken
  <2> HIDE DEF to
  <2>3. PlaceInv(h)'
    <3>1. Taken(h)' >= 1 /\ held'[h].n = Taken(h)'
      BY <2>1, <2>2 DEF Token
    <3> QED BY <1>0, <1>2, <1>3, <1>4, <2>1, <3>1
            DEF StreamOf, PlaceInv, Unstreamed, Over
  <2>4. OutInv(h)'
    <3>1. Taken(h)' + 1 = Taken(h) + 2 /\ Taken(h)' - 1 = Taken(h)
      BY <2>1, <2>2
    <3> QED BY <1>0, <1>2, <1>3, <2>1, <3>1 DEF StreamOf, OutInv, Unstreamed
  <2>5. StreamOf(h)'
    BY <2>1, <2>3, <2>4 DEF StreamOf
  <2> QED BY <1>2, <1>3, <1>4, <2>5, OtherStreams
<1>6. CASE Front(chan[h]).kind # "TOKEN"
  <2>1. /\ to = "last" /\ chan'[h].q = << >>
        /\ Taken(h)' = Taken(h)
        /\ ChannelInv(h)'
    BY <1>0, <1>1, <1>2, <1>4, <1>6, PopFacts DEF StreamOf
  <2> HIDE DEF to
  <2>2. PlaceInv(h)'
    BY <1>3, <2>1 DEF PlaceInv, Unstreamed, Over
  <2>3. OutInv(h)'
    BY <1>0, <1>2, <1>3, <2>1 DEF StreamOf, OutInv, Unstreamed
  <2>4. StreamOf(h)'
    BY <2>1, <2>2, <2>3 DEF StreamOf
  <2> QED BY <1>2, <1>3, <1>4, <2>4, OtherStreams
<1> QED BY <1>5, <1>6

-----------------------------------------------------------------------------
(* The actions of the worker.                                              *)

\* Where the handler is whose stream the worker serves.
LEMMA ServedStream ==
  ASSUME IInv, Serving, req[wreq].kind = "stream"
  PROVE  /\ wreq \in Handlers
         /\ hpc[wreq] \in {"headers", "drain", "chunk"}
         /\ Silent(chan[wreq])
         /\ ~Ended(wreq)
         /\ Pending(wreq) = Len(chan[wreq].q)
<1>1. wreq \in Handlers /\ Waiting(wreq) /\ Untouched(wreq)
  BY ServingFacts
<1>2. hpc[wreq] \in {"headers", "drain", "chunk"}
  BY <1>1 DEF Waiting, IInv, KindInv
<1>3. ~Ended(wreq)
  <2>1. chan[wreq].q # << >> => Len(chan[wreq].q) \in 1 .. Len(chan[wreq].q)
    BY <1>1, StreamTypes
  <2> QED BY <1>1, <2>1 DEF Untouched, Silent, Ended
<1>4. Pending(wreq) = Len(chan[wreq].q)
  BY <1>3 DEF Pending, Ended
<1> QED BY <1>1, <1>2, <1>3, <1>4 DEF Untouched

\* A step of the worker that writes no event.
LEMMA WorkerQuiet ==
  ASSUME IInv, StreamInv,
         UNCHANGED <<hpc, req, conn, out, held, chan, emitted>>,
         wpc' \notin {"emit", "flush", "close"}
            \/ (wreq' = wreq /\ wpc' # "close" /\ req[wreq].kind = "stream")
  PROVE  StreamInv'
<1>1. \A k \in Handlers : StreamOf(k)'
  BY StreamFrame DEF StreamInv
<1>2. StreamOnly'
  BY DEF StreamOnly
<1> QED BY <1>1, <1>2 DEF StreamInv

LEMMA WorkerQuietStep ==
  ASSUME IInv, StreamInv,
         \/ TestRunning \/ WaitPop \/ BeginProcess \/ Prefill \/ StopAtLimit
         \/ StopAtToken \/ KeepToken \/ Forward \/ FlushNothing \/ ProcessThrows
         \/ SampleWithoutLogits
  PROVE  StreamInv'
<1>1. CASE TestRunning \/ WaitPop \/ BeginProcess
  <2>1. /\ UNCHANGED <<hpc, req, conn, out, held, chan, emitted>>
        /\ wpc' \notin {"emit", "flush", "close"}
    BY <1>1 DEF TestRunning, WaitPop, BeginProcess
  <2> QED BY <2>1, WorkerQuiet
<1>2. CASE Prefill \/ Forward \/ FlushNothing \/ ProcessThrows
  <2>1. /\ UNCHANGED <<hpc, req, conn, out, held, chan, emitted>>
        /\ wpc' \notin {"emit", "flush", "close"}
    BY <1>2 DEF Prefill, Forward, FlushNothing, ProcessThrows
  <2> QED BY <2>1, WorkerQuiet
<1>3. CASE StopAtLimit \/ StopAtToken \/ KeepToken
  <2>1. /\ UNCHANGED <<hpc, req, conn, out, held, chan, emitted, wreq>>
        /\ \/ wpc' \notin {"emit", "flush", "close"}
           \/ wpc' # "close" /\ req[wreq].kind = "stream"
    BY <1>3 DEF StopAtLimit, StopAtToken, KeepToken, AfterLoop
  <2> QED BY <2>1, WorkerQuiet
<1>4. CASE SampleWithoutLogits
  <2>1. /\ UNCHANGED <<hpc, req, conn, out, held, chan, emitted>>
        /\ wpc' \notin {"emit", "flush", "close"}
    BY <1>4 DEF SampleWithoutLogits, Sampling
  <2> QED BY <2>1, WorkerQuiet
<1> QED BY <1>1, <1>2, <1>3, <1>4

\* A step of the worker leaves the streams alone that it does not serve.
LEMMA OthersUnserved ==
  ASSUME IInv, StreamInv, NEW w \in Handlers, w = wreq,
         UNCHANGED <<hpc, req, conn, out, held>>,
         \A k \in Handlers \ {w} : chan'[k] = chan[k] /\ emitted'[k] = emitted[k],
         wpc' \in {"emit", "flush", "close"} =>
             wreq' = w /\ req[w].kind = "stream",
         StreamOf(w)'
  PROVE  StreamInv'
<1>1. \A k \in Handlers \ {w} : StreamOf(k)'
  BY StreamFrame DEF StreamInv
<1>2. StreamOnly'
  BY DEF StreamOnly
<1> QED BY <1>1, <1>2 DEF StreamInv

\* An event appended to an open channel that ends in no terminal event.
LEMMA PushFacts ==
  ASSUME IInv, NEW w \in Handlers, ~chan[w].closed, ~Ended(w), ChannelInv(w),
         NEW ev \in TokenEvent, chan' = [chan EXCEPT ![w] = Push(chan[w], ev)]
  PROVE  /\ chan'[w].q # << >>
         /\ chan'[w].closed = chan[w].closed
         /\ Terminal(ev) => /\ Ended(w)'
                            /\ Pending(w)' = Pending(w)
         /\ ~Terminal(ev) => /\ ~Ended(w)'
                             /\ Pending(w)' = Pending(w) + 1
                             /\ chan'[w].q[Pending(w) + 1] = ev
         /\ \A i \in 1 .. Pending(w) : chan'[w].q[i] = chan[w].q[i]
         /\ \A k \in Handlers \ {w} : chan'[k] = chan[k]
<1> DEFINE q == chan[w].q
           r == chan'[w].q
<1>1. q \in Seq(TokenEvent) /\ Len(q) \in Nat
  BY StreamTypes
<1>2. /\ chan'[w].closed = chan[w].closed /\ r = Append(q, ev)
      /\ \A k \in Handlers \ {w} : chan'[k] = chan[k]
  BY StreamTypes DEF Push, Channel, IInv, TypeOK, SharedTypeOK
<1> HIDE DEF q, r
<1>3. /\ r # << >> /\ Len(r) = Len(q) + 1
      /\ \A i \in 1 .. Len(q) : r[i] = q[i]
      /\ r[Len(q) + 1] = ev
  BY <1>1, <1>2, AppendProperties
<1>4. Pending(w) = Len(q)
  BY DEF Pending, Ended, q
<1>5. Ended(w)' <=> Terminal(ev)
  BY <1>3 DEF Ended, r
<1>6. /\ Ended(w)' => Pending(w)' = Len(r) - 1
      /\ ~Ended(w)' => Pending(w)' = Len(r)
  BY DEF Pending, Ended, r
<1>7. Len(r) - 1 = Len(q)
  BY <1>1, <1>3
<1>8. Ended(w)' => Pending(w)' = Pending(w)
  BY <1>4, <1>6, <1>7
<1>9. ~Ended(w)' => Pending(w)' = Pending(w) + 1
  BY <1>3, <1>4, <1>6
<1>10. chan'[w].q[Pending(w) + 1] = ev
       /\ \A i \in 1 .. Pending(w) : chan'[w].q[i] = chan[w].q[i]
  BY <1>3, <1>4 DEF q, r
<1> QED BY <1>2, <1>3, <1>5, <1>8, <1>9, <1>10 DEF r

LEMMA PushStream ==
  ASSUME IInv, StreamInv, wpc \in {"emit", "flush"},
         NEW next \in {"forward", "finish"}, PushToken(next)
  PROVE  StreamInv'
<1>1. PICK w \in Handlers : w = wreq
  BY ServingFacts DEF Serving
<1>2. /\ req[w].kind = "stream" /\ StreamOf(w)
      /\ hpc[w] \in {"headers", "drain", "chunk"}
      /\ ~chan[w].closed /\ ~Ended(w)
  BY <1>1, ServedStream DEF StreamInv, StreamOnly, Serving, Silent
<1> DEFINE ev == Token(emitted[w] + 1)
<1>3. /\ chan' = [chan EXCEPT ![w] = Push(chan[w], ev)]
      /\ emitted' = [emitted EXCEPT ![w] = emitted[w] + 1]
      /\ UNCHANGED <<hpc, req, conn, out, held, wreq>>
      /\ wpc' = next
  BY <1>1 DEF PushToken
<1>4. /\ emitted[w] \in Nat /\ Pending(w) \in Nat
      /\ Taken(w) \in Int /\ Taken(w) + Pending(w) = emitted[w]
  BY StreamTypes DEF Taken
<1>5. ev \in TokenEvent /\ ~Terminal(ev)
  BY <1>4 DEF Token, TokenEvent, Terminal
<1> HIDE DEF ev
<1>6. /\ emitted'[w] = emitted[w] + 1
      /\ \A k \in Handlers \ {w} : emitted'[k] = emitted[k]
  BY <1>3 DEF IInv, TypeOK, WorkerTypeOK
<1>7. /\ chan'[w].closed = chan[w].closed
      /\ ~Ended(w)'
      /\ Pending(w)' = Pending(w) + 1
      /\ chan'[w].q[Pending(w) + 1] = ev
      /\ \A i \in 1 .. Pending(w) : chan'[w].q[i] = chan[w].q[i]
      /\ \A k \in Handlers \ {w} : chan'[k] = chan[k]
  BY <1>2, <1>3, <1>5, PushFacts DEF StreamOf
<1>8. Taken(w)' = Taken(w)
  BY <1>4, <1>6, <1>7 DEF Taken
<1>9. ChannelInv(w)'
  <2>1. Pending(w)' <= emitted'[w]
    BY <1>2, <1>4, <1>6, <1>7 DEF StreamOf, ChannelInv
  <2>2. ASSUME NEW i \in 1 .. Pending(w)'
        PROVE  chan'[w].q[i] = Token(Taken(w)' + i)
    <3>1. CASE i \in 1 .. Pending(w)
      BY <1>2, <1>7, <1>8, <3>1 DEF StreamOf, ChannelInv
    <3>2. CASE i = Pending(w) + 1
      <4>1. Taken(w) + i = emitted[w] + 1
        BY <1>4, <3>2
      <4> QED BY <1>7, <1>8, <3>2, <4>1 DEF ev
    <3> QED BY <1>4, <1>7, <3>1, <3>2
  <2> QED BY <2>1, <2>2 DEF ChannelInv
<1>10. PlaceInv(w)'
  BY <1>2, <1>3, <1>7, <1>8 DEF StreamOf, PlaceInv, Unstreamed, Over
<1>11. OutInv(w)'
  BY <1>2, <1>3, <1>8 DEF StreamOf, OutInv, Unstreamed
<1>12. StreamOf(w)'
  BY <1>9, <1>10, <1>11 DEF StreamOf
<1> QED BY <1>1, <1>3, <1>6, <1>7, <1>12, OthersUnserved

LEMMA AnswerStream ==
  ASSUME IInv, StreamInv, wpc \in {"finish", "report"},
         NEW ev \in TokenEvent, Terminal(ev), NEW value, Answer(ev, value)
  PROVE  StreamInv'
<1>1. PICK w \in Handlers : w = wreq
  BY ServingFacts DEF Serving
<1>2. CASE req[w].kind # "stream"
  <2>1. /\ UNCHANGED <<hpc, req, conn, out, held, chan, emitted>>
        /\ wpc' = "loop"
    BY <1>1, <1>2 DEF Answer
  <2> QED BY <2>1, WorkerQuiet
<1>3. CASE req[w].kind = "stream"
  <2>1. /\ StreamOf(w)
        /\ hpc[w] \in {"headers", "drain", "chunk"}
        /\ ~chan[w].closed /\ ~Ended(w)
    BY <1>1, <1>3, ServedStream DEF StreamInv, Serving, Silent
  <2>2. /\ chan' = [chan EXCEPT ![w] = Push(chan[w], ev)]
        /\ UNCHANGED <<hpc, req, conn, out, held, emitted, wreq>>
    BY <1>1, <1>3 DEF Answer
  <2>3. /\ chan'[w].closed = chan[w].closed
        /\ Ended(w)'
        /\ Pending(w)' = Pending(w)
        /\ \A i \in 1 .. Pending(w) : chan'[w].q[i] = chan[w].q[i]
        /\ \A k \in Handlers \ {w} : chan'[k] = chan[k]
    BY <2>1, <2>2, PushFacts DEF StreamOf
  <2>4. Taken(w)' = Taken(w)
    BY <2>2, <2>3 DEF Taken
  <2>5. ChannelInv(w)'
    BY <2>1, <2>2, <2>3, <2>4 DEF StreamOf, ChannelInv
  <2>6. PlaceInv(w)'
    BY <2>1, <2>2, <2>3, <2>4 DEF StreamOf, PlaceInv, Unstreamed, Over
  <2>7. OutInv(w)'
    BY <2>1, <2>2, <2>4 DEF StreamOf, OutInv, Unstreamed
  <2>8. StreamOf(w)'
    BY <2>5, <2>6, <2>7 DEF StreamOf
  <2> QED BY <1>1, <1>3, <2>2, <2>3, <2>8, OthersUnserved
<1> QED BY <1>2, <1>3

LEMMA CloseStream ==
  ASSUME IInv, StreamInv, CloseChannel
  PROVE  StreamInv'
<1>1. PICK w \in Handlers : w = wreq
  BY DEF CloseChannel, IInv, CloseInv
<1>2. /\ wpc = "close" /\ wpc' = "loop"
      /\ chan' = [chan EXCEPT ![w] = Close(chan[w])]
      /\ UNCHANGED <<hpc, req, conn, out, held, emitted>>
  BY <1>1 DEF CloseChannel
<1>3. StreamOf(w)
  BY DEF StreamInv
<1>4. /\ chan'[w].q = chan[w].q
      /\ \A k \in Handlers \ {w} : chan'[k] = chan[k]
  BY <1>2, StreamTypes DEF Close, Channel, IInv, TypeOK, SharedTypeOK
<1>5. /\ Pending(w)' = Pending(w) /\ Taken(w)' = Taken(w)
      /\ (Ended(w)' <=> Ended(w))
  BY <1>2, <1>4 DEF Pending, Taken, Ended
<1>6. ChannelInv(w)'
  BY <1>2, <1>3, <1>4, <1>5 DEF StreamOf, ChannelInv
<1>7. PlaceInv(w)'
  BY <1>1, <1>2, <1>3, <1>4, <1>5 DEF StreamOf, PlaceInv
<1>8. OutInv(w)'
  BY <1>2, <1>3, <1>5 DEF StreamOf, OutInv
<1>9. StreamOf(w)'
  BY <1>6, <1>7, <1>8 DEF StreamOf
<1> QED BY <1>1, <1>2, <1>4, <1>9, OthersUnserved

-----------------------------------------------------------------------------
(* The stream invariant is inductive.                                      *)

LEMMA InitStream == Init => StreamInv
<1> SUFFICES ASSUME Init PROVE StreamInv
  OBVIOUS
<1>1. StreamOnly
  BY DEF Init, StreamOnly
<1>2. ASSUME NEW h \in Handlers
      PROVE  StreamOf(h)
  <2>1. /\ chan[h].q = << >> /\ ~chan[h].closed /\ emitted[h] = 0
        /\ hpc[h] = "off" /\ out[h] = << >> /\ wpc = "loop"
    BY DEF Init, NewChannel
  <2>2. Pending(h) = 0
    BY <2>1 DEF Pending
  <2>3. ChannelInv(h) /\ PlaceInv(h)
    BY <2>1, <2>2 DEF ChannelInv, PlaceInv, Unstreamed, Over
  <2>4. OutInv(h)
    BY <2>1 DEF OutInv, Unstreamed
  <2> QED BY <2>3, <2>4 DEF StreamOf
<1> QED BY <1>1, <1>2 DEF StreamInv

LEMMA StepStream == IInv /\ StreamInv /\ [Next]_vars => StreamInv'
<1> SUFFICES ASSUME IInv, StreamInv, [Next]_vars PROVE StreamInv'
  OBVIOUS
<1>1. CASE Alive /\ MainStep
  <2>1. UNCHANGED <<hpc, req, conn, out, held, chan, emitted, wpc, wreq>>
    BY <1>1 DEF MainStep, Listen, PlatformFails, SocketFails, StopWorker,
       JoinWorker, MainOnly
  <2> QED BY <2>1, StreamFrame DEF StreamInv, StreamOnly
<1>2. CASE Alive /\ WorkerStep
  <2>1. CASE \/ TestRunning \/ WaitPop \/ BeginProcess \/ Prefill \/ StopAtLimit
             \/ StopAtToken \/ KeepToken \/ Forward \/ FlushNothing \/ ProcessThrows
    BY <2>1, WorkerQuietStep
  <2>2. CASE EmitToken \/ FlushTail
    BY <2>2, PushStream DEF EmitToken, FlushTail
  <2>3. CASE FinishRequest
    <3>1. Finish(reason) \in TokenEvent /\ Terminal(Finish(reason))
      BY DEF Finish, TokenEvent, Terminal, Reasons, IInv, TypeOK, WorkerTypeOK
    <3> QED BY <2>3, <3>1, AnswerStream DEF FinishRequest
  <2>4. CASE ReportError
    <3>1. Err \in TokenEvent /\ Terminal(Err)
      BY DEF Err, TokenEvent, Terminal, Reasons
    <3> QED BY <2>4, <3>1, AnswerStream DEF ReportError
  <2>5. CASE CloseChannel
    BY <2>5, CloseStream
  <2> QED BY <1>2, <2>1, <2>2, <2>3, <2>4, <2>5 DEF WorkerStep
<1>3. ASSUME NEW h \in Handlers, HandlerStep(h)
      PROVE  StreamInv'
  BY <1>3, BeforeStreamStep, SubmitStream, BadHttpStream, ReplyStream,
     HeadersStream, ChunkStream, ChunkFailsStream, LastStream, LeaveStream,
     PopStream DEF HandlerStep
<1>4. ASSUME NEW h \in Handlers, Accept(h) \/ ClientGone(h)
      PROVE  StreamInv'
  BY <1>4, BeforeStreamStep, GoneStream
<1>5. CASE UNCHANGED <<hpc, req, conn, out, held, chan, emitted, wpc, wreq>>
  BY <1>5, StreamFrame DEF StreamInv, StreamOnly
<1>6. ASSUME NEW h \in Handlers, Dies(h)
      PROVE  StreamInv'
  BY <1>5, <1>6 DEF Dies, HandlerThrows, BrokenPipe
<1>7. CASE SampleWithoutLogits
  BY <1>7, WorkerQuietStep
<1>8. CASE UNCHANGED vars
  BY <1>5, <1>8 DEF vars
<1> QED BY <1>1, <1>2, <1>3, <1>4, <1>6, <1>7, <1>8 DEF Next

\* The events of every stream are where the invariant says.
THEOREM StreamInductive == Spec => []StreamInv
BY InitStream, StepStream, Inductive, PTL DEF Spec

-----------------------------------------------------------------------------
(* A client that stays gets one complete response.                         *)

LEMMA FinishedIsComplete ==
  ASSUME NEW s, NEW n \in Nat, Finished(s, n)
  PROVE  CompleteStream(s)
<1>1. /\ Len(s) = n + 4 /\ Len(s) >= 4 /\ Len(s) - 1 = n + 3
      /\ Len(s) - 2 = n + 2
  BY DEF Finished
<1>2. ASSUME NEW i \in 3 .. n + 2
      PROVE  s[i].kind = "chunk"
  <2>1. i - 2 \in 1 .. n /\ (i - 2) + 2 = i
    OBVIOUS
  <2>2. s[(i - 2) + 2] = Item("chunk", i - 2)
    BY <2>1 DEF Finished, Opens
  <2> QED BY <2>1, <2>2 DEF Item
<1> QED BY <1>1, <1>2 DEF Finished, Opens, CompleteStream

\* One JSON body, or an SSE stream from its headers to [DONE] with a
\* finish_reason before it: what send_json_response and the loop over pop()
\* leave behind, however the worker and the connection threads interleave.
THEOREM ResponseCompleteHolds == Spec => []ResponseComplete
<1>1. ASSUME IInv, StreamInv
      PROVE  ResponseComplete
  <2> SUFFICES ASSUME NEW h \in Handlers, hpc[h] \in {"unlock", "done"}, conn[h]
               PROVE  \/ Len(out[h]) = 1 /\ out[h][1].kind \in {"reply", "error"}
                      \/ req[h].kind = "stream" /\ CompleteStream(out[h])
                      \/ hpc[h] = "done" /\ out[h] = << >>
    BY DEF ResponseComplete
  <2>1. OutInv(h) /\ emitted[h] \in Nat
    BY <1>1, StreamTypes DEF StreamInv, StreamOf
  <2> QED BY <2>1, FinishedIsComplete DEF OutInv
<1> QED BY <1>1, Inductive, StreamInductive, PTL

-----------------------------------------------------------------------------
(* No fragment is lost, duplicated or reordered.                           *)

IsFragment(it) == it.kind \in {"chunk", "TOKEN"}

\* The fragments of s are its items d + 1 .. d + n and carry 1 .. n.
Numbered(s, d, n) ==
    /\ d + n <= Len(s)
    /\ \A i \in 1 .. Len(s) : i \notin d + 1 .. d + n => ~IsFragment(s[i])
    /\ \A i \in 1 .. n : IsFragment(s[d + i]) /\ s[d + i].n = i

LEMMA ChunkIsFragment ==
  \A i \in Nat : IsFragment(Item("chunk", i)) /\ Item("chunk", i).n = i
BY DEF Item, IsFragment

LEMMA NothingNumbered == Len(<< >>) = 0 /\ Numbered(<< >>, 0, 0)
BY DEF Numbered

LEMMA NumberedFragments ==
  ASSUME NEW s, Len(s) \in Nat, NEW d \in Nat, NEW n \in Nat, Numbered(s, d, n)
  PROVE  /\ {s[i].n : i \in FragmentsOf(s)} = 1 .. n
         /\ \A i, j \in FragmentsOf(s) : i < j => s[i].n < s[j].n
<1>1. ASSUME NEW i \in d + 1 .. d + n
      PROVE  IsFragment(s[i]) /\ s[i].n = i - d
  <2>1. i - d \in 1 .. n /\ d + (i - d) = i
    OBVIOUS
  <2>2. IsFragment(s[d + (i - d)]) /\ s[d + (i - d)].n = i - d
    BY <2>1 DEF Numbered
  <2> QED BY <2>1, <2>2
<1>2. FragmentsOf(s) = d + 1 .. d + n
  <2>1. d + 1 .. d + n \subseteq 1 .. Len(s)
    BY DEF Numbered
  <2>2. \A i \in 1 .. Len(s) : IsFragment(s[i]) <=> i \in d + 1 .. d + n
    BY <1>1 DEF Numbered
  <2> QED BY <2>1, <2>2 DEF FragmentsOf, IsFragment
<1>3. {s[i].n : i \in d + 1 .. d + n} = 1 .. n
  <2>1. ASSUME NEW j \in 1 .. n
        PROVE  \E i \in d + 1 .. d + n : s[i].n = j
    <3>1. d + j \in d + 1 .. d + n /\ (d + j) - d = j
      OBVIOUS
    <3> QED BY <1>1, <3>1
  <2>2. \A i \in d + 1 .. d + n : s[i].n \in 1 .. n
    <3>1. \A i \in d + 1 .. d + n : i - d \in 1 .. n
      OBVIOUS
    <3> QED BY <1>1, <3>1
  <2> QED BY <2>1, <2>2
<1>4. \A i, j \in d + 1 .. d + n : i < j => s[i].n < s[j].n
  BY <1>1
<1> QED BY <1>2, <1>3, <1>4

Anything == Delivered \cup TokenEvent

\* What is delivered and in hand, followed by what is in the channel.
LEMMA NumberedConcat ==
  ASSUME NEW u \in Seq(Anything), NEW q \in Seq(Anything),
         NEW d \in Nat, NEW t \in Nat, NEW p \in Nat,
         Numbered(u, d, t), Len(u) = d + t,
         p <= Len(q),
         \A i \in 1 .. p : q[i] = Token(t + i),
         \A i \in p + 1 .. Len(q) : ~IsFragment(q[i])
  PROVE  Numbered(u \o q, d, t + p)
<1> DEFINE s == u \o q
<1>1. /\ Len(s) = Len(u) + Len(q)
      /\ \A i \in 1 .. Len(u) + Len(q) :
            s[i] = IF i <= Len(u) THEN u[i] ELSE q[i - Len(u)]
  BY ConcatProperties
<1> HIDE DEF s
<1>2. Len(u) \in Nat /\ Len(q) \in Nat
  OBVIOUS
<1>3. d + (t + p) <= Len(s)
  BY <1>1, <1>2
<1>4. ASSUME NEW i \in 1 .. Len(s), i \notin d + 1 .. d + (t + p)
      PROVE  ~IsFragment(s[i])
  <2>1. CASE i <= Len(u)
    <3>1. i \in 1 .. Len(u) /\ i \notin d + 1 .. d + t /\ s[i] = u[i]
      BY <1>1, <1>2, <1>4, <2>1
    <3> QED BY <3>1 DEF Numbered
  <2>2. CASE i > Len(u)
    <3>1. i - Len(u) \in p + 1 .. Len(q) /\ s[i] = q[i - Len(u)]
      BY <1>1, <1>2, <1>4, <2>2
    <3> QED BY <3>1
  <2> QED BY <1>2, <2>1, <2>2
<1>5. ASSUME NEW i \in 1 .. t + p
      PROVE  IsFragment(s[d + i]) /\ s[d + i].n = i
  <2>1. CASE i <= t
    <3>1. i \in 1 .. t /\ s[d + i] = u[d + i]
      BY <1>1, <1>2, <2>1
    <3> QED BY <3>1 DEF Numbered
  <2>2. CASE i > t
    <3>1. i - t \in 1 .. p /\ s[d + i] = q[i - t]
      <4>1. d + i \in 1 .. Len(u) + Len(q) /\ ~(d + i <= Len(u))
            /\ (d + i) - Len(u) = i - t
        BY <1>2, <2>2
      <4>2. i - t \in 1 .. p
        BY <2>2
      <4>3. PICK j \in 1 .. Len(u) + Len(q) : j = d + i
        BY <4>1
      <4>4. s[j] = q[j - Len(u)]
        BY <1>1, <4>1, <4>3
      <4> QED BY <4>1, <4>2, <4>3, <4>4
    <3>2. q[i - t] = Token(i)
      <4>1. t + (i - t) = i
        OBVIOUS
      <4> QED BY <3>1, <4>1
    <3> QED BY <3>1, <3>2 DEF Token, IsFragment
  <2> QED BY <2>1, <2>2
<1>6. Numbered(s, d, t + p)
  BY <1>3, <1>4, <1>5 DEF Numbered
<1> QED BY <1>6 DEF s

\* The events of a channel, as NumberedConcat wants them.
LEMMA ChannelEvents ==
  ASSUME IInv, NEW h \in Handlers, ChannelInv(h)
  PROVE  /\ chan[h].q \in Seq(Anything)
         /\ Pending(h) <= Len(chan[h].q)
         /\ \A i \in 1 .. Pending(h) : chan[h].q[i] = Token(Taken(h) + i)
         /\ \A i \in Pending(h) + 1 .. Len(chan[h].q) : ~IsFragment(chan[h].q[i])
         /\ Taken(h) \in Nat /\ Taken(h) + Pending(h) = emitted[h]
<1> DEFINE q == chan[h].q
<1>1. /\ q \in Seq(TokenEvent) /\ Len(q) \in Nat /\ Pending(h) \in Nat
      /\ emitted[h] \in Nat
  BY StreamTypes
<1>2. Taken(h) \in Nat /\ Taken(h) + Pending(h) = emitted[h]
  BY <1>1 DEF ChannelInv, Taken
<1>3. \A i \in 1 .. Pending(h) : q[i] = Token(Taken(h) + i)
  BY DEF ChannelInv
<1>4. /\ Ended(h) => Pending(h) = Len(q) - 1 /\ Terminal(q[Len(q)])
      /\ ~Ended(h) => Pending(h) = Len(q)
  BY DEF Pending, Ended
<1> HIDE DEF q
<1>5. ASSUME NEW i \in Pending(h) + 1 .. Len(q)
      PROVE  ~IsFragment(q[i])
  <2>1. i = Len(q) /\ i \in 1 .. Len(q) /\ Terminal(q[i])
    BY <1>1, <1>4
  <2>2. q[i] \in TokenEvent
    BY <1>1, <2>1
  <2> QED BY <2>1, <2>2 DEF TokenEvent, Terminal, IsFragment
<1>6. Pending(h) <= Len(q)
  BY <1>1, <1>4
<1>7. q \in Seq(Anything)
  BY <1>1 DEF Anything
<1> QED BY <1>2, <1>3, <1>5, <1>6, <1>7 DEF q

\* What a client that stays has received, with the fragment in hand.
LEMMA NumberedBefore ==
  ASSUME IInv, StreamInv, NEW h \in Handlers, conn[h],
         hpc[h] \notin {"unlock", "close", "done"},
         NEW hand, hand = IF hpc[h] = "chunk" THEN <<held[h]>> ELSE << >>
  PROVE  /\ out[h] \o hand \in Seq(Anything)
         /\ \E d \in Nat : /\ Len(out[h] \o hand) = d + Taken(h)
                           /\ Numbered(out[h] \o hand, d, Taken(h))
<1> DEFINE s == out[h]
           n == Taken(h)
<1>1. /\ s \in Seq(Anything) /\ hand \in Seq(Anything)
      /\ held[h] \in TokenEvent
  <2>1. /\ out[h] \in Seq(Delivered) /\ held[h] \in TokenEvent
        /\ held[h] \in Anything
    BY StreamTypes DEF Anything
  <2>2. s \in Seq(Anything)
    BY <2>1, SeqMonotonic DEF Anything
  <2>3. << >> \in Seq(Anything) /\ <<held[h]>> \in Seq(Anything)
    BY <2>1
  <2> QED BY <2>1, <2>2, <2>3
<1>2. ChannelInv(h) /\ PlaceInv(h) /\ OutInv(h)
  BY DEF StreamInv, StreamOf
<1>3. n \in Nat
  BY <1>2, ChannelEvents
<1>4. CASE hpc[h] \in Unstreamed \cup {"headers"}
  <2>1. s = << >> /\ hand = << >>
    BY <1>2, <1>4 DEF OutInv, Unstreamed
  <2>2. n = 0
    <3>1. hpc[h] \in Unstreamed => n = 0
      BY <1>2 DEF PlaceInv, Taken, Pending
    <3> QED BY <1>2, <1>4, <3>1 DEF PlaceInv
  <2>3. s \o hand = << >>
    BY <2>1
  <2>4. Len(s \o hand) = 0 + n /\ Numbered(s \o hand, 0, n)
    <3> HIDE DEF s, n
    <3>1. 0 + n = 0
      BY <2>2
    <3> QED BY <2>2, <2>3, <3>1, NothingNumbered, Zenon
  <2>5. s \o hand \in Seq(Anything) /\ 0 \in Nat
    <3>1. << >> \in Seq(Anything)
      OBVIOUS
    <3> QED BY <2>3, <3>1
  <2> QED BY <2>4, <2>5
<1>5. ASSUME NEW m \in Nat, Len(s) = m + 2, Opens(s, m)
      PROVE  Numbered(s, 2, m)
  <2>1. \A i \in 1 .. m : s[2 + i] = Item("chunk", i)
    BY <1>5 DEF Opens
  <2>2. \A i \in 1 .. m : IsFragment(s[2 + i]) /\ s[2 + i].n = i
    BY <2>1, ChunkIsFragment
  <2>3. \A i \in 1 .. Len(s) : i \notin 2 + 1 .. 2 + m => i = 1 \/ i = 2
    BY <1>5
  <2>4. ~IsFragment(s[1]) /\ ~IsFragment(s[2])
    BY <1>5 DEF Opens, IsFragment
  <2>5. 2 + m <= Len(s)
    BY <1>5
  <2> QED BY <2>2, <2>3, <2>4, <2>5 DEF Numbered
<1>6. CASE hpc[h] \in {"drain", "last"}
  <2>1. Len(s) = n + 2 /\ Opens(s, n)
    BY <1>2, <1>6 DEF OutInv
  <2>2. s \o hand = s
    <3>1. hand = << >>
      BY <1>6
    <3> QED BY <1>1, <3>1, ConcatEmptySeq
  <2>3. Len(s \o hand) = 2 + n /\ Numbered(s \o hand, 2, n)
    <3>1. Numbered(s, 2, n)
      BY <1>3, <1>5, <2>1
    <3>2. Len(s) = 2 + n
      BY <1>3, <2>1
    <3> QED BY <2>2, <3>1, <3>2
  <2> QED BY <1>1, <2>2, <2>3
<1>7. CASE hpc[h] = "chunk"
  <2>1. /\ Len(s) = n + 1 /\ Opens(s, n - 1)
        /\ n >= 1 /\ held[h].n = n /\ held[h].kind = "TOKEN"
    BY <1>2, <1>7 DEF OutInv, PlaceInv, IInv, HeldInv
  <2>2. n - 1 \in Nat /\ Len(s) = (n - 1) + 2
    BY <1>3, <2>1
  <2>3. Numbered(s, 2, n - 1)
    BY <1>5, <2>1, <2>2
  <2>4. hand = <<held[h]>> /\ held[h] = Token((n - 1) + 1)
    BY <1>1, <1>3, <1>7, <2>1 DEF TokenEvent, Token
  <2>5. /\ hand \in Seq(Anything) /\ Len(hand) = 1
        /\ hand[1] = Token((n - 1) + 1)
    <3>1. held[h] \in Anything
      BY <1>1 DEF Anything
    <3>2. Len(<<held[h]>>) = 1 /\ <<held[h]>>[1] = held[h]
      OBVIOUS
    <3> QED BY <1>1, <2>4, <3>1, <3>2
  <2>6. Numbered(s \o hand, 2, (n - 1) + 1)
    <3>1. /\ Len(s) = 2 + (n - 1) /\ 1 <= Len(hand)
          /\ \A i \in 1 .. 1 : hand[i] = Token((n - 1) + i)
          /\ \A i \in 1 + 1 .. Len(hand) : ~IsFragment(hand[i])
      BY <2>2, <2>5
    <3> HIDE DEF s, n
    <3> QED BY <1>1, <2>2, <2>3, <2>5, <3>1, NumberedConcat
  <2>7. s \o hand \in Seq(Anything) /\ Len(s \o hand) = 2 + n
    <3> HIDE DEF s, n
    <3>1. s \o hand \in Seq(Anything) /\ Len(s \o hand) = Len(s) + Len(hand)
      BY <1>1, ConcatProperties
    <3>2. (n + 1) + 1 = 2 + n
      BY <1>3
    <3> QED BY <2>1, <2>5, <3>1, <3>2
  <2>8. Numbered(s \o hand, 2, n)
    <3>1. (n - 1) + 1 = n
      BY <1>3
    <3> QED BY <2>6, <3>1
  <2> QED BY <2>7, <2>8
<1>8. hpc[h] \in Unstreamed \cup {"headers", "drain", "last", "chunk"}
  BY StreamTypes DEF HandlerPC, Unstreamed
<1> QED BY <1>4, <1>6, <1>7, <1>8

\* Every fragment the worker emits for a client that stays is delivered, in
\* the handler's hand or in the channel, once and in its turn: the bounded
\* TokenChannel loses nothing when it is full and the handler's pop loop
\* skips nothing.
THEOREM NoFragmentLostHolds == Spec => []NoFragmentLost
<1>1. ASSUME IInv, StreamInv
      PROVE  NoFragmentLost
  <2> SUFFICES ASSUME NEW h \in Handlers, conn[h]
               PROVE  LET s == InFlight(h)
                      IN  /\ {s[i].n : i \in FragmentsOf(s)} = 1 .. emitted[h]
                          /\ \A i, j \in FragmentsOf(s) : i < j => s[i].n < s[j].n
    BY DEF NoFragmentLost
  <2> DEFINE s == InFlight(h)
             hand == IF hpc[h] = "chunk" THEN <<held[h]>> ELSE << >>
  <2>1. /\ emitted[h] \in Nat /\ Pending(h) \in Nat /\ out[h] \in Seq(Anything)
        /\ ChannelInv(h) /\ PlaceInv(h) /\ OutInv(h)
    BY <1>1, StreamTypes DEF Anything, StreamInv, StreamOf
  <2>2. \E d \in Nat : Len(s) \in Nat /\ Numbered(s, d, emitted[h])
    <3>1. CASE hpc[h] \notin {"unlock", "close", "done"}
      <4> DEFINE u == out[h] \o hand
      <4>1. s = u \o chan[h].q
        BY DEF InFlight
      <4>2. /\ chan[h].q \in Seq(Anything)
            /\ Pending(h) <= Len(chan[h].q)
            /\ \A i \in 1 .. Pending(h) : chan[h].q[i] = Token(Taken(h) + i)
            /\ \A i \in Pending(h) + 1 .. Len(chan[h].q) : ~IsFragment(chan[h].q[i])
            /\ Taken(h) \in Nat /\ Taken(h) + Pending(h) = emitted[h]
        BY <1>1, <2>1, ChannelEvents
      <4>3. PICK d \in Nat : /\ u \in Seq(Anything)
                             /\ Len(u) = d + Taken(h)
                             /\ Numbered(u, d, Taken(h))
        BY <1>1, <3>1, NumberedBefore
      <4> HIDE DEF u
      <4>4. Numbered(u \o chan[h].q, d, Taken(h) + Pending(h))
        BY <2>1, <4>2, <4>3, NumberedConcat
      <4>5. Len(u \o chan[h].q) \in Nat
        BY <4>2, <4>3
      <4> QED BY <4>1, <4>2, <4>4, <4>5
    <3>2. CASE hpc[h] \in {"unlock", "close", "done"}
      <4>1. s = out[h]
        <5>1. hand = << >> /\ chan[h].q = << >>
          BY <2>1, <3>2 DEF PlaceInv, Over
        <5>2. s = (out[h] \o << >>) \o << >>
          BY <5>1 DEF InFlight
        <5> QED BY <2>1, <5>2, ConcatEmptySeq
      <4> HIDE DEF s
      <4>2. Len(s) \in Nat
        BY <2>1, <4>1
      <4>3. CASE emitted[h] = 0 /\ Len(s) = 1 /\ s[1].kind \in {"reply", "error"}
        <5>1. Numbered(s, 0, emitted[h])
          BY <4>3 DEF Numbered, IsFragment
        <5> QED BY <4>2, <5>1
      <4>4. CASE Finished(s, emitted[h])
        <5>1. Numbered(s, 2, emitted[h])
          <6>1. \A i \in 1 .. emitted[h] : IsFragment(s[2 + i]) /\ s[2 + i].n = i
            <7>1. \A i \in 1 .. emitted[h] : s[i + 2] = Item("chunk", i) /\ i + 2 = 2 + i
              BY <2>1, <4>4 DEF Finished, Opens
            <7> QED BY <7>1, ChunkIsFragment
          <6>2. \A i \in 1 .. Len(s) : i \notin 2 + 1 .. 2 + emitted[h]
                   => i \in {1, 2, emitted[h] + 3, emitted[h] + 4}
            BY <2>1, <4>4 DEF Finished
          <6>3. /\ ~IsFragment(s[1]) /\ ~IsFragment(s[2])
                /\ ~IsFragment(s[emitted[h] + 3])
                /\ ~IsFragment(s[emitted[h] + 4])
            BY <4>4 DEF Finished, Opens, IsFragment, Reasons
          <6>4. 2 + emitted[h] <= Len(s)
            BY <2>1, <4>4 DEF Finished
          <6> QED BY <6>1, <6>2, <6>3, <6>4 DEF Numbered
        <5> QED BY <4>2, <5>1
      <4>5. CASE emitted[h] = 0 /\ s = << >>
        <5>1. Numbered(s, 0, emitted[h])
          BY <4>5 DEF Numbered
        <5> QED BY <4>2, <5>1
      <4> QED BY <2>1, <3>2, <4>1, <4>3, <4>4, <4>5 DEF OutInv
    <3> QED BY <3>1, <3>2
  <2> HIDE DEF s
  <2>3. /\ {s[i].n : i \in FragmentsOf(s)} = 1 .. emitted[h]
        /\ \A i, j \in FragmentsOf(s) : i < j => s[i].n < s[j].n
    BY <2>1, <2>2, NumberedFragments
  <2> QED BY <2>3 DEF s
<1> QED BY <1>1, Inductive, StreamInductive, PTL

-----------------------------------------------------------------------------
(***************************************************************************)
(* The server implements SerialService: every step of its threads is a     *)
(* step of the abstract service or leaves the abstract state alone.  The   *)
(* mapping is InferenceServer's instance Service: the owner of model_mutex *)
(* is the client the model works for, the worker's queue, promise and      *)
(* channel say what a client was promised, and what has left a channel is  *)
(* what its client has taken.                                              *)
(*                                                                         *)
(*   Lock           Enter           FinishRequest  GiveAnswer              *)
(*   SubmitRequest  Ask             ReportError    GiveAnswer              *)
(*   EmitToken      Make            Unlock         Leave                   *)
(*   FlushTail      Make            PopEvent       Take, for a token       *)
(*                                                                         *)
(* and every other step stutters.                                          *)
(***************************************************************************)

-----------------------------------------------------------------------------
(* The abstract state.                                                     *)

\* What the mapping gives for stage[h]; Taken(h) is what it gives for
\* taken[h].
Stage(h) == IF HasAnswer(h) THEN "answered"
            ELSE IF Asked(h) THEN "asked" ELSE "idle"

StageMap == [h \in Handlers |-> Stage(h)]
TakenMap == [h \in Handlers |-> Taken(h)]

\* The abstract actions over the concrete variables.
LEMMA MapActions ==
  ASSUME NEW c \in Handlers
  PROVE  /\ Service!Enter(c) <=>
              /\ mutex = NoThread /\ Stage(c) = "idle" /\ mutex' = c
              /\ StageMap' = StageMap /\ emitted' = emitted /\ TakenMap' = TakenMap
         /\ Service!Ask(c) <=>
              /\ mutex = c /\ Stage(c) = "idle"
              /\ StageMap' = [StageMap EXCEPT ![c] = "asked"]
              /\ mutex' = mutex /\ emitted' = emitted /\ TakenMap' = TakenMap
         /\ Service!Make(c) <=>
              /\ mutex = c /\ Stage(c) = "asked"
              /\ emitted' = [emitted EXCEPT ![c] = @ + 1]
              /\ mutex' = mutex /\ StageMap' = StageMap /\ TakenMap' = TakenMap
         /\ Service!Take(c) <=>
              /\ mutex = c /\ Taken(c) < emitted[c]
              /\ TakenMap' = [TakenMap EXCEPT ![c] = @ + 1]
              /\ mutex' = mutex /\ StageMap' = StageMap /\ emitted' = emitted
         /\ Service!GiveAnswer(c) <=>
              /\ mutex = c /\ Stage(c) = "asked"
              /\ StageMap' = [StageMap EXCEPT ![c] = "answered"]
              /\ mutex' = mutex /\ emitted' = emitted /\ TakenMap' = TakenMap
         /\ Service!Leave(c) <=>
              /\ mutex = c /\ Stage(c) # "asked" /\ Taken(c) = emitted[c]
              /\ mutex' = NoThread
              /\ StageMap' = StageMap /\ emitted' = emitted /\ TakenMap' = TakenMap
<1> USE DEF StageMap, TakenMap, Stage, Taken
<1>1. StageMap[c] = Stage(c) /\ TakenMap[c] = Taken(c)
  OBVIOUS
<1> QED BY <1>1 DEF Service!Enter, Service!Ask, Service!Make, Service!Take,
           Service!GiveAnswer, Service!Leave

\* A step that leaves every stage and every count alone stutters.
LEMMA Stutters ==
  ASSUME UNCHANGED <<mutex, emitted>>,
         \A k \in Handlers : Stage(k)' = Stage(k) /\ Taken(k)' = Taken(k)
  PROVE  UNCHANGED Service!serviceVars
<1>1. StageMap' = StageMap /\ TakenMap' = TakenMap
  BY DEF StageMap, TakenMap
<1> QED BY <1>1 DEF Service!serviceVars, StageMap, TakenMap, Stage, Taken

\* What a stage is made of.
LEMMA StageFrame ==
  ASSUME NEW k \in Handlers, HasAnswer(k)' <=> HasAnswer(k), Asked(k)' <=> Asked(k)
  PROVE  Stage(k)' = Stage(k)
BY DEF Stage

LEMMA SameAnswer ==
  ASSUME NEW k \in Handlers, promise'[k] = promise[k],
         chan'[k].closed = chan[k].closed,
         (wpc' = "close" /\ wreq' = k) <=> (wpc = "close" /\ wreq = k)
  PROVE  HasAnswer(k)' <=> HasAnswer(k)
BY DEF HasAnswer

LEMMA SameAsked ==
  ASSUME NEW k \in Handlers, queue'.q = queue.q,
         Serving' /\ wreq' = k <=> Serving /\ wreq = k
  PROVE  Asked(k)' <=> Asked(k)
BY DEF Asked

LEMMA SameTaken ==
  ASSUME NEW k \in Handlers, chan'[k].q = chan[k].q, emitted'[k] = emitted[k]
  PROVE  Taken(k)' = Taken(k)
BY DEF Taken, Pending

LEMMA AskedWaits ==
  ASSUME IInv, NEW h \in Handlers, Asked(h)
  PROVE  Waiting(h)
<1>1. CASE \E i \in 1 .. Len(queue.q) : queue.q[i] = h
  <2>1. queue.q # << >>
    BY <1>1
  <2>2. queue.q = <<mutex>> /\ Waiting(mutex)
    BY <2>1 DEF IInv, QueueInv
  <2>3. h = mutex
    BY <1>1, <2>2
  <2> QED BY <2>2, <2>3
<1>2. CASE Serving /\ wreq = h
  BY <1>2 DEF IInv, HandOver
<1> QED BY <1>1, <1>2 DEF Asked

\* A handler that has not submitted its request is idle, and one that has
\* stopped waiting is not owed anything.
LEMMA FreshIsIdle ==
  ASSUME IInv, NEW h \in Handlers, Fresh(h)
  PROVE  Stage(h) = "idle"
<1>1. promise[h] = "none" /\ ~chan[h].closed
  BY DEF IInv, NoAnswerYet, Untouched, Silent
<1>2. ~(wpc = "close" /\ wreq = h)
  BY DEF IInv, CloseInv
<1>3. ~Waiting(h)
  BY DEF Waiting, Fresh
<1>4. ~Asked(h)
  BY <1>3, AskedWaits
<1> QED BY <1>1, <1>2, <1>4 DEF Stage, HasAnswer

\* While the worker serves w, w alone has been promised an answer.
LEMMA ServedIsAsked ==
  ASSUME IInv, Serving
  PROVE  /\ wreq \in Handlers /\ mutex = wreq
         /\ \A w \in Handlers : w = wreq => Stage(w) = "asked"
         /\ \A k \in Handlers : k # wreq => ~Asked(k)
         /\ queue.q = << >>
<1>1. wreq \in Handlers /\ mutex = wreq /\ queue.q = << >> /\ Untouched(wreq)
  BY ServingFacts DEF IInv, HandOver
<1>2. \A k \in Handlers : k # wreq => ~Asked(k)
  BY <1>1 DEF Asked
<1>3. ASSUME NEW w \in Handlers, w = wreq
      PROVE  Stage(w) = "asked"
  BY <1>1, <1>3 DEF Stage, HasAnswer, Asked, Untouched, Silent, Serving
<1> QED BY <1>1, <1>2, <1>3

-----------------------------------------------------------------------------
(* The steps of the connection threads.                                    *)

LEMMA LockEnters ==
  ASSUME IInv, NEW h \in Handlers, Lock(h)
  PROVE  Service!Enter(h)
<1>1. /\ mutex = NoThread /\ mutex' = h /\ hpc[h] = "lock"
      /\ UNCHANGED <<queue, chan, promise, wpc, wreq, emitted>>
  BY DEF Lock
<1>2. Stage(h) = "idle"
  BY <1>1, FreshIsIdle DEF Fresh
<1>3. StageMap' = StageMap /\ TakenMap' = TakenMap
  BY <1>1 DEF StageMap, TakenMap, Stage, HasAnswer, Asked, Serving, Taken, Pending
<1> QED BY <1>1, <1>2, <1>3, MapActions

LEMMA SubmitAsks ==
  ASSUME IInv, NEW h \in Handlers, SubmitRequest(h)
  PROVE  Service!Ask(h)
<1>1. /\ queue' = Submit(queue, h) /\ hpc[h] = "submit"
      /\ UNCHANGED <<mutex, chan, promise, wpc, wreq, emitted>>
  BY DEF SubmitRequest
<1>2. mutex = h
  BY <1>1 DEF IInv, ScopeInv, InScope
<1>3. Stage(h) = "idle"
  BY <1>1, FreshIsIdle DEF Fresh
<1>4. /\ queue.q \in Seq(Handlers)
      /\ queue'.q = Append(queue.q, h)
  BY <1>1 DEF Submit, IInv, TypeOK, SharedTypeOK
<1>5. /\ Len(queue'.q) = Len(queue.q) + 1 /\ Len(queue.q) \in Nat
      /\ \A i \in 1 .. Len(queue.q) : queue'.q[i] = queue.q[i]
      /\ queue'.q[Len(queue.q) + 1] = h
  BY <1>4, AppendProperties
<1>6. \A k \in Handlers : HasAnswer(k)' <=> HasAnswer(k)
  BY <1>1 DEF HasAnswer
<1>7. Stage(h)' = "asked"
  <2>1. ~HasAnswer(h)'
    BY <1>3, <1>6 DEF Stage
  <2>2. Asked(h)'
    <3>1. Len(queue.q) + 1 \in 1 .. Len(queue'.q)
      BY <1>5
    <3> QED BY <1>5, <3>1 DEF Asked
  <2> QED BY <2>1, <2>2 DEF Stage
<1>8. ASSUME NEW k \in Handlers, k # h
      PROVE  Stage(k)' = Stage(k)
  <2>1. (\E i \in 1 .. Len(queue'.q) : queue'.q[i] = k)
           <=> \E i \in 1 .. Len(queue.q) : queue.q[i] = k
    <3>1. \A i \in 1 .. Len(queue'.q) : i \in 1 .. Len(queue.q) \/ i = Len(queue.q) + 1
      BY <1>5
    <3>2. \A i \in 1 .. Len(queue.q) : i \in 1 .. Len(queue'.q)
      BY <1>5
    <3> QED BY <1>5, <1>8, <3>1, <3>2
  <2>2. Asked(k)' <=> Asked(k)
    BY <1>1, <2>1 DEF Asked, Serving
  <2> QED BY <1>6, <2>2 DEF Stage
<1>9. StageMap' = [StageMap EXCEPT ![h] = "asked"]
  BY <1>7, <1>8 DEF StageMap
<1>10. TakenMap' = TakenMap
  BY <1>1 DEF TakenMap, Taken, Pending
<1> QED BY <1>1, <1>2, <1>3, <1>9, <1>10, MapActions

LEMMA PopTakes ==
  ASSUME IInv, StreamInv, NEW h \in Handlers, PopEvent(h)
  PROVE  Service!Take(h) \/ UNCHANGED Service!serviceVars
<1>1. /\ hpc[h] = "drain" /\ MayPop(chan[h])
      /\ UNCHANGED <<mutex, queue, promise, wpc, wreq, emitted>>
  BY DEF PopEvent
<1>2. StreamOf(h) /\ ChannelInv(h)
  BY DEF StreamInv, StreamOf
<1>3. chan[h].q # << >>
  <2>1. chan[h].closed => chan[h].q # << >>
    BY <1>1, <1>2 DEF StreamOf, PlaceInv, Ended, Over
  <2> QED BY <1>1, <2>1 DEF MayPop
<1>4. chan' = [chan EXCEPT ![h] = PopFront(chan[h])]
  BY <1>3 DEF PopEvent, Drained
<1>5. /\ chan'[h] = PopFront(chan[h])
      /\ chan'[h].closed = chan[h].closed
      /\ \A k \in Handlers \ {h} : chan'[k] = chan[k]
  BY <1>4 DEF PopFront, Channel, IInv, TypeOK, SharedTypeOK
<1>6. \A k \in Handlers : Stage(k)' = Stage(k)
  BY <1>1, <1>5 DEF Stage, HasAnswer, Asked, Serving
<1>7. \A k \in Handlers \ {h} : Taken(k)' = Taken(k)
  BY <1>1, <1>5 DEF Taken, Pending
<1>8. CASE Front(chan[h]).kind = "TOKEN"
  <2>1. Taken(h)' = Taken(h) + 1 /\ ChannelInv(h)'
    BY <1>1, <1>2, <1>3, <1>5, <1>8, PopFacts
  <2>2. Taken(h) < emitted[h]
    <3>1. Pending(h) >= 1
      BY <1>1, <1>2, <1>3, <1>5, <1>8, PopFacts
    <3> QED BY <3>1, StreamTypes DEF Taken
  <2>3. mutex = h
    BY <1>1 DEF IInv, ScopeInv, InScope
  <2>4. StageMap' = StageMap
    BY <1>6 DEF StageMap
  <2>5. TakenMap' = [TakenMap EXCEPT ![h] = @ + 1]
    BY <1>7, <2>1 DEF TakenMap
  <2> QED BY <1>1, <2>2, <2>3, <2>4, <2>5, MapActions
<1>9. CASE Front(chan[h]).kind # "TOKEN"
  <2>1. Taken(h)' = Taken(h)
    BY <1>1, <1>2, <1>3, <1>5, <1>9, PopFacts
  <2> QED BY <1>1, <1>6, <1>7, <2>1, Stutters
<1> QED BY <1>8, <1>9

LEMMA UnlockLeaves ==
  ASSUME IInv, StreamInv, NEW h \in Handlers, Unlock(h)
  PROVE  Service!Leave(h)
<1>1. /\ hpc[h] = "unlock" /\ mutex' = NoThread
      /\ UNCHANGED <<queue, chan, promise, wpc, wreq, emitted>>
  BY DEF Unlock
<1>2. mutex = h
  BY <1>1 DEF IInv, ScopeInv, InScope
<1>3. Stage(h) # "asked"
  <2>1. ~Waiting(h)
    BY <1>1 DEF Waiting
  <2> QED BY <2>1, AskedWaits DEF Stage
<1>4. Taken(h) = emitted[h]
  <2>1. chan[h].q = << >>
    BY <1>1 DEF StreamInv, StreamOf, PlaceInv, Over
  <2>2. Pending(h) = 0
    BY <2>1 DEF Pending
  <2> QED BY <2>2, StreamTypes DEF Taken
<1>5. StageMap' = StageMap /\ TakenMap' = TakenMap
  BY <1>1 DEF StageMap, TakenMap, Stage, HasAnswer, Asked, Serving, Taken, Pending
<1> QED BY <1>1, <1>2, <1>3, <1>4, <1>5, MapActions

\* Whatever changes none of the variables the mapping reads.
LEMMA Unseen ==
  ASSUME UNCHANGED <<mutex, queue, chan, promise, wpc, wreq, emitted>>
  PROVE  UNCHANGED Service!serviceVars
<1>1. \A k \in Handlers : Stage(k)' = Stage(k) /\ Taken(k)' = Taken(k)
  BY DEF Stage, HasAnswer, Asked, Serving, Taken, Pending
<1> QED BY <1>1, Stutters

LEMMA HandlerImplements ==
  ASSUME IInv, StreamInv, NEW h \in Handlers, HandlerStep(h)
  PROVE  Service!ServiceNext \/ UNCHANGED Service!serviceVars
<1>1. CASE Lock(h)
  BY <1>1, LockEnters DEF Service!ServiceNext
<1>2. CASE SubmitRequest(h)
  BY <1>2, SubmitAsks DEF Service!ServiceNext
<1>3. CASE PopEvent(h)
  BY <1>3, PopTakes DEF Service!ServiceNext
<1>4. CASE Unlock(h)
  BY <1>4, UnlockLeaves DEF Service!ServiceNext
<1>5. CASE \/ BadHttp(h) \/ Route(h) \/ RejectBody(h) \/ AcceptBody(h)
           \/ EnterModel(h) \/ RunPrompt(h) \/ LeaveModel(h) \/ SampleToken(h)
           \/ ForwardToken(h)
  <2>1. UNCHANGED <<mutex, queue, chan, promise, wpc, wreq, emitted>>
    BY <1>5 DEF BadHttp, Route, RejectBody, AcceptBody, EnterModel, RunPrompt,
       LeaveModel, SampleToken, ForwardToken
  <2> QED BY <2>1, Unseen
<1>6. CASE \/ Reply(h) \/ SendHeaders(h) \/ SendChunk(h) \/ ChunkFails(h)
           \/ SendLast(h) \/ AwaitResult(h) \/ CloseSocket(h)
  <2>1. UNCHANGED <<mutex, queue, chan, promise, wpc, wreq, emitted>>
    BY <1>6 DEF Reply, SendHeaders, SendChunk, ChunkFails, SendLast,
       AwaitResult, CloseSocket
  <2> QED BY <2>1, Unseen
<1> QED BY <1>1, <1>2, <1>3, <1>4, <1>5, <1>6 DEF HandlerStep

-----------------------------------------------------------------------------
(* The steps of the worker.                                                *)

\* A step of the worker while it serves a request, or while it serves none.
LEMMA WorkerStutters ==
  ASSUME IInv,
         \/ TestRunning \/ BeginProcess \/ Prefill \/ StopAtLimit \/ StopAtToken
         \/ KeepToken \/ Forward \/ FlushNothing \/ ProcessThrows
  PROVE  UNCHANGED Service!serviceVars
<1>1. /\ UNCHANGED <<mutex, queue, chan, promise, wreq, emitted>>
      /\ Serving' <=> Serving
      /\ wpc # "close" /\ wpc' # "close"
  <2>1. CASE TestRunning \/ BeginProcess \/ Prefill \/ ProcessThrows
    BY <2>1 DEF TestRunning, BeginProcess, Prefill, ProcessThrows, Serving
  <2>2. CASE StopAtLimit \/ StopAtToken \/ KeepToken
    BY <2>2 DEF StopAtLimit, StopAtToken, KeepToken, Sampling, AfterLoop, Serving
  <2>3. CASE Forward \/ FlushNothing
    BY <2>3 DEF Forward, FlushNothing, Serving
  <2> QED BY <2>1, <2>2, <2>3
<1>2. \A k \in Handlers : Stage(k)' = Stage(k) /\ Taken(k)' = Taken(k)
  BY <1>1 DEF Stage, HasAnswer, Asked, Taken, Pending
<1> QED BY <1>1, <1>2, Stutters

\* Taking a request from the queue changes where it waits, not what it waits
\* for.
LEMMA TakeStutters ==
  ASSUME IInv, WaitPop
  PROVE  UNCHANGED Service!serviceVars
<1>1. /\ wpc = "pop"
      /\ UNCHANGED <<mutex, chan, promise, emitted>>
      /\ ~Serving
  BY DEF WaitPop, Serving
<1>2. \A k \in Handlers : Asked(k)' <=> Asked(k)
  <2>1. CASE queue.q = << >>
    <3>1. UNCHANGED <<queue, wreq>> /\ ~Serving'
      BY <2>1 DEF WaitPop, NoMoreWork, Serving
    <3> QED BY <1>1, <3>1 DEF Asked
  <2>2. CASE queue.q # << >>
    <3>1. queue.q = <<mutex>> /\ mutex \in Handlers
      BY <2>2 DEF IInv, QueueInv
    <3>2. wreq' = Head(queue.q) /\ queue' = TakeOldest(queue) /\ Serving'
      BY <2>2 DEF WaitPop, NoMoreWork, Oldest, Serving
    <3>3. wreq' = mutex
      BY <3>1, <3>2
    <3>4. queue'.q = << >>
      <4>1. queue'.q = Tail(queue.q)
        BY <3>2 DEF TakeOldest, IInv, TypeOK, SharedTypeOK
      <4> QED BY <3>1, <4>1
    <3>5. \A k \in Handlers : Asked(k) <=> k = mutex
      BY <1>1, <3>1 DEF Asked
    <3>6. \A k \in Handlers : Asked(k)' <=> k = mutex
      BY <3>2, <3>3, <3>4 DEF Asked
    <3> QED BY <3>5, <3>6
  <2> QED BY <2>1, <2>2
<1>3. wpc' # "close"
  BY DEF WaitPop
<1>4. \A k \in Handlers : Stage(k)' = Stage(k) /\ Taken(k)' = Taken(k)
  BY <1>1, <1>2, <1>3 DEF Stage, HasAnswer, Taken, Pending
<1> QED BY <1>1, <1>4, Stutters

LEMMA PushMakes ==
  ASSUME IInv, StreamInv, wpc \in {"emit", "flush"},
         NEW next \in {"forward", "finish"}, PushToken(next)
  PROVE  \E w \in Handlers : Service!Make(w)
<1>1. PICK w \in Handlers : w = wreq
  BY ServingFacts DEF Serving
<1>2. /\ req[w].kind = "stream" /\ ChannelInv(w)
      /\ ~chan[w].closed /\ ~Ended(w)
  BY <1>1, ServedStream DEF StreamInv, StreamOf, StreamOnly, Serving, Silent
<1> DEFINE ev == Token(emitted[w] + 1)
<1>3. /\ chan' = [chan EXCEPT ![w] = Push(chan[w], ev)]
      /\ emitted' = [emitted EXCEPT ![w] = emitted[w] + 1]
      /\ UNCHANGED <<mutex, queue, promise, wreq>>
      /\ wpc' = next
  BY <1>1 DEF PushToken
<1>4. emitted[w] \in Nat /\ Pending(w) \in Nat
  BY StreamTypes
<1>5. ev \in TokenEvent /\ ~Terminal(ev)
  BY <1>4 DEF Token, TokenEvent, Terminal
<1> HIDE DEF ev
<1>6. /\ emitted'[w] = emitted[w] + 1
      /\ \A k \in Handlers \ {w} : emitted'[k] = emitted[k]
  BY <1>3 DEF IInv, TypeOK, WorkerTypeOK
<1>7. /\ chan'[w].closed = chan[w].closed
      /\ Pending(w)' = Pending(w) + 1
      /\ \A k \in Handlers \ {w} : chan'[k] = chan[k]
  BY <1>2, <1>3, <1>5, PushFacts
<1>8. \A k \in Handlers : Taken(k)' = Taken(k)
  <2>1. Taken(w)' = Taken(w)
    BY <1>4, <1>6, <1>7 DEF Taken
  <2>2. \A k \in Handlers \ {w} : Taken(k)' = Taken(k)
    BY <1>6, <1>7 DEF Taken, Pending
  <2> QED BY <2>1, <2>2
<1>9. \A k \in Handlers : Stage(k)' = Stage(k)
  <2>1. Serving /\ Serving' /\ wpc # "close" /\ wpc' # "close"
    BY <1>3 DEF Serving
  <2>2. \A k \in Handlers : chan'[k].closed = chan[k].closed
    BY <1>7
  <2> QED BY <1>3, <2>1, <2>2 DEF Stage, HasAnswer, Asked
<1>10. mutex = w /\ Stage(w) = "asked"
  BY <1>1, ServedIsAsked DEF Serving
<1>11. StageMap' = StageMap /\ TakenMap' = TakenMap
  BY <1>8, <1>9 DEF StageMap, TakenMap
<1> QED BY <1>3, <1>10, <1>11, MapActions

LEMMA AnswerGives ==
  ASSUME IInv, StreamInv, wpc \in {"finish", "report"},
         NEW ev \in TokenEvent, Terminal(ev),
         NEW value \in {"value", "exception"}, Answer(ev, value)
  PROVE  \E w \in Handlers : Service!GiveAnswer(w)
<1>1. PICK w \in Handlers : w = wreq
  BY ServingFacts DEF Serving
<1>2. Serving /\ wpc # "close"
  BY DEF Serving
<1>3. /\ mutex = w /\ Stage(w) = "asked" /\ queue.q = << >>
      /\ \A k \in Handlers : k # w => ~Asked(k)
  BY <1>1, <1>2, ServedIsAsked
<1>4. UNCHANGED <<queue, mutex, emitted>>
  BY DEF Answer
<1>5. /\ HasAnswer(w)'
      /\ \A k \in Handlers : k # w => /\ HasAnswer(k)' <=> HasAnswer(k)
                                      /\ ~Asked(k)'
      /\ \A k \in Handlers : Taken(k)' = Taken(k)
  <2>1. CASE req[w].kind = "stream"
    <3>1. ChannelInv(w) /\ ~chan[w].closed /\ ~Ended(w)
      BY <1>1, <1>2, <2>1, ServedStream DEF StreamInv, StreamOf, Silent
    <3>2. /\ chan' = [chan EXCEPT ![w] = Push(chan[w], ev)]
          /\ wpc' = "close" /\ UNCHANGED <<promise, wreq>>
      BY <1>1, <2>1 DEF Answer
    <3>3. /\ Pending(w)' = Pending(w)
          /\ \A k \in Handlers \ {w} : chan'[k] = chan[k]
      BY <3>1, <3>2, PushFacts
    <3>4. \A k \in Handlers : Taken(k)' = Taken(k)
      <4>1. Taken(w)' = Taken(w)
        BY <1>4, <3>3 DEF Taken
      <4>2. \A k \in Handlers \ {w} : Taken(k)' = Taken(k)
        BY <1>4, <3>3 DEF Taken, Pending
      <4> QED BY <4>1, <4>2
    <3>5. ~Serving'
      BY <3>2 DEF Serving
    <3> QED BY <1>1, <1>2, <1>3, <1>4, <3>2, <3>3, <3>4, <3>5 DEF HasAnswer, Asked
  <2>2. CASE req[w].kind # "stream"
    <3>1. /\ promise' = [promise EXCEPT ![w] = value]
          /\ wpc' = "loop" /\ UNCHANGED chan
      BY <1>1, <2>2 DEF Answer
    <3>2. /\ promise'[w] = value /\ value # "none"
          /\ \A k \in Handlers \ {w} : promise'[k] = promise[k]
      BY <3>1 DEF IInv, TypeOK, SharedTypeOK
    <3>3. ~Serving'
      BY <3>1 DEF Serving
    <3>4. \A k \in Handlers : Taken(k)' = Taken(k)
      BY <1>4, <3>1 DEF Taken, Pending
    <3> QED BY <1>1, <1>2, <1>3, <1>4, <3>1, <3>2, <3>3, <3>4 DEF HasAnswer, Asked
  <2> QED BY <2>1, <2>2
<1>6. Stage(w)' = "answered"
  BY <1>5 DEF Stage
<1>7. \A k \in Handlers : k # w => Stage(k)' = Stage(k)
  BY <1>3, <1>5 DEF Stage
<1>8. StageMap' = [StageMap EXCEPT ![w] = "answered"]
  BY <1>6, <1>7 DEF StageMap
<1>9. TakenMap' = TakenMap
  BY <1>5 DEF TakenMap
<1> QED BY <1>3, <1>4, <1>8, <1>9, MapActions

LEMMA CloseStutters ==
  ASSUME IInv, CloseChannel
  PROVE  UNCHANGED Service!serviceVars
<1>1. PICK w \in Handlers : w = wreq
  BY DEF CloseChannel, IInv, CloseInv
<1>2. /\ wpc = "close" /\ wpc' = "loop"
      /\ chan' = [chan EXCEPT ![w] = Close(chan[w])]
      /\ UNCHANGED <<queue, mutex, promise, emitted>>
  BY <1>1 DEF CloseChannel
<1>3. /\ chan'[w].q = chan[w].q /\ chan'[w].closed
      /\ \A k \in Handlers \ {w} : chan'[k] = chan[k]
  BY <1>2, StreamTypes DEF Close, Channel, IInv, TypeOK, SharedTypeOK
<1>4. \A k \in Handlers : HasAnswer(k)' <=> HasAnswer(k)
  <2>1. HasAnswer(w) /\ HasAnswer(w)'
    BY <1>1, <1>2, <1>3 DEF HasAnswer
  <2>2. \A k \in Handlers \ {w} : HasAnswer(k)' <=> HasAnswer(k)
    BY <1>1, <1>2, <1>3 DEF HasAnswer
  <2> QED BY <2>1, <2>2
<1>5. \A k \in Handlers : Asked(k)' <=> Asked(k)
  BY <1>2 DEF Asked, Serving
<1>6. \A k \in Handlers : Stage(k)' = Stage(k) /\ Taken(k)' = Taken(k)
  <2>1. \A k \in Handlers : chan'[k].q = chan[k].q
    BY <1>3
  <2> QED BY <1>2, <1>4, <1>5, <2>1 DEF Stage, Taken, Pending
<1> QED BY <1>2, <1>6, Stutters

LEMMA WorkerImplements ==
  ASSUME IInv, StreamInv, WorkerStep
  PROVE  Service!ServiceNext \/ UNCHANGED Service!serviceVars
<1>1. CASE \/ TestRunning \/ BeginProcess \/ Prefill \/ StopAtLimit
           \/ StopAtToken \/ KeepToken \/ Forward \/ FlushNothing \/ ProcessThrows
  BY <1>1, WorkerStutters
<1>2. CASE WaitPop
  BY <1>2, TakeStutters
<1>3. CASE EmitToken \/ FlushTail
  BY <1>3, PushMakes DEF EmitToken, FlushTail, Service!ServiceNext
<1>4. CASE FinishRequest
  <2>1. Finish(reason) \in TokenEvent /\ Terminal(Finish(reason))
    BY DEF Finish, TokenEvent, Terminal, Reasons, IInv, TypeOK, WorkerTypeOK
  <2> QED BY <1>4, <2>1, AnswerGives DEF FinishRequest, Service!ServiceNext
<1>5. CASE ReportError
  <2>1. Err \in TokenEvent /\ Terminal(Err)
    BY DEF Err, TokenEvent, Terminal, Reasons
  <2> QED BY <1>5, <2>1, AnswerGives DEF ReportError, Service!ServiceNext
<1>6. CASE CloseChannel
  BY <1>6, CloseStutters
<1> QED BY <1>1, <1>2, <1>3, <1>4, <1>5, <1>6 DEF WorkerStep

-----------------------------------------------------------------------------
(* The refinement.                                                         *)

LEMMA InitImplements == Init => Service!ServiceInit
<1> SUFFICES ASSUME Init PROVE Service!ServiceInit
  OBVIOUS
<1>1. /\ mutex = NoThread /\ emitted = [h \in Handlers |-> 0]
      /\ queue.q = << >> /\ wpc = "loop"
      /\ \A h \in Handlers : /\ promise[h] = "none" /\ chan[h].q = << >>
                             /\ ~chan[h].closed
  BY DEF Init, NewQueue, NewChannel
<1>2. \A h \in Handlers : ~HasAnswer(h) /\ ~Asked(h)
  BY <1>1 DEF HasAnswer, Asked, Serving
<1>3. \A h \in Handlers : emitted[h] - Pending(h) = 0
  BY <1>1 DEF Pending
<1> QED BY <1>1, <1>2, <1>3 DEF Service!ServiceInit

LEMMA StepImplements ==
  IInv /\ StreamInv /\ [Next]_vars => [Service!ServiceNext]_(Service!serviceVars)
<1> SUFFICES ASSUME IInv, StreamInv, [Next]_vars
             PROVE  Service!ServiceNext \/ UNCHANGED Service!serviceVars
  OBVIOUS
<1>1. CASE Alive /\ MainStep
  <2>1. /\ UNCHANGED <<mutex, chan, promise, wpc, wreq, emitted>>
        /\ queue'.q = queue.q
    BY <1>1 DEF MainStep, Listen, PlatformFails, SocketFails, StopWorker,
       JoinWorker, MainOnly, Shutdown, IInv, TypeOK, SharedTypeOK
  <2>2. \A k \in Handlers : Stage(k)' = Stage(k) /\ Taken(k)' = Taken(k)
    BY <2>1 DEF Stage, HasAnswer, Asked, Serving, Taken, Pending
  <2> QED BY <2>1, <2>2, Stutters
<1>2. CASE Alive /\ WorkerStep
  BY <1>2, WorkerImplements
<1>3. ASSUME NEW h \in Handlers, HandlerStep(h)
      PROVE  Service!ServiceNext \/ UNCHANGED Service!serviceVars
  BY <1>3, HandlerImplements
<1>4. ASSUME NEW h \in Handlers, Accept(h) \/ ClientGone(h) \/ Dies(h)
      PROVE  Service!ServiceNext \/ UNCHANGED Service!serviceVars
  <2>1. UNCHANGED <<mutex, queue, chan, promise, wpc, wreq, emitted>>
    BY <1>4 DEF Accept, ClientGone, Dies, HandlerThrows, BrokenPipe
  <2> QED BY <2>1, Unseen
<1>5. CASE SampleWithoutLogits \/ UNCHANGED vars
  <2>1. UNCHANGED <<mutex, queue, chan, promise, wpc, wreq, emitted>>
    BY <1>5 DEF SampleWithoutLogits, vars
  <2> QED BY <2>1, Unseen
<1> QED BY <1>1, <1>2, <1>3, <1>4, <1>5 DEF Next

\* The server is a serial service: whatever the interleaving of the
\* connection threads, the worker and the main thread, whatever the clients
\* and the sockets do, and even when the process dies in between.
THEOREM ServerImplementsService == Spec => IsSerialService
BY InitImplements, StepImplements, Inductive, StreamInductive, PTL
   DEF Spec, IsSerialService, Service!ServiceSpec

=============================================================================
