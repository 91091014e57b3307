----------------------- MODULE InferenceServerProofs ------------------------
(***************************************************************************)
(* Proofs about InferenceServer, for every set of connections, channel     *)
(* capacity, context length and set of requests.                           *)
(***************************************************************************)
EXTENDS InferenceServer, TLAPS

-----------------------------------------------------------------------------
(* The inductive invariant.  ModelExclusion, OwnKV and HandOver are not    *)
(* inductive: that the worker's request is still waited for depends on no  *)
(* answer having been given, which depends on who may write to a channel   *)
(* or a promise before and after the request was queued.                   *)

\* A handler that has not submitted a request to the worker (yet).
Fresh(h) == hpc[h] \in {"off", "parse", "lock", "body", "submit"}

\* The right to use the model: model_mutex is held exactly from lock_guard's
\* constructor to its destructor.
ScopeInv == \A h \in Handlers : InScope(h) <=> mutex = h

\* A handler is only where its request leads it.
KindInv ==
    \A h \in Handlers :
        /\ hpc[h] \in {"lock", "body", "prefill", "sample", "step", "error"}
              => req[h].kind # "light"
        /\ hpc[h] = "submit" => req[h].kind \in {"stream", "block"}
        /\ hpc[h] \in {"headers", "drain", "chunk", "last"}
              => req[h].kind = "stream"
        /\ hpc[h] = "await" => req[h].kind = "block"

\* The event a handler holds is the one it is about to send.
HeldInv ==
    \A h \in Handlers :
        /\ hpc[h] = "chunk" => held[h].kind = "TOKEN"
        /\ hpc[h] = "last" => Terminal(held[h])

\* At most one request is queued, and it is the mutex owner's.
QueueInv ==
    queue.q # << >> => /\ mutex \in Handlers
                       /\ queue.q = <<mutex>>
                       /\ Waiting(mutex)
                       /\ ~Serving

\* Nothing has been answered before the worker answers.
Silent(ch) == ~ch.closed /\ \A i \in 1 .. Len(ch.q) : ~Terminal(ch.q[i])

Untouched(h) == promise[h] = "none" /\ Silent(chan[h])

NoAnswerYet ==
    /\ \A h \in Handlers : Fresh(h) => Untouched(h)
    /\ queue.q # << >> => Untouched(mutex)
    /\ Serving => Untouched(wreq)

\* The channel the worker closes late is not that of a request to come.
CloseInv ==
    wpc = "close" => /\ wreq \in Handlers
                     /\ ~Fresh(wreq)
                     /\ queue.q # << >> => mutex # wreq

\* What the thread in the model has written so far.
Prefix(h) == seqLen <= MaxSeqLen => \A p \in Positions : p < seqLen => kv[p] = h

ModelInv ==
    /\ wpc = "decode" => Prefix(wreq)
    /\ wpc \in {"emit", "forward"} => Prefix(wreq) /\ seqLen < MaxSeqLen
    /\ \A h \in Handlers :
          /\ hpc[h] = "sample" => Prefix(h)
          /\ hpc[h] = "step" => Prefix(h) /\ seqLen < MaxSeqLen

IInv ==
    /\ TypeOK
    /\ ScopeInv
    /\ KindInv
    /\ HeldInv
    /\ QueueInv
    /\ HandOver
    /\ NoAnswerYet
    /\ CloseInv
    /\ ModelInv

-----------------------------------------------------------------------------
(* Channels and the work queue.                                            *)

LEMMA PushChannel ==
  ASSUME NEW ch \in Channel, NEW ev \in TokenEvent
  PROVE  Push(ch, ev) \in Channel
BY DEF Push, Channel

\* A token keeps a channel silent.
LEMMA PushTokenSilent ==
  ASSUME NEW ch \in Channel, NEW n \in Nat, Silent(ch)
  PROVE  Silent(Push(ch, Token(n)))
<1> DEFINE ev == Token(n)
<1>1. ev.kind = "TOKEN"
  BY DEF Token
<1>2. Push(ch, ev).closed = ch.closed /\ Push(ch, ev).q = Append(ch.q, ev)
  BY DEF Push, Silent, Channel
<1>3. ch.q \in Seq(TokenEvent)
  BY DEF Channel
<1> HIDE DEF ev
<1>4. \A i \in 1 .. Len(Append(ch.q, ev)) :
          \/ i \in 1 .. Len(ch.q) /\ Append(ch.q, ev)[i] = ch.q[i]
          \/ Append(ch.q, ev)[i] = ev
  BY <1>3
<1>5. Silent(Push(ch, ev))
  BY <1>1, <1>2, <1>4 DEF Silent, Terminal
<1> QED BY <1>5 DEF ev

LEMMA PopChannel ==
  ASSUME NEW ch \in Channel, ch.q # << >>
  PROVE  /\ Front(ch) \in TokenEvent
         /\ PopFront(ch) \in Channel
         /\ Silent(ch) => Silent(PopFront(ch)) /\ Front(ch).kind = "TOKEN"
<1>1. ch.q \in Seq(TokenEvent) /\ ch.closed \in BOOLEAN
  BY DEF Channel
<1>2. Head(ch.q) \in TokenEvent /\ Tail(ch.q) \in Seq(TokenEvent)
  BY <1>1
<1>3. PopFront(ch).closed = ch.closed /\ PopFront(ch).q = Tail(ch.q)
  BY DEF PopFront, Channel
<1>4. PopFront(ch) \in Channel
  BY <1>1, <1>2 DEF PopFront, Channel
<1>5. ASSUME Silent(ch)
      PROVE  Silent(PopFront(ch)) /\ Front(ch).kind = "TOKEN"
  <2>1. Len(ch.q) >= 1 /\ Head(ch.q) = ch.q[1]
    BY <1>1
  <2>2. \A i \in 1 .. Len(Tail(ch.q)) :
           i + 1 \in 1 .. Len(ch.q) /\ Tail(ch.q)[i] = ch.q[i + 1]
    BY <1>1
  <2> QED BY <1>3, <1>5, <2>1, <2>2 DEF Silent, Terminal, Front
<1> QED BY <1>2, <1>4, <1>5 DEF Front

LEMMA CloseKeepsChannel ==
  ASSUME NEW ch \in Channel
  PROVE  Close(ch) \in Channel
BY DEF Close, Channel

-----------------------------------------------------------------------------
(* Steps that only move one thread.                                        *)

\* Bookkeeping definitions are expanded everywhere below.
USE DEF handlerVars, sharedVars, modelVars, workerVars, mainVars, historyVars

NonTypeInv ==
    ScopeInv /\ KindInv /\ HeldInv /\ QueueInv /\ HandOver /\ NoAnswerYet
    /\ CloseInv /\ ModelInv

\* A handler that goes from one place to another without touching anything
\* the other threads look at: the places must agree on who holds the mutex,
\* on the request, and a handler may stop waiting only once it is answered.
LEMMA HandlerMoves ==
  ASSUME IInv, NEW h \in Handlers, NEW to \in HandlerPC,
         hpc' = [hpc EXCEPT ![h] = to],
         UNCHANGED <<req, held, mutex, queue, chan, promise, wpc, wreq, kv,
                     seqLen>>,
         to \notin {"chunk", "last"},
         InScope(h)' <=> InScope(h),
         to \in {"lock", "body", "prefill", "sample", "step", "error"}
             => req[h].kind # "light",
         to = "submit" => req[h].kind \in {"stream", "block"},
         to \in {"headers", "drain"} => req[h].kind = "stream",
         to = "await" => req[h].kind = "block",
         Waiting(h) => \/ to \in {"drain", "await"}
                       \/ promise[h] # "none",
         to \in {"off", "parse", "lock", "body", "submit"} => Fresh(h),
         to = "sample" => Prefix(h),
         to = "step" => Prefix(h) /\ seqLen < MaxSeqLen
  PROVE  NonTypeInv'
<1> USE DEF IInv, TypeOK, HandlerTypeOK
<1>0. /\ hpc'[h] = to
      /\ \A k \in Handlers : k # h => hpc'[k] = hpc[k]
  OBVIOUS
<1>1. ScopeInv'
  BY <1>0 DEF ScopeInv, InScope
<1>2. KindInv' /\ HeldInv'
  BY <1>0 DEF KindInv, HeldInv
<1>3. QueueInv'
  BY <1>0 DEF QueueInv, NoAnswerYet, Untouched, Waiting, Serving
<1>4. HandOver'
  BY <1>0 DEF HandOver, NoAnswerYet, Untouched, Waiting, Serving
<1>5. NoAnswerYet'
  BY <1>0 DEF NoAnswerYet, Untouched, Silent, Fresh, Serving
<1>6. CloseInv'
  BY <1>0 DEF CloseInv, Fresh
<1>7. ModelInv'
  BY <1>0 DEF ModelInv, Prefix
<1> QED BY <1>1, <1>2, <1>3, <1>4, <1>5, <1>6, <1>7 DEF NonTypeInv

\* The same for the worker: it may stop serving only by answering, which
\* these steps do not do.
LEMMA WorkerMoves ==
  ASSUME IInv, Serving, Serving', wpc' \in WorkerPC,
         UNCHANGED <<hpc, req, held, mutex, queue, chan, promise, wreq, kv,
                     seqLen>>,
         wpc' = "decode" => Prefix(wreq),
         wpc' \in {"emit", "forward"} => Prefix(wreq) /\ seqLen < MaxSeqLen
  PROVE  NonTypeInv'
<1> USE DEF IInv
<1>1. ScopeInv' /\ KindInv' /\ HeldInv'
  BY DEF ScopeInv, InScope, KindInv, HeldInv
<1>2. QueueInv' /\ HandOver'
  BY DEF QueueInv, HandOver, Waiting
<1>3. NoAnswerYet'
  BY DEF NoAnswerYet, Untouched, Silent, Fresh
<1>4. CloseInv'
  BY DEF CloseInv, Serving
<1>5. ModelInv'
  BY DEF ModelInv, Prefix
<1> QED BY <1>1, <1>2, <1>3, <1>4, <1>5 DEF NonTypeInv

-----------------------------------------------------------------------------
(* The actions of a connection thread.                                     *)

LEMMA DeliverTyped ==
  ASSUME out \in [Handlers -> Seq(Delivered)], NEW h \in Handlers,
         NEW items \in Seq(Delivered), Deliver(h, items)
  PROVE  out' \in [Handlers -> Seq(Delivered)]
<1>1. out[h] \o items \in Seq(Delivered)
  OBVIOUS
<1> QED BY <1>1 DEF Deliver

LEMMA RouteStep ==
  ASSUME IInv, NEW h \in Handlers, Route(h), UNCHANGED crashed
  PROVE  IInv'
<1> DEFINE to == IF req[h].kind = "light" THEN "reply" ELSE "lock"
<1>1. /\ hpc[h] = "parse" /\ to \in {"reply", "lock"}
      /\ to = "reply" <=> req[h].kind = "light"
      /\ hpc' = [hpc EXCEPT ![h] = to]
      /\ UNCHANGED <<req, held, mutex, queue, chan, promise, wpc, wreq, kv,
                     seqLen>>
  BY DEF Route, Goto
<1> HIDE DEF to
<1>2. TypeOK'
  BY <1>1 DEF IInv, TypeOK, HandlerTypeOK, SharedTypeOK, WorkerTypeOK, Route,
     HandlerPC
<1>3. to \in HandlerPC /\ hpc'[h] = to
  BY <1>1 DEF HandlerPC, IInv, TypeOK, HandlerTypeOK
<1>4. InScope(h)' <=> InScope(h)
  BY <1>1, <1>3 DEF InScope
<1>5. NonTypeInv'
  BY <1>1, <1>3, <1>4, HandlerMoves DEF Waiting, Fresh
<1> QED BY <1>2, <1>5 DEF NonTypeInv, IInv

LEMMA SendChunkStep ==
  ASSUME IInv, NEW h \in Handlers, SendChunk(h), UNCHANGED crashed
  PROVE  IInv'
<1>1. /\ hpc[h] = "chunk" /\ "drain" \in HandlerPC
      /\ hpc' = [hpc EXCEPT ![h] = "drain"]
      /\ UNCHANGED <<req, held, mutex, queue, chan, promise, wpc, wreq, kv,
                     seqLen>>
  BY DEF SendChunk, Goto, HandlerPC
<1>2. TypeOK'
  <2>1. held[h].n \in Nat
    <3>1. held[h] \in TokenEvent
      BY DEF IInv, TypeOK, HandlerTypeOK
    <3>2. held[h].kind = "TOKEN"
      BY <1>1 DEF IInv, HeldInv, Terminal
    <3> QED BY <3>1, <3>2 DEF TokenEvent
  <2> DEFINE items == <<Item("chunk", held[h].n)>>
  <2>2. items \in Seq(Delivered)
    BY <2>1 DEF Item, Delivered
  <2>3. Deliver(h, items)
    BY DEF SendChunk
  <2> HIDE DEF items
  <2>4. out' \in [Handlers -> Seq(Delivered)]
    BY <2>2, <2>3, DeliverTyped DEF IInv, TypeOK, HandlerTypeOK
  <2> QED BY <1>1, <2>4 DEF IInv, TypeOK, HandlerTypeOK, SharedTypeOK,
             WorkerTypeOK, SendChunk
<1>3. /\ hpc[h] = "chunk" /\ req[h].kind = "stream"
      /\ hpc'[h] = "drain"
  BY <1>1 DEF SendChunk, IInv, TypeOK, HandlerTypeOK, KindInv
<1>4. InScope(h)' <=> InScope(h)
  BY <1>1, <1>3 DEF InScope
<1>5. NonTypeInv'
  BY <1>1, <1>3, <1>4, HandlerMoves
<1> QED BY <1>2, <1>5 DEF NonTypeInv, IInv

LEMMA SendLastStep ==
  ASSUME IInv, NEW h \in Handlers, SendLast(h), UNCHANGED crashed
  PROVE  IInv'
<1>1. /\ hpc[h] = "last" /\ "unlock" \in HandlerPC
      /\ hpc' = [hpc EXCEPT ![h] = "unlock"]
      /\ UNCHANGED <<req, held, mutex, queue, chan, promise, wpc, wreq, kv,
                     seqLen>>
  BY DEF SendLast, Goto, HandlerPC
<1>2. TypeOK'
  <2>1. held[h].reason \in Reasons
    <3>1. held[h] \in TokenEvent
      BY DEF IInv, TypeOK, HandlerTypeOK
    <3>2. held[h].kind # "TOKEN"
      BY <1>1 DEF IInv, HeldInv, Terminal
    <3> QED BY <3>1, <3>2 DEF TokenEvent
  <2> DEFINE items == <<Item(held[h].reason, 0), Item("DONE", 0)>>
  <2>2. items \in Seq(Delivered)
    BY <2>1 DEF Item, Delivered
  <2>3. Deliver(h, items)
    BY DEF SendLast
  <2> HIDE DEF items
  <2>4. out' \in [Handlers -> Seq(Delivered)]
    BY <2>2, <2>3, DeliverTyped DEF IInv, TypeOK, HandlerTypeOK
  <2> QED BY <1>1, <2>4 DEF IInv, TypeOK, HandlerTypeOK, SharedTypeOK,
             WorkerTypeOK, SendLast
<1>3. /\ hpc[h] = "last" /\ req[h].kind = "stream"
      /\ hpc'[h] = "unlock"
  BY <1>1 DEF SendLast, IInv, TypeOK, HandlerTypeOK, KindInv
<1>4. /\ InScope(h)' <=> InScope(h)
      /\ ~Waiting(h)
  BY <1>1, <1>3 DEF InScope, Waiting
<1>5. NonTypeInv'
  BY <1>1, <1>3, <1>4, HandlerMoves
<1> QED BY <1>2, <1>5 DEF NonTypeInv, IInv

LEMMA BadHttpStep ==
  ASSUME IInv, NEW h \in Handlers, BadHttp(h), UNCHANGED crashed
  PROVE  IInv'
<1> DEFINE to == "close"
<1>1. /\ to \in HandlerPC
      /\ hpc' = [hpc EXCEPT ![h] = to]
      /\ UNCHANGED <<req, held, mutex, queue, chan, promise, wpc, wreq, kv,
                     seqLen>>
  BY DEF BadHttp, Goto, HandlerPC
<1>2. TypeOK'
  BY <1>1 DEF IInv, TypeOK, HandlerTypeOK, SharedTypeOK, WorkerTypeOK, BadHttp,
     Deliver, Item, Delivered, TokenEvent, Reasons, HeldInv, Terminal
<1>3. /\ hpc[h] = "parse"
      /\ hpc'[h] = to
  BY <1>1 DEF BadHttp, IInv, TypeOK, HandlerTypeOK, KindInv
<1>4. /\ InScope(h)' <=> InScope(h)
      /\ Waiting(h) => to \in {"drain", "await"} \/ promise[h] # "none"
      /\ to \in {"off", "parse", "lock", "body", "submit"} => Fresh(h)
  BY <1>1, <1>3 DEF InScope, Waiting, Fresh
<1>5. NonTypeInv'
  BY <1>1, <1>3, <1>4, HandlerMoves
<1> QED BY <1>2, <1>5 DEF NonTypeInv, IInv

LEMMA RejectBodyStep ==
  ASSUME IInv, NEW h \in Handlers, RejectBody(h), UNCHANGED crashed
  PROVE  IInv'
<1> DEFINE to == "error"
<1>1. /\ to \in HandlerPC
      /\ hpc' = [hpc EXCEPT ![h] = to]
      /\ UNCHANGED <<req, held, mutex, queue, chan, promise, wpc, wreq, kv,
                     seqLen>>
  BY DEF RejectBody, Goto, HandlerPC
<1>2. TypeOK'
  BY <1>1 DEF IInv, TypeOK, HandlerTypeOK, SharedTypeOK, WorkerTypeOK, RejectBody,
     Deliver, Item, Delivered, TokenEvent, Reasons, HeldInv, Terminal
<1>3. /\ hpc[h] = "body" /\ req[h].kind # "light"
      /\ hpc'[h] = to
  BY <1>1 DEF RejectBody, IInv, TypeOK, HandlerTypeOK, KindInv
<1>4. /\ InScope(h)' <=> InScope(h)
      /\ Waiting(h) => to \in {"drain", "await"} \/ promise[h] # "none"
      /\ to \in {"off", "parse", "lock", "body", "submit"} => Fresh(h)
  BY <1>1, <1>3 DEF InScope, Waiting, Fresh
<1>5. NonTypeInv'
  BY <1>1, <1>3, <1>4, HandlerMoves
<1> QED BY <1>2, <1>5 DEF NonTypeInv, IInv

LEMMA AcceptBodyStep ==
  ASSUME IInv, NEW h \in Handlers, AcceptBody(h), UNCHANGED crashed
  PROVE  IInv'
<1> DEFINE to == "submit"
<1>1. /\ to \in HandlerPC
      /\ hpc' = [hpc EXCEPT ![h] = to]
      /\ UNCHANGED <<req, held, mutex, queue, chan, promise, wpc, wreq, kv,
                     seqLen>>
  BY DEF AcceptBody, Goto, HandlerPC
<1>2. TypeOK'
  BY <1>1 DEF IInv, TypeOK, HandlerTypeOK, SharedTypeOK, WorkerTypeOK, AcceptBody,
     Deliver, Item, Delivered, TokenEvent, Reasons, HeldInv, Terminal
<1>3. /\ hpc[h] = "body" /\ req[h].kind \in {"stream", "block"}
      /\ hpc'[h] = to
  BY <1>1 DEF AcceptBody, IInv, TypeOK, HandlerTypeOK, KindInv
<1>4. /\ InScope(h)' <=> InScope(h)
      /\ Waiting(h) => to \in {"drain", "await"} \/ promise[h] # "none"
      /\ to \in {"off", "parse", "lock", "body", "submit"} => Fresh(h)
  BY <1>1, <1>3 DEF InScope, Waiting, Fresh
<1>5. NonTypeInv'
  BY <1>1, <1>3, <1>4, HandlerMoves
<1> QED BY <1>2, <1>5 DEF NonTypeInv, IInv

LEMMA LeaveModelStep ==
  ASSUME IInv, NEW h \in Handlers, LeaveModel(h), UNCHANGED crashed
  PROVE  IInv'
<1> DEFINE to == "reply"
<1>1. /\ to \in HandlerPC
      /\ hpc' = [hpc EXCEPT ![h] = to]
      /\ UNCHANGED <<req, held, mutex, queue, chan, promise, wpc, wreq, kv,
                     seqLen>>
  BY DEF LeaveModel, Goto, HandlerPC
<1>2. TypeOK'
  BY <1>1 DEF IInv, TypeOK, HandlerTypeOK, SharedTypeOK, WorkerTypeOK, LeaveModel,
     Deliver, Item, Delivered, TokenEvent, Reasons, HeldInv, Terminal
<1>3. /\ hpc[h] = "sample" /\ req[h].kind # "light"
      /\ hpc'[h] = to
  BY <1>1 DEF LeaveModel, IInv, TypeOK, HandlerTypeOK, KindInv
<1>4. /\ InScope(h)' <=> InScope(h)
      /\ Waiting(h) => to \in {"drain", "await"} \/ promise[h] # "none"
      /\ to \in {"off", "parse", "lock", "body", "submit"} => Fresh(h)
  BY <1>1, <1>3 DEF InScope, Waiting, Fresh
<1>5. NonTypeInv'
  BY <1>1, <1>3, <1>4, HandlerMoves
<1> QED BY <1>2, <1>5 DEF NonTypeInv, IInv

LEMMA SampleTokenStep ==
  ASSUME IInv, NEW h \in Handlers, SampleToken(h), UNCHANGED crashed
  PROVE  IInv'
<1> DEFINE to == "step"
<1>1. /\ to \in HandlerPC
      /\ hpc' = [hpc EXCEPT ![h] = to]
      /\ UNCHANGED <<req, held, mutex, queue, chan, promise, wpc, wreq, kv,
                     seqLen>>
  BY DEF SampleToken, Goto, HandlerPC
<1>2. TypeOK'
  BY <1>1 DEF IInv, TypeOK, HandlerTypeOK, SharedTypeOK, WorkerTypeOK, SampleToken,
     Deliver, Item, Delivered, TokenEvent, Reasons, HeldInv, Terminal
<1>3. /\ hpc[h] = "sample" /\ req[h].kind # "light"
      /\ Prefix(h) /\ seqLen < MaxSeqLen
      /\ hpc'[h] = to
  BY <1>1 DEF SampleToken, IInv, TypeOK, HandlerTypeOK, KindInv, ModelInv
<1>4. /\ InScope(h)' <=> InScope(h)
      /\ Waiting(h) => to \in {"drain", "await"} \/ promise[h] # "none"
      /\ to \in {"off", "parse", "lock", "body", "submit"} => Fresh(h)
  BY <1>1, <1>3 DEF InScope, Waiting, Fresh
<1>5. NonTypeInv'
  BY <1>1, <1>3, <1>4, HandlerMoves
<1> QED BY <1>2, <1>5 DEF NonTypeInv, IInv

LEMMA ReplyStep ==
  ASSUME IInv, NEW h \in Handlers, Reply(h), UNCHANGED crashed
  PROVE  IInv'
<1> DEFINE to == (IF req[h].kind = "light" THEN "close" ELSE "unlock")
<1>1. /\ to \in HandlerPC
      /\ hpc' = [hpc EXCEPT ![h] = to]
      /\ UNCHANGED <<req, held, mutex, queue, chan, promise, wpc, wreq, kv,
                     seqLen>>
  BY DEF Reply, Goto, HandlerPC
<1>2. TypeOK'
  <2> DEFINE items == <<Item(hpc[h], 0)>>
  <2>1. items \in Seq(Delivered)
    BY DEF Reply, Item, Delivered
  <2>2. Deliver(h, items)
    BY DEF Reply
  <2> HIDE DEF items
  <2>3. out' \in [Handlers -> Seq(Delivered)]
    BY <2>1, <2>2, DeliverTyped DEF IInv, TypeOK, HandlerTypeOK
  <2> QED BY <1>1, <2>3 DEF IInv, TypeOK, HandlerTypeOK, SharedTypeOK,
             WorkerTypeOK, Reply
<1>3. /\ to \in {"close", "unlock"}
      /\ hpc'[h] = to
      /\ hpc[h] \in {"reply", "error"}
      /\ hpc[h] = "error" => req[h].kind # "light"
  BY <1>1 DEF Reply, IInv, TypeOK, HandlerTypeOK, KindInv
<1>4. InScope(h)' <=> InScope(h)
  BY <1>1, <1>3 DEF InScope
<1>5. ~Waiting(h)
  BY <1>3 DEF Waiting
<1> HIDE DEF to
<1>6. NonTypeInv'
  BY <1>1, <1>3, <1>4, <1>5, HandlerMoves
<1> QED BY <1>2, <1>6 DEF NonTypeInv, IInv

LEMMA SendHeadersStep ==
  ASSUME IInv, NEW h \in Handlers, SendHeaders(h), UNCHANGED crashed
  PROVE  IInv'
<1> DEFINE to == "drain"
<1>1. /\ to \in HandlerPC
      /\ hpc' = [hpc EXCEPT ![h] = to]
      /\ UNCHANGED <<req, held, mutex, queue, chan, promise, wpc, wreq, kv,
                     seqLen>>
  BY DEF SendHeaders, Goto, HandlerPC
<1>2. TypeOK'
  <2> DEFINE items == <<Item("headers", 0), Item("role", 0)>>
  <2>1. items \in Seq(Delivered)
    BY DEF SendHeaders, Item, Delivered
  <2>2. Deliver(h, items)
    BY DEF SendHeaders
  <2> HIDE DEF items
  <2>3. out' \in [Handlers -> Seq(Delivered)]
    BY <2>1, <2>2, DeliverTyped DEF IInv, TypeOK, HandlerTypeOK
  <2> QED BY <1>1, <2>3 DEF IInv, TypeOK, HandlerTypeOK, SharedTypeOK,
             WorkerTypeOK, SendHeaders
<1>3. /\ hpc[h] = "headers" /\ req[h].kind = "stream"
      /\ hpc'[h] = to
  BY <1>1 DEF SendHeaders, IInv, TypeOK, HandlerTypeOK, KindInv
<1>4. /\ InScope(h)' <=> InScope(h)
      /\ Waiting(h) => to \in {"drain", "await"} \/ promise[h] # "none"
      /\ to \in {"off", "parse", "lock", "body", "submit"} => Fresh(h)
  BY <1>1, <1>3 DEF InScope, Waiting, Fresh
<1>5. NonTypeInv'
  BY <1>1, <1>3, <1>4, HandlerMoves
<1> QED BY <1>2, <1>5 DEF NonTypeInv, IInv

LEMMA ChunkFailsStep ==
  ASSUME IInv, NEW h \in Handlers, ChunkFails(h), UNCHANGED crashed
  PROVE  IInv'
<1> DEFINE to == "drain"
<1>1. /\ to \in HandlerPC
      /\ hpc' = [hpc EXCEPT ![h] = to]
      /\ UNCHANGED <<req, held, mutex, queue, chan, promise, wpc, wreq, kv,
                     seqLen>>
  BY DEF ChunkFails, Goto, HandlerPC
<1>2. TypeOK'
  BY <1>1 DEF IInv, TypeOK, HandlerTypeOK, SharedTypeOK, WorkerTypeOK, ChunkFails,
     Deliver, Item, Delivered, TokenEvent, Reasons, HeldInv, Terminal
<1>3. /\ hpc[h] = "chunk" /\ req[h].kind = "stream"
      /\ hpc'[h] = to
  BY <1>1 DEF ChunkFails, IInv, TypeOK, HandlerTypeOK, KindInv
<1>4. /\ InScope(h)' <=> InScope(h)
      /\ Waiting(h) => to \in {"drain", "await"} \/ promise[h] # "none"
      /\ to \in {"off", "parse", "lock", "body", "submit"} => Fresh(h)
  BY <1>1, <1>3 DEF InScope, Waiting, Fresh
<1>5. NonTypeInv'
  BY <1>1, <1>3, <1>4, HandlerMoves
<1> QED BY <1>2, <1>5 DEF NonTypeInv, IInv

LEMMA AwaitResultStep ==
  ASSUME IInv, NEW h \in Handlers, AwaitResult(h), UNCHANGED crashed
  PROVE  IInv'
<1> DEFINE to == "reply"
<1>1. /\ to \in HandlerPC
      /\ hpc' = [hpc EXCEPT ![h] = to]
      /\ UNCHANGED <<req, held, mutex, queue, chan, promise, wpc, wreq, kv,
                     seqLen>>
  BY DEF AwaitResult, Goto, HandlerPC
<1>2. TypeOK'
  BY <1>1 DEF IInv, TypeOK, HandlerTypeOK, SharedTypeOK, WorkerTypeOK, AwaitResult,
     Deliver, Item, Delivered, TokenEvent, Reasons, HeldInv, Terminal
<1>3. /\ hpc[h] = "await" /\ req[h].kind = "block" /\ promise[h] # "none"
      /\ hpc'[h] = to
  BY <1>1 DEF AwaitResult, IInv, TypeOK, HandlerTypeOK, KindInv
<1>4. /\ InScope(h)' <=> InScope(h)
      /\ Waiting(h) => to \in {"drain", "await"} \/ promise[h] # "none"
      /\ to \in {"off", "parse", "lock", "body", "submit"} => Fresh(h)
  BY <1>1, <1>3 DEF InScope, Waiting, Fresh
<1>5. NonTypeInv'
  BY <1>1, <1>3, <1>4, HandlerMoves
<1> QED BY <1>2, <1>5 DEF NonTypeInv, IInv

LEMMA CloseSocketStep ==
  ASSUME IInv, NEW h \in Handlers, CloseSocket(h), UNCHANGED crashed
  PROVE  IInv'
<1> DEFINE to == "done"
<1>1. /\ to \in HandlerPC
      /\ hpc' = [hpc EXCEPT ![h] = to]
      /\ UNCHANGED <<req, held, mutex, queue, chan, promise, wpc, wreq, kv,
                     seqLen>>
  BY DEF CloseSocket, Goto, HandlerPC
<1>2. TypeOK'
  BY <1>1 DEF IInv, TypeOK, HandlerTypeOK, SharedTypeOK, WorkerTypeOK, CloseSocket,
     Deliver, Item, Delivered, TokenEvent, Reasons, HeldInv, Terminal
<1>3. /\ hpc[h] = "close"
      /\ hpc'[h] = to
  BY <1>1 DEF CloseSocket, IInv, TypeOK, HandlerTypeOK, KindInv
<1>4. /\ InScope(h)' <=> InScope(h)
      /\ Waiting(h) => to \in {"drain", "await"} \/ promise[h] # "none"
      /\ to \in {"off", "parse", "lock", "body", "submit"} => Fresh(h)
  BY <1>1, <1>3 DEF InScope, Waiting, Fresh
<1>5. NonTypeInv'
  BY <1>1, <1>3, <1>4, HandlerMoves
<1> QED BY <1>2, <1>5 DEF NonTypeInv, IInv

LEMMA AcceptStep ==
  ASSUME IInv, NEW h \in Handlers, Accept(h), UNCHANGED crashed
  PROVE  IInv'
<1> USE DEF IInv, TypeOK, HandlerTypeOK
<1>1. /\ hpc[h] = "off" /\ hpc'[h] = "parse"
      /\ \A k \in Handlers : k # h => hpc'[k] = hpc[k] /\ req'[k] = req[k]
  BY DEF Accept, Goto
<1>2. TypeOK'
  BY <1>1 DEF SharedTypeOK, WorkerTypeOK, Accept, Goto, HandlerPC
<1>3. ScopeInv' /\ KindInv' /\ HeldInv'
  BY <1>1 DEF Accept, ScopeInv, InScope, KindInv, HeldInv
<1>4. QueueInv' /\ HandOver'
  BY <1>1 DEF Accept, QueueInv, HandOver, Waiting, Serving
<1>5. NoAnswerYet'
  BY <1>1 DEF Accept, NoAnswerYet, Untouched, Silent, Fresh, Serving
<1>6. CloseInv'
  BY <1>1 DEF Accept, CloseInv, Fresh
<1>7. ModelInv'
  BY <1>1 DEF Accept, ModelInv, Prefix
<1> QED BY <1>2, <1>3, <1>4, <1>5, <1>6, <1>7

LEMMA LockStep ==
  ASSUME IInv, NEW h \in Handlers, Lock(h), UNCHANGED crashed
  PROVE  IInv'
<1> USE StateAssumption DEF IInv, TypeOK, HandlerTypeOK
<1>1. /\ hpc[h] = "lock" /\ hpc'[h] = "body" /\ mutex = NoThread /\ mutex' = h
      /\ \A k \in Handlers : k # h => hpc'[k] = hpc[k]
  BY DEF Lock, Goto
<1>2. TypeOK'
  BY <1>1 DEF SharedTypeOK, WorkerTypeOK, Lock, Goto, HandlerPC
<1>3. ScopeInv' /\ KindInv' /\ HeldInv'
  BY <1>1 DEF Lock, ScopeInv, InScope, KindInv, HeldInv
<1>4. ~Serving /\ queue.q = << >>
  BY <1>1 DEF QueueInv, HandOver
<1>5. QueueInv' /\ HandOver' /\ CloseInv'
  BY <1>1, <1>4 DEF Lock, QueueInv, HandOver, CloseInv, Fresh, Serving
<1>6. NoAnswerYet'
  BY <1>1, <1>4 DEF Lock, NoAnswerYet, Untouched, Silent, Fresh, Serving
<1>7. ModelInv'
  BY <1>1 DEF Lock, ModelInv, Prefix
<1> QED BY <1>2, <1>3, <1>5, <1>6, <1>7

LEMMA UnlockStep ==
  ASSUME IInv, NEW h \in Handlers, Unlock(h), UNCHANGED crashed
  PROVE  IInv'
<1> USE StateAssumption DEF IInv, TypeOK, HandlerTypeOK
<1>1. /\ hpc[h] = "unlock" /\ hpc'[h] = "close" /\ mutex' = NoThread
      /\ \A k \in Handlers : k # h => hpc'[k] = hpc[k]
  BY DEF Unlock, Goto
<1>2. TypeOK'
  BY <1>1 DEF SharedTypeOK, WorkerTypeOK, Unlock, Goto, HandlerPC
<1>3. mutex = h
  BY <1>1 DEF ScopeInv, InScope
<1>4. ScopeInv' /\ KindInv' /\ HeldInv'
  BY <1>1, <1>3 DEF Unlock, ScopeInv, InScope, KindInv, HeldInv
<1>5. ~Serving /\ queue.q = << >>
  BY <1>1, <1>3 DEF QueueInv, HandOver, Waiting
<1>6. QueueInv' /\ HandOver' /\ CloseInv'
  BY <1>1, <1>5 DEF Unlock, QueueInv, HandOver, CloseInv, Fresh, Serving
<1>7. NoAnswerYet'
  BY <1>1, <1>5 DEF Unlock, NoAnswerYet, Untouched, Silent, Fresh, Serving
<1>8. ModelInv'
  BY <1>1 DEF Unlock, ModelInv, Prefix
<1> QED BY <1>2, <1>4, <1>6, <1>7, <1>8

\* Only the owner of the mutex is in the model, and then the worker is not.
LEMMA OwnerInModel ==
  ASSUME IInv, NEW h \in Handlers,
         hpc[h] \in {"body", "prefill", "sample", "step"}
  PROVE  /\ ~Serving
         /\ \A k \in Handlers : k # h => ~DirectInModel(k)
<1>1. mutex = h
  BY DEF IInv, ScopeInv, InScope
<1>2. ~Waiting(h)
  BY DEF Waiting
<1> QED BY <1>1, <1>2 DEF IInv, ScopeInv, InScope, HandOver, DirectInModel

LEMMA EnterModelStep ==
  ASSUME IInv, NEW h \in Handlers, EnterModel(h), UNCHANGED crashed
  PROVE  IInv'
<1> USE StateAssumption DEF IInv, TypeOK, HandlerTypeOK
<1> DEFINE to == IF req[h].plen = 0 THEN "reply" ELSE "prefill"
<1>1. /\ hpc[h] = "body" /\ req[h].kind = "direct"
      /\ hpc'[h] = to /\ to \in {"reply", "prefill"} /\ seqLen' = 0 /\ steps' = 0
      /\ \A k \in Handlers : k # h => hpc'[k] = hpc[k]
      /\ UNCHANGED <<req, held, mutex, queue, chan, promise, wpc, wreq, kv>>
  BY DEF EnterModel, Goto, ClearKV
<1>a. hpc' = [hpc EXCEPT ![h] = to]
  BY DEF EnterModel, Goto
<1> HIDE DEF to
<1>2. TypeOK'
  <2>1. hpc' \in [Handlers -> HandlerPC]
    BY <1>1, <1>a DEF HandlerPC
  <2>2. HandlerTypeOK' /\ SharedTypeOK'
    BY <1>1, <2>1 DEF SharedTypeOK, EnterModel
  <2>3. WorkerTypeOK'
    BY <1>1 DEF WorkerTypeOK, EnterModel
  <2> QED BY <2>2, <2>3 DEF EnterModel
<1>3. ScopeInv' /\ KindInv' /\ HeldInv'
  BY <1>1 DEF ScopeInv, InScope, KindInv, HeldInv
<1>4. ~Serving /\ \A k \in Handlers : k # h => ~DirectInModel(k)
  BY <1>1, OwnerInModel
<1>5. QueueInv' /\ HandOver' /\ CloseInv'
  BY <1>1, <1>4 DEF QueueInv, HandOver, CloseInv, Fresh, Serving, Waiting
<1>6. NoAnswerYet'
  BY <1>1, <1>4 DEF NoAnswerYet, Untouched, Silent, Fresh, Serving
<1>7. ModelInv'
  BY <1>1, <1>4 DEF ModelInv, Serving, DirectInModel
<1> QED BY <1>2, <1>3, <1>5, <1>6, <1>7

\* What a prompt pass and a forward pass leave in the cache.
LEMMA PrefillPrefix ==
  ASSUME WorkerTypeOK, NEW h \in Handlers, req[h].plen \in Nat, PrefillKV(h)
  PROVE  /\ kv' \in [Positions -> Handlers \cup {NoThread}] /\ seqLen' \in Nat
         /\ seqLen' <= MaxSeqLen => \A p \in Positions : p < seqLen' => kv'[p] = h
BY StateAssumption DEF WorkerTypeOK, PrefillKV, Positions

LEMMA ForwardPrefix ==
  ASSUME WorkerTypeOK, NEW h \in Handlers, ForwardKV(h), Prefix(h),
         seqLen < MaxSeqLen
  PROVE  /\ kv' \in [Positions -> Handlers \cup {NoThread}] /\ seqLen' \in Nat
         /\ \A p \in Positions : p < seqLen' => kv'[p] = h
BY StateAssumption DEF WorkerTypeOK, ForwardKV, Positions, Prefix

LEMMA RequestLengths ==
  ASSUME IInv, NEW h \in Handlers
  PROVE  req[h].plen \in Nat
BY StateAssumption DEF IInv, TypeOK, HandlerTypeOK

LEMMA RunPromptStep ==
  ASSUME IInv, NEW h \in Handlers, RunPrompt(h), UNCHANGED crashed
  PROVE  IInv'
<1> USE DEF IInv, TypeOK, HandlerTypeOK
<1>1. /\ hpc[h] = "prefill" /\ hpc'[h] = "sample" /\ PrefillKV(h)
      /\ \A k \in Handlers : k # h => hpc'[k] = hpc[k]
      /\ UNCHANGED <<req, held, mutex, queue, chan, promise, wpc, wreq>>
  BY DEF RunPrompt, Goto
<1>2. /\ kv' \in [Positions -> Handlers \cup {NoThread}] /\ seqLen' \in Nat
      /\ seqLen' <= MaxSeqLen => \A p \in Positions : p < seqLen' => kv'[p] = h
  BY <1>1, PrefillPrefix, RequestLengths
<1>3. TypeOK'
  BY <1>1, <1>2 DEF SharedTypeOK, WorkerTypeOK, RunPrompt, Goto, HandlerPC
<1>4. ScopeInv' /\ KindInv' /\ HeldInv'
  BY <1>1 DEF ScopeInv, InScope, KindInv, HeldInv
<1>5. ~Serving /\ \A k \in Handlers : k # h => ~DirectInModel(k)
  BY <1>1, OwnerInModel
<1>6. QueueInv' /\ HandOver' /\ CloseInv'
  BY <1>1, <1>5 DEF QueueInv, HandOver, CloseInv, Fresh, Serving, Waiting
<1>7. NoAnswerYet'
  BY <1>1, <1>5 DEF NoAnswerYet, Untouched, Silent, Fresh, Serving
<1>8. ModelInv'
  BY <1>1, <1>2, <1>5 DEF ModelInv, Prefix, Serving, DirectInModel
<1> QED BY <1>3, <1>4, <1>6, <1>7, <1>8

LEMMA ForwardTokenStep ==
  ASSUME IInv, NEW h \in Handlers, ForwardToken(h), UNCHANGED crashed
  PROVE  IInv'
<1> USE DEF IInv, TypeOK, HandlerTypeOK
<1>1. /\ hpc[h] = "step" /\ hpc'[h] = "sample" /\ ForwardKV(h)
      /\ \A k \in Handlers : k # h => hpc'[k] = hpc[k]
      /\ UNCHANGED <<req, held, mutex, queue, chan, promise, wpc, wreq>>
  BY DEF ForwardToken, Goto
<1>2. /\ kv' \in [Positions -> Handlers \cup {NoThread}] /\ seqLen' \in Nat
      /\ \A p \in Positions : p < seqLen' => kv'[p] = h
  BY <1>1, ForwardPrefix DEF ModelInv
<1>3. TypeOK'
  BY <1>1, <1>2 DEF SharedTypeOK, WorkerTypeOK, ForwardToken, Goto, HandlerPC
<1>4. ScopeInv' /\ KindInv' /\ HeldInv'
  BY <1>1 DEF ScopeInv, InScope, KindInv, HeldInv
<1>5. ~Serving /\ \A k \in Handlers : k # h => ~DirectInModel(k)
  BY <1>1, OwnerInModel
<1>6. QueueInv' /\ HandOver' /\ CloseInv'
  BY <1>1, <1>5 DEF QueueInv, HandOver, CloseInv, Fresh, Serving, Waiting
<1>7. NoAnswerYet'
  BY <1>1, <1>5 DEF NoAnswerYet, Untouched, Silent, Fresh, Serving
<1>8. ModelInv'
  BY <1>1, <1>2, <1>5 DEF ModelInv, Prefix, Serving, DirectInModel
<1> QED BY <1>3, <1>4, <1>6, <1>7, <1>8

LEMMA SubmitRequestStep ==
  ASSUME IInv, NEW h \in Handlers, SubmitRequest(h), UNCHANGED crashed
  PROVE  IInv'
<1> USE DEF IInv, TypeOK, HandlerTypeOK
<1> DEFINE to == IF req[h].kind = "stream" THEN "headers" ELSE "await"
<1>1. /\ hpc[h] = "submit" /\ hpc'[h] = to /\ to \in {"headers", "await"}
      /\ \A k \in Handlers : k # h => hpc'[k] = hpc[k]
      /\ queue' = Submit(queue, h)
      /\ UNCHANGED <<req, held, mutex, chan, promise, wpc, wreq, kv, seqLen>>
  BY DEF SubmitRequest, Goto
<1>2. mutex = h
  BY <1>1 DEF ScopeInv, InScope
<1>3. ~Serving /\ queue.q = << >>
  BY <1>1, <1>2 DEF QueueInv, HandOver, Waiting
<1>4. queue' \in [q : Seq(Handlers), stopped : BOOLEAN] /\ queue'.q = <<h>>
  <2>1. queue \in [q : Seq(Handlers), stopped : BOOLEAN]
    BY DEF SharedTypeOK
  <2>2. queue' = [queue EXCEPT !.q = Append(queue.q, h)]
    BY <1>1 DEF Submit
  <2>3. Append(<< >>, h) = <<h>> /\ <<h>> \in Seq(Handlers)
    OBVIOUS
  <2>4. queue' = [queue EXCEPT !.q = <<h>>]
    BY <1>3, <2>2, <2>3
  <2> QED BY <2>1, <2>3, <2>4
<1>5. TypeOK'
  BY <1>1, <1>4 DEF SharedTypeOK, WorkerTypeOK, SubmitRequest, Goto, HandlerPC
<1>6. ScopeInv' /\ KindInv' /\ HeldInv'
  BY <1>1 DEF ScopeInv, InScope, KindInv, HeldInv
<1>7. QueueInv' /\ HandOver' /\ CloseInv'
  BY <1>1, <1>2, <1>3, <1>4 DEF QueueInv, HandOver, CloseInv, Fresh, Serving,
     Waiting
<1>8. NoAnswerYet'
  BY <1>1, <1>2, <1>3, <1>4 DEF NoAnswerYet, Untouched, Silent, Fresh, Serving
<1>9. ModelInv'
  BY <1>1 DEF ModelInv, Prefix
<1> QED BY <1>5, <1>6, <1>7, <1>8, <1>9

\* Popping from the channel of a request that is being served finds a token;
\* the drained case does not arise while an answer is due.
LEMMA PopEventStep ==
  ASSUME IInv, NEW h \in Handlers, PopEvent(h), UNCHANGED crashed
  PROVE  IInv'
<1> USE DEF IInv, TypeOK, HandlerTypeOK
<1> DEFINE to == IF Drained(chan[h]) THEN "unlock"
                 ELSE IF Front(chan[h]).kind = "TOKEN" THEN "chunk" ELSE "last"
<1>1. /\ hpc[h] = "drain" /\ hpc'[h] = to /\ to \in {"unlock", "chunk", "last"}
      /\ \A k \in Handlers : k # h => hpc'[k] = hpc[k]
      /\ UNCHANGED <<req, mutex, queue, promise, wpc, wreq, kv, seqLen>>
  BY DEF PopEvent, Goto
<1>2. chan[h] \in Channel
  BY DEF SharedTypeOK
<1>3. CASE Drained(chan[h])
  <2>1. chan' = chan /\ held' = held /\ to = "unlock"
    BY <1>3 DEF PopEvent
  <2>2. ~Silent(chan[h])
    BY <1>3 DEF Drained, Silent
  <2>3. TypeOK'
    <3>1. Deliver(h, <<Item("DONE", 0)>>)
      BY <1>3 DEF PopEvent
    <3>2. <<Item("DONE", 0)>> \in Seq(Delivered)
      BY DEF Item, Delivered
    <3>3. out' \in [Handlers -> Seq(Delivered)]
      BY <3>1, <3>2, DeliverTyped
    <3>4. HandlerTypeOK'
      BY <1>1, <2>1, <3>3 DEF PopEvent, HandlerPC, Goto
    <3>5. SharedTypeOK' /\ WorkerTypeOK'
      BY <1>1, <2>1 DEF PopEvent, SharedTypeOK, WorkerTypeOK
    <3> QED BY <3>4, <3>5 DEF PopEvent
  <2>4. ScopeInv' /\ KindInv' /\ HeldInv'
    BY <1>1, <2>1 DEF ScopeInv, InScope, KindInv, HeldInv
  <2>5. QueueInv' /\ HandOver' /\ CloseInv'
    BY <1>1, <2>1, <2>2 DEF QueueInv, HandOver, CloseInv, NoAnswerYet, Untouched,
       Fresh, Serving, Waiting
  <2>6. NoAnswerYet'
    BY <1>1, <2>1 DEF NoAnswerYet, Untouched, Silent, Fresh, Serving
  <2>7. ModelInv'
    BY <1>1, <2>1 DEF ModelInv, Prefix
  <2> QED BY <2>3, <2>4, <2>5, <2>6, <2>7
<1>4. CASE ~Drained(chan[h])
  <2>1. /\ held' = [held EXCEPT ![h] = Front(chan[h])]
        /\ chan' = [chan EXCEPT ![h] = PopFront(chan[h])]
        /\ out' = out /\ chan[h].q # << >>
        /\ to = IF Front(chan[h]).kind = "TOKEN" THEN "chunk" ELSE "last"
    BY <1>4 DEF PopEvent, MayPop, Drained
  <2>2. /\ Front(chan[h]) \in TokenEvent /\ PopFront(chan[h]) \in Channel
        /\ Silent(chan[h]) => /\ Silent(PopFront(chan[h]))
                              /\ Front(chan[h]).kind = "TOKEN"
    BY <1>2, <2>1, PopChannel
  <2>3. TypeOK'
    BY <1>1, <2>1, <2>2 DEF PopEvent, SharedTypeOK, WorkerTypeOK, HandlerPC, Goto
  <2>4. ScopeInv' /\ KindInv'
    BY <1>1, <2>1 DEF ScopeInv, InScope, KindInv
  <2>5. HeldInv'
    BY <1>1, <2>1 DEF HeldInv, Terminal
  <2>6. QueueInv' /\ HandOver' /\ CloseInv'
    BY <1>1, <2>1, <2>2 DEF QueueInv, HandOver, CloseInv, NoAnswerYet, Untouched,
       Fresh, Serving, Waiting
  <2>7. NoAnswerYet'
    <3>1. \A k \in Handlers : Untouched(k) => Untouched(k)'
      BY <1>1, <2>1, <2>2 DEF Untouched, SharedTypeOK, Silent
    <3>2. mutex # NoThread => mutex \in Handlers
      BY DEF SharedTypeOK
    <3> QED BY <1>1, <3>1 DEF NoAnswerYet, Fresh, Serving, QueueInv, HandOver
  <2>8. ModelInv'
    BY <1>1, <2>1 DEF ModelInv, Prefix
  <2> QED BY <2>3, <2>4, <2>5, <2>6, <2>7, <2>8
<1> QED BY <1>3, <1>4

LEMMA ClientGoneStep ==
  ASSUME IInv, NEW h \in Handlers, ClientGone(h), UNCHANGED crashed
  PROVE  IInv'
<1>1. UNCHANGED <<hpc, req, held, sharedVars, modelVars, workerVars, mainVars,
                  historyVars, crashed>>
  BY DEF ClientGone
<1>2. TypeOK'
  <2>1. << >> \in Seq(Delivered)
    OBVIOUS
  <2>2. out' \in [Handlers -> Seq(Delivered)] /\ conn' \in [Handlers -> BOOLEAN]
    BY <2>1 DEF ClientGone, IInv, TypeOK, HandlerTypeOK
  <2> QED BY <1>1, <2>2
          DEF IInv, TypeOK, HandlerTypeOK, SharedTypeOK, WorkerTypeOK
<1>3. NonTypeInv'
  BY <1>1 DEF IInv, NonTypeInv, ScopeInv, InScope, KindInv, HeldInv, QueueInv,
     HandOver, Waiting, Serving, NoAnswerYet, Untouched, Silent, Fresh, CloseInv,
     ModelInv, Prefix
<1> QED BY <1>2, <1>3 DEF IInv, NonTypeInv

-----------------------------------------------------------------------------
(* The actions of the worker.                                              *)

\* What the hand-over gives the worker while it serves a request.
LEMMA ServingFacts ==
  ASSUME IInv, Serving
  PROVE  /\ wreq \in Handlers /\ mutex = wreq /\ Waiting(wreq) /\ ~Fresh(wreq)
         /\ queue.q = << >> /\ Untouched(wreq)
         /\ \A k \in Handlers : ~DirectInModel(k)
<1>1. wreq \in Handlers /\ mutex = wreq /\ Waiting(wreq) /\ queue.q = << >>
  BY DEF IInv, HandOver
<1>2. ~Fresh(wreq) /\ ~DirectInModel(wreq)
  BY <1>1 DEF Waiting, Fresh, DirectInModel
<1>3. \A k \in Handlers : k # wreq => ~DirectInModel(k)
  BY <1>1 DEF IInv, ScopeInv, InScope, DirectInModel
<1> QED BY <1>1, <1>2, <1>3 DEF IInv, NoAnswerYet

LEMMA StopAtLimitStep ==
  ASSUME IInv, StopAtLimit, UNCHANGED crashed
  PROVE  IInv'
<1>1. /\ Serving /\ Serving' /\ wpc' \in WorkerPC
      /\ UNCHANGED <<hpc, req, held, mutex, queue, chan, promise, wreq, kv,
                     seqLen>>
  BY DEF StopAtLimit, AfterLoop, Serving, WorkerPC
<1>2. TypeOK'
  BY <1>1 DEF IInv, TypeOK, HandlerTypeOK, SharedTypeOK, WorkerTypeOK, StopAtLimit
<1>3. NonTypeInv'
  BY <1>1, WorkerMoves DEF StopAtLimit, AfterLoop, IInv, ModelInv
<1> QED BY <1>2, <1>3 DEF NonTypeInv, IInv

LEMMA StopAtTokenStep ==
  ASSUME IInv, StopAtToken, UNCHANGED crashed
  PROVE  IInv'
<1>1. /\ Serving /\ Serving' /\ wpc' \in WorkerPC
      /\ UNCHANGED <<hpc, req, held, mutex, queue, chan, promise, wreq, kv,
                     seqLen>>
  BY DEF StopAtToken, Sampling, AfterLoop, Serving, WorkerPC
<1>2. TypeOK'
  BY <1>1 DEF IInv, TypeOK, HandlerTypeOK, SharedTypeOK, WorkerTypeOK, StopAtToken
<1>3. NonTypeInv'
  BY <1>1, WorkerMoves DEF StopAtToken, Sampling, AfterLoop, IInv, ModelInv
<1> QED BY <1>2, <1>3 DEF NonTypeInv, IInv

LEMMA KeepTokenStep ==
  ASSUME IInv, KeepToken, UNCHANGED crashed
  PROVE  IInv'
<1>1. /\ Serving /\ Serving' /\ wpc' \in WorkerPC
      /\ UNCHANGED <<hpc, req, held, mutex, queue, chan, promise, wreq, kv,
                     seqLen>>
  BY DEF KeepToken, Sampling, Serving, WorkerPC
<1>2. TypeOK'
  BY <1>1 DEF IInv, TypeOK, HandlerTypeOK, SharedTypeOK, WorkerTypeOK, KeepToken
<1>3. NonTypeInv'
  BY <1>1, WorkerMoves DEF KeepToken, Sampling, IInv, ModelInv
<1> QED BY <1>2, <1>3 DEF NonTypeInv, IInv

LEMMA FlushNothingStep ==
  ASSUME IInv, FlushNothing, UNCHANGED crashed
  PROVE  IInv'
<1>1. /\ Serving /\ Serving' /\ wpc' \in WorkerPC
      /\ UNCHANGED <<hpc, req, held, mutex, queue, chan, promise, wreq, kv,
                     seqLen>>
  BY DEF FlushNothing, Serving, WorkerPC
<1>2. TypeOK'
  BY <1>1 DEF IInv, TypeOK, HandlerTypeOK, SharedTypeOK, WorkerTypeOK, FlushNothing
<1>3. NonTypeInv'
  BY <1>1, WorkerMoves DEF FlushNothing, IInv, ModelInv
<1> QED BY <1>2, <1>3 DEF NonTypeInv, IInv

LEMMA ProcessThrowsStep ==
  ASSUME IInv, ProcessThrows, UNCHANGED crashed
  PROVE  IInv'
<1>1. /\ Serving /\ Serving' /\ wpc' \in WorkerPC
      /\ UNCHANGED <<hpc, req, held, mutex, queue, chan, promise, wreq, kv,
                     seqLen>>
  BY DEF ProcessThrows, Serving, WorkerPC
<1>2. TypeOK'
  BY <1>1 DEF IInv, TypeOK, HandlerTypeOK, SharedTypeOK, WorkerTypeOK, ProcessThrows
<1>3. NonTypeInv'
  BY <1>1, WorkerMoves DEF ProcessThrows, IInv, ModelInv
<1> QED BY <1>2, <1>3 DEF NonTypeInv, IInv

LEMMA TestRunningStep ==
  ASSUME IInv, TestRunning, UNCHANGED crashed
  PROVE  IInv'
<1>1. /\ wpc = "loop" /\ wpc' \in {"pop", "exited"}
      /\ UNCHANGED <<hpc, req, held, mutex, queue, chan, promise, wreq, kv,
                     seqLen>>
  BY DEF TestRunning
<1>2. TypeOK'
  BY <1>1 DEF IInv, TypeOK, HandlerTypeOK, SharedTypeOK, WorkerTypeOK,
     TestRunning, WorkerPC
<1>3. NonTypeInv'
  BY <1>1 DEF IInv, NonTypeInv, ScopeInv, InScope, KindInv, HeldInv, QueueInv,
     HandOver, Waiting, Serving, NoAnswerYet, Untouched, Silent, Fresh, CloseInv,
     ModelInv, Prefix
<1> QED BY <1>2, <1>3 DEF IInv, NonTypeInv

LEMMA WaitPopStep ==
  ASSUME IInv, WaitPop, UNCHANGED crashed
  PROVE  IInv'
<1>1. /\ wpc = "pop" /\ ~Serving
      /\ UNCHANGED <<hpc, req, held, mutex, chan, promise, kv, seqLen>>
  BY DEF WaitPop, Serving
<1>2. CASE NoMoreWork(queue)
  <2>1. wpc' = "exited" /\ UNCHANGED <<wreq, queue>>
    BY <1>2 DEF WaitPop
  <2>2. TypeOK'
    BY <1>1, <2>1 DEF IInv, TypeOK, HandlerTypeOK, SharedTypeOK, WorkerTypeOK,
       WaitPop, WorkerPC
  <2>3. NonTypeInv'
    BY <1>1, <2>1 DEF IInv, NonTypeInv, ScopeInv, InScope, KindInv, HeldInv,
       QueueInv, HandOver, Waiting, Serving, NoAnswerYet, Untouched, Silent,
       Fresh, CloseInv, ModelInv, Prefix
  <2> QED BY <2>2, <2>3 DEF IInv, NonTypeInv
<1>3. CASE ~NoMoreWork(queue)
  <2>1. queue.q = <<mutex>> /\ mutex \in Handlers /\ Waiting(mutex)
    BY <1>3 DEF IInv, QueueInv, NoMoreWork
  <2>2. Untouched(mutex)
    BY <2>1, <1>3 DEF IInv, NoAnswerYet, NoMoreWork
  <2>3. wpc' = "begin" /\ wreq' = mutex
    BY <1>3, <2>1 DEF WaitPop, Oldest
  <2>4. /\ queue' \in [q : Seq(Handlers), stopped : BOOLEAN]
        /\ queue'.q = << >>
    <3>1. queue' = [queue EXCEPT !.q = Tail(queue.q)]
      BY <1>3 DEF WaitPop, TakeOldest
    <3>2. Tail(<<mutex>>) = << >> /\ << >> \in Seq(Handlers)
      BY <2>1
    <3>3. queue' = [queue EXCEPT !.q = << >>]
      BY <2>1, <3>1, <3>2
    <3>4. queue \in [q : Seq(Handlers), stopped : BOOLEAN]
      BY DEF IInv, TypeOK, SharedTypeOK
    <3> QED BY <3>2, <3>3, <3>4
  <2>5. TypeOK'
    <3>1. HandlerTypeOK' /\ SharedTypeOK'
      BY <1>1, <2>4 DEF WaitPop, IInv, TypeOK, HandlerTypeOK, SharedTypeOK
    <3>2. WorkerTypeOK'
      BY <1>1, <2>1, <2>3 DEF WaitPop, IInv, TypeOK, WorkerTypeOK, WorkerPC
    <3> QED BY <3>1, <3>2 DEF WaitPop, IInv, TypeOK
  <2>6. ScopeInv' /\ KindInv' /\ HeldInv'
    BY <1>1 DEF IInv, ScopeInv, InScope, KindInv, HeldInv
  <2>7. QueueInv' /\ HandOver' /\ CloseInv'
    BY <1>1, <2>1, <2>3, <2>4 DEF QueueInv, HandOver, CloseInv, Waiting
  <2>8. NoAnswerYet'
    BY <1>1, <2>2, <2>3, <2>4 DEF IInv, NoAnswerYet, Untouched, Silent, Fresh
  <2>9. ModelInv'
    BY <1>1, <2>3 DEF IInv, ModelInv, Prefix
  <2> QED BY <2>5, <2>6, <2>7, <2>8, <2>9 DEF IInv
<1> QED BY <1>2, <1>3

\* Steps of the worker that write the cache: nobody else is in the model.
LEMMA WorkerWrites ==
  ASSUME IInv, Serving, Serving',
         UNCHANGED <<hpc, req, held, mutex, queue, chan, promise, wreq>>,
         wpc' = "decode" => Prefix(wreq)',
         wpc' \notin {"emit", "forward"}
  PROVE  NonTypeInv'
<1>1. ScopeInv' /\ KindInv' /\ HeldInv'
  BY DEF IInv, ScopeInv, InScope, KindInv, HeldInv
<1>2. QueueInv' /\ HandOver'
  BY DEF IInv, QueueInv, HandOver, Waiting
<1>3. NoAnswerYet'
  BY DEF IInv, NoAnswerYet, Untouched, Silent, Fresh
<1>4. CloseInv'
  BY DEF CloseInv, Serving
<1>5. \A k \in Handlers : ~DirectInModel(k)
  BY ServingFacts
<1>6. ModelInv'
  BY <1>5 DEF ModelInv, DirectInModel
<1> QED BY <1>1, <1>2, <1>3, <1>4, <1>6 DEF NonTypeInv

LEMMA BeginProcessStep ==
  ASSUME IInv, BeginProcess, UNCHANGED crashed
  PROVE  IInv'
<1>1. /\ Serving /\ Serving' /\ wpc' \in {"finish", "prefill"}
      /\ UNCHANGED <<hpc, req, held, mutex, queue, chan, promise, wreq, kv>>
      /\ seqLen' = 0 \/ seqLen' = seqLen
      /\ steps' = 0 /\ reason' \in {"stop", "length"}
  BY DEF BeginProcess, Serving, ClearKV
<1>2. TypeOK'
  <2>1. HandlerTypeOK' /\ SharedTypeOK'
    BY <1>1 DEF BeginProcess, IInv, TypeOK, HandlerTypeOK, SharedTypeOK
  <2>2. WorkerTypeOK'
    BY <1>1 DEF BeginProcess, IInv, TypeOK, WorkerTypeOK, WorkerPC
  <2> QED BY <2>1, <2>2 DEF BeginProcess, IInv, TypeOK
<1>3. NonTypeInv'
  BY <1>1, WorkerWrites
<1> QED BY <1>2, <1>3 DEF NonTypeInv, IInv

LEMMA PrefillStep ==
  ASSUME IInv, Prefill, UNCHANGED crashed
  PROVE  IInv'
<1>1. /\ Serving /\ Serving' /\ wpc' = "decode" /\ PrefillKV(wreq)
      /\ UNCHANGED <<hpc, req, held, mutex, queue, chan, promise, wreq>>
  BY DEF Prefill, Serving
<1>2. wreq \in Handlers
  BY <1>1, ServingFacts
<1>3. WorkerTypeOK /\ req[wreq].plen \in Nat
  BY <1>2, RequestLengths DEF IInv, TypeOK
<1>4. /\ kv' \in [Positions -> Handlers \cup {NoThread}] /\ seqLen' \in Nat
      /\ Prefix(wreq)'
  BY <1>1, <1>2, <1>3, PrefillPrefix DEF Prefix
<1>5. TypeOK'
  <2>1. HandlerTypeOK' /\ SharedTypeOK'
    BY <1>1 DEF Prefill, IInv, TypeOK, HandlerTypeOK, SharedTypeOK
  <2>2. WorkerTypeOK'
    BY <1>1, <1>4 DEF Prefill, IInv, TypeOK, WorkerTypeOK, WorkerPC
  <2> QED BY <2>1, <2>2 DEF Prefill, IInv, TypeOK
<1>6. NonTypeInv'
  BY <1>1, <1>4, WorkerWrites
<1> QED BY <1>5, <1>6 DEF NonTypeInv, IInv

LEMMA ForwardStep ==
  ASSUME IInv, Forward, UNCHANGED crashed
  PROVE  IInv'
<1>1. /\ Serving /\ Serving' /\ wpc = "forward" /\ wpc' = "decode"
      /\ ForwardKV(wreq)
      /\ UNCHANGED <<hpc, req, held, mutex, queue, chan, promise, wreq>>
  BY DEF Forward, Serving
<1>2. wreq \in Handlers /\ WorkerTypeOK
  BY <1>1, ServingFacts DEF IInv, TypeOK
<1>3. Prefix(wreq) /\ seqLen < MaxSeqLen
  BY <1>1 DEF IInv, ModelInv
<1>4. /\ kv' \in [Positions -> Handlers \cup {NoThread}] /\ seqLen' \in Nat
      /\ Prefix(wreq)'
  BY <1>1, <1>2, <1>3, ForwardPrefix DEF Prefix
<1>5. TypeOK'
  <2>1. HandlerTypeOK' /\ SharedTypeOK'
    BY <1>1 DEF Forward, IInv, TypeOK, HandlerTypeOK, SharedTypeOK
  <2>2. steps' \in Nat /\ late' \in [Handlers -> Nat]
    BY <1>2 DEF Forward, WorkerTypeOK
  <2>3. WorkerTypeOK'
    BY <1>1, <1>2, <1>4, <2>2 DEF Forward, WorkerTypeOK, WorkerPC
  <2> QED BY <2>1, <2>3 DEF Forward, IInv, TypeOK
<1>6. NonTypeInv'
  BY <1>1, <1>4, WorkerWrites
<1> QED BY <1>5, <1>6 DEF NonTypeInv, IInv

\* An emitted token leaves the request unanswered.
LEMMA PushTokenStep ==
  ASSUME IInv, Serving, Serving', NEW next \in WorkerPC, PushToken(next),
         next \in {"emit", "forward"} => Prefix(wreq) /\ seqLen < MaxSeqLen,
         next # "decode", UNCHANGED crashed
  PROVE  IInv'
<1>1. /\ wreq \in Handlers /\ Silent(chan[wreq]) /\ mutex = wreq
      /\ Waiting(wreq) /\ queue.q = << >> /\ promise[wreq] = "none"
      /\ \A k \in Handlers : ~DirectInModel(k)
  BY ServingFacts DEF Untouched
<1>2. chan[wreq] \in Channel /\ emitted[wreq] + 1 \in Nat
  BY <1>1 DEF IInv, TypeOK, SharedTypeOK, WorkerTypeOK
<1> DEFINE ch == Push(chan[wreq], Token(emitted[wreq] + 1))
<1>3. ch \in Channel /\ Silent(ch)
  <2>1. Token(emitted[wreq] + 1) \in TokenEvent
    BY <1>2 DEF Token, TokenEvent
  <2> QED BY <1>1, <1>2, <2>1, PushChannel, PushTokenSilent
<1>4. /\ chan' = [chan EXCEPT ![wreq] = ch] /\ wpc' = next
      /\ UNCHANGED <<hpc, req, held, mutex, queue, promise, wreq, kv, seqLen>>
  BY DEF PushToken
<1> HIDE DEF ch
<1>5. TypeOK'
  <2>0. HandlerTypeOK'
    BY <1>4 DEF PushToken, IInv, TypeOK, HandlerTypeOK
  <2>1. SharedTypeOK'
    BY <1>3, <1>4 DEF PushToken, IInv, TypeOK, SharedTypeOK
  <2>2. WorkerTypeOK'
    BY <1>2, <1>4 DEF PushToken, IInv, TypeOK, WorkerTypeOK
  <2> QED BY <2>0, <2>1, <2>2 DEF PushToken, IInv, TypeOK
<1>6. ScopeInv' /\ KindInv' /\ HeldInv'
  BY <1>4 DEF IInv, ScopeInv, InScope, KindInv, HeldInv
<1>7. QueueInv' /\ HandOver'
  BY <1>1, <1>4 DEF IInv, QueueInv, HandOver, Waiting
<1>8. NoAnswerYet'
  <2>1. \A k \in Handlers : Untouched(k) => Untouched(k)'
    BY <1>3, <1>4 DEF Untouched, Silent, IInv, TypeOK, SharedTypeOK
  <2> QED BY <1>1, <1>4, <2>1 DEF IInv, NoAnswerYet, Fresh
<1>9. CloseInv' /\ ModelInv'
  BY <1>1, <1>4 DEF CloseInv, ModelInv, Prefix, Serving, DirectInModel
<1> QED BY <1>5, <1>6, <1>7, <1>8, <1>9 DEF IInv

LEMMA EmitTokenStep ==
  ASSUME IInv, EmitToken, UNCHANGED crashed
  PROVE  IInv'
<1>1. /\ Serving /\ Serving' /\ "forward" \in WorkerPC
      /\ Prefix(wreq) /\ seqLen < MaxSeqLen
  BY DEF EmitToken, PushToken, Serving, WorkerPC, IInv, ModelInv
<1> QED BY <1>1, PushTokenStep DEF EmitToken

LEMMA FlushTailStep ==
  ASSUME IInv, FlushTail, UNCHANGED crashed
  PROVE  IInv'
<1>1. Serving /\ Serving' /\ "finish" \in WorkerPC
  BY DEF FlushTail, PushToken, Serving, WorkerPC
<1> QED BY <1>1, PushTokenStep DEF FlushTail

\* The answer ends the service: afterwards nothing is promised about the
\* request, and no request that is still to come has been touched.
LEMMA AnswerStep ==
  ASSUME IInv, Serving, NEW ev \in TokenEvent,
         NEW value \in {"value", "exception"}, Answer(ev, value),
         UNCHANGED crashed
  PROVE  IInv'
<1>1. /\ wreq \in Handlers /\ ~Fresh(wreq) /\ queue.q = << >>
      /\ \A k \in Handlers : ~DirectInModel(k)
  BY ServingFacts
<1>2. /\ UNCHANGED <<hpc, req, held, mutex, queue, kv, seqLen>>
      /\ \/ wpc' = "close" /\ wreq' = wreq
         \/ wpc' = "loop" /\ wreq' = NoThread
  BY DEF Answer
<1>3. Push(chan[wreq], ev) \in Channel
  BY <1>1, PushChannel DEF IInv, TypeOK, SharedTypeOK
<1>4. /\ chan' = chan \/ chan' = [chan EXCEPT ![wreq] = Push(chan[wreq], ev)]
      /\ promise' = promise \/ promise' = [promise EXCEPT ![wreq] = value]
  BY DEF Answer
<1>5. TypeOK'
  <2>1. HandlerTypeOK'
    BY <1>2 DEF Answer, IInv, TypeOK, HandlerTypeOK
  <2>2. SharedTypeOK'
    BY <1>1, <1>2, <1>3, <1>4 DEF Answer, IInv, TypeOK, SharedTypeOK
  <2>3. WorkerTypeOK'
    BY <1>1, <1>2 DEF Answer, IInv, TypeOK, WorkerTypeOK, WorkerPC
  <2> QED BY <2>1, <2>2, <2>3 DEF Answer, IInv, TypeOK
<1>6. ScopeInv' /\ KindInv' /\ HeldInv'
  BY <1>2 DEF IInv, ScopeInv, InScope, KindInv, HeldInv
<1>7. QueueInv' /\ HandOver' /\ CloseInv'
  BY <1>1, <1>2 DEF QueueInv, HandOver, CloseInv, Serving, Fresh
<1>8. NoAnswerYet'
  <2>1. \A k \in Handlers : k # wreq => (Untouched(k) => Untouched(k)')
    BY <1>1, <1>4 DEF Untouched, Silent, IInv, TypeOK, SharedTypeOK
  <2> QED BY <1>1, <1>2, <2>1 DEF IInv, NoAnswerYet, Fresh, Serving
<1>9. ModelInv'
  BY <1>1, <1>2 DEF ModelInv, DirectInModel
<1> QED BY <1>5, <1>6, <1>7, <1>8, <1>9 DEF IInv

LEMMA FinishRequestStep ==
  ASSUME IInv, FinishRequest, UNCHANGED crashed
  PROVE  IInv'
<1>1. Serving /\ Finish(reason) \in TokenEvent
  BY DEF FinishRequest, Serving, Finish, TokenEvent, Reasons, IInv, TypeOK,
     WorkerTypeOK
<1> QED BY <1>1, AnswerStep DEF FinishRequest

LEMMA ReportErrorStep ==
  ASSUME IInv, ReportError, UNCHANGED crashed
  PROVE  IInv'
<1>1. Serving /\ Err \in TokenEvent
  BY DEF ReportError, Serving, Err, TokenEvent, Reasons
<1> QED BY <1>1, AnswerStep DEF ReportError

\* close() may come late, but never on the channel of a request to come.
LEMMA CloseChannelStep ==
  ASSUME IInv, CloseChannel, UNCHANGED crashed
  PROVE  IInv'
<1>1. /\ wpc = "close" /\ wpc' = "loop" /\ wreq' = NoThread
      /\ wreq \in Handlers /\ ~Fresh(wreq) /\ ~Serving /\ ~Serving'
      /\ chan' = [chan EXCEPT ![wreq] = Close(chan[wreq])]
      /\ UNCHANGED <<hpc, req, held, mutex, queue, promise, kv, seqLen>>
  BY DEF CloseChannel, IInv, CloseInv, Serving
<1>2. Close(chan[wreq]) \in Channel
  BY <1>1, CloseKeepsChannel DEF IInv, TypeOK, SharedTypeOK
<1>3. TypeOK'
  <2>1. HandlerTypeOK' /\ SharedTypeOK'
    BY <1>1, <1>2 DEF CloseChannel, IInv, TypeOK, HandlerTypeOK, SharedTypeOK
  <2>2. WorkerTypeOK'
    BY <1>1 DEF CloseChannel, IInv, TypeOK, WorkerTypeOK, WorkerPC
  <2> QED BY <2>1, <2>2 DEF CloseChannel, IInv, TypeOK
<1>4. ScopeInv' /\ KindInv' /\ HeldInv'
  BY <1>1 DEF IInv, ScopeInv, InScope, KindInv, HeldInv
<1>5. QueueInv' /\ HandOver' /\ CloseInv'
  BY <1>1 DEF IInv, QueueInv, HandOver, CloseInv, Waiting
<1>6. NoAnswerYet'
  <2>1. \A k \in Handlers : k # wreq => (Untouched(k) => Untouched(k)')
    BY <1>1 DEF Untouched, Silent, IInv, TypeOK, SharedTypeOK
  <2>2. queue.q # << >> => mutex # wreq
    BY <1>1 DEF IInv, CloseInv
  <2> QED BY <1>1, <2>1, <2>2 DEF IInv, NoAnswerYet, Fresh, QueueInv
<1>7. ModelInv'
  BY <1>1 DEF IInv, ModelInv, Prefix
<1> QED BY <1>3, <1>4, <1>5, <1>6, <1>7 DEF IInv

-----------------------------------------------------------------------------
(* The main thread, the death of the process, and the induction.           *)

LEMMA MainThreadStep ==
  ASSUME IInv, MainStep, UNCHANGED crashed
  PROVE  IInv'
<1>1. /\ UNCHANGED <<hpc, req, conn, out, held, mutex, chan, promise, cancel,
                     kv, seqLen, steps, wpc, wreq, reason, emitted, late>>
      /\ mainpc' \in MainPC /\ running' \in BOOLEAN
      /\ queue' = queue \/ queue' = Shutdown(queue)
  BY DEF MainStep, Listen, PlatformFails, SocketFails, StopWorker, JoinWorker,
     MainOnly, MainPC, IInv, TypeOK
<1>2. /\ queue' \in [q : Seq(Handlers), stopped : BOOLEAN]
      /\ queue'.q = queue.q
  BY <1>1 DEF Shutdown, IInv, TypeOK, SharedTypeOK
<1>3. TypeOK'
  BY <1>1, <1>2 DEF IInv, TypeOK, HandlerTypeOK, SharedTypeOK, WorkerTypeOK
<1>4. NonTypeInv'
  BY <1>1, <1>2 DEF IInv, NonTypeInv, ScopeInv, InScope, KindInv, HeldInv,
     QueueInv, HandOver, Waiting, Serving, NoAnswerYet, Untouched, Silent,
     Fresh, CloseInv, ModelInv, Prefix
<1> QED BY <1>3, <1>4 DEF IInv, NonTypeInv

\* A step that touches nothing but crashed (and every stuttering step).
LEMMA NothingMoves ==
  ASSUME IInv, crashed' \in BOOLEAN,
         UNCHANGED <<handlerVars, sharedVars, modelVars, workerVars, mainVars,
                     historyVars>>
  PROVE  IInv'
<1>1. TypeOK'
  BY DEF IInv, TypeOK, HandlerTypeOK, SharedTypeOK, WorkerTypeOK
<1>2. NonTypeInv'
  BY DEF IInv, NonTypeInv, ScopeInv, InScope, KindInv, HeldInv, QueueInv,
     HandOver, Waiting, Serving, NoAnswerYet, Untouched, Silent, Fresh,
     CloseInv, ModelInv, Prefix
<1> QED BY <1>1, <1>2 DEF IInv, NonTypeInv

LEMMA InitIInv == Init => IInv
<1> SUFFICES ASSUME Init PROVE IInv
  OBVIOUS
<1>1. TypeOK
  <2>1. HandlerTypeOK
    <3>1. (CHOOSE r \in Requests : TRUE) \in Requests
      BY StateAssumption
    <3>2. << >> \in Seq(Delivered)
      OBVIOUS
    <3> QED BY <3>1, <3>2 DEF Init, HandlerTypeOK, HandlerPC, Err, TokenEvent,
               Reasons
  <2>2. SharedTypeOK
    <3>1. << >> \in Seq(Handlers) /\ << >> \in Seq(TokenEvent)
      OBVIOUS
    <3> QED BY <3>1 DEF Init, SharedTypeOK, NewQueue, NewChannel, Channel
  <2>3. WorkerTypeOK
    BY DEF Init, WorkerTypeOK, WorkerPC
  <2> QED BY <2>1, <2>2, <2>3 DEF Init, TypeOK, MainPC
<1>2. ScopeInv /\ KindInv /\ HeldInv
  BY StateAssumption DEF Init, ScopeInv, InScope, KindInv, HeldInv
<1>3. QueueInv /\ HandOver /\ CloseInv /\ ModelInv
  BY DEF Init, NewQueue, QueueInv, HandOver, CloseInv, ModelInv, Serving
<1>4. NoAnswerYet
  BY DEF Init, NewQueue, NewChannel, NoAnswerYet, Untouched, Silent, Serving
<1> QED BY <1>1, <1>2, <1>3, <1>4 DEF IInv

LEMMA HandlerNext ==
  ASSUME IInv, NEW h \in Handlers, HandlerStep(h), UNCHANGED crashed
  PROVE  IInv'
BY BadHttpStep, RouteStep, LockStep, RejectBodyStep, AcceptBodyStep,
   EnterModelStep, RunPromptStep, LeaveModelStep, SampleTokenStep,
   ForwardTokenStep, ReplyStep, SubmitRequestStep, SendHeadersStep,
   PopEventStep, SendChunkStep, ChunkFailsStep, SendLastStep, AwaitResultStep,
   UnlockStep, CloseSocketStep
DEF HandlerStep

LEMMA WorkerNext ==
  ASSUME IInv, WorkerStep, UNCHANGED crashed
  PROVE  IInv'
BY TestRunningStep, WaitPopStep, BeginProcessStep, PrefillStep,
   StopAtLimitStep, StopAtTokenStep, KeepTokenStep, EmitTokenStep, ForwardStep,
   FlushNothingStep, FlushTailStep, FinishRequestStep, ReportErrorStep,
   ProcessThrowsStep, CloseChannelStep
DEF WorkerStep

LEMMA StepIInv == IInv /\ [Next]_vars => IInv'
<1> SUFFICES ASSUME IInv, [Next]_vars PROVE IInv'
  OBVIOUS
<1>1. CASE Alive /\ MainStep
  BY <1>1, MainThreadStep DEF Alive
<1>2. CASE Alive /\ WorkerStep
  BY <1>2, WorkerNext DEF Alive
<1>3. ASSUME NEW h \in Handlers, Alive /\ Accept(h)
      PROVE  IInv'
  BY <1>3, AcceptStep DEF Alive
<1>4. ASSUME NEW h \in Handlers, Alive /\ HandlerStep(h)
      PROVE  IInv'
  BY <1>4, HandlerNext DEF Alive
<1>5. ASSUME NEW h \in Handlers, Alive /\ ClientGone(h)
      PROVE  IInv'
  BY <1>5, ClientGoneStep DEF Alive
<1>6. ASSUME NEW h \in Handlers, Dies(h)
      PROVE  IInv'
  BY <1>6, NothingMoves DEF Dies, HandlerThrows, BrokenPipe
<1>7. CASE ~crashed /\ SampleWithoutLogits
  BY <1>7, NothingMoves DEF SampleWithoutLogits
<1>8. CASE UNCHANGED vars
  BY <1>8, NothingMoves DEF vars, IInv, TypeOK
<1> QED BY <1>1, <1>2, <1>3, <1>4, <1>5, <1>6, <1>7, <1>8 DEF Next

\* IInv holds in every reachable state.
THEOREM Inductive == Spec => []IInv
BY InitIInv, StepIInv, PTL DEF Spec

-----------------------------------------------------------------------------
(* The theorems.                                                           *)

\* Every variable keeps its type; in particular no prompt, however long, makes
\* a generation path write the KV cache beyond max_seq_len positions.
THEOREM TypeCorrect == Spec => []TypeOK
<1>1. IInv => TypeOK
  BY DEF IInv
<1> QED BY <1>1, Inductive, PTL

\* The worker never serves a request whose connection thread does not hold
\* model_mutex and wait for the answer, with nothing else queued.
THEOREM HandOverHolds == Spec => []HandOver
<1>1. IInv => HandOver
  BY DEF IInv
<1> QED BY <1>1, Inductive, PTL

\* At most one thread is in the model, although the worker takes no lock.
THEOREM ModelExclusionHolds == Spec => []ModelExclusion
<1>1. IInv => ModelExclusion
  <2> SUFFICES ASSUME IInv PROVE ModelExclusion
    OBVIOUS
  <2>1. WorkerInModel => \A h \in Handlers : ~DirectInModel(h)
    <3>1. WorkerInModel => Serving
      BY DEF WorkerInModel, Serving
    <3> QED BY <3>1, ServingFacts
  <2>2. \A h, k \in Handlers : DirectInModel(h) /\ DirectInModel(k) => h = k
    BY DEF IInv, ScopeInv, InScope, DirectInModel
  <2> QED BY <2>1, <2>2 DEF ModelExclusion
<1> QED BY <1>1, Inductive, PTL

\* Every forward pass attends to its own request's keys and values only.
THEOREM OwnKVHolds == Spec => []OwnKV
<1>1. IInv => OwnKV
  BY StateAssumption DEF IInv, ModelInv, OwnKV, OwnContext, Prefix, TypeOK,
     WorkerTypeOK
<1> QED BY <1>1, Inductive, PTL

-----------------------------------------------------------------------------
(* An answered request is never answered again.                            *)

\* Only the worker makes a channel longer, and only the one it is serving.
LEMMA OthersDoNotAnswer ==
  ASSUME IInv, [Next]_vars, ~(Alive /\ WorkerStep /\ Serving), NEW h \in Handlers
  PROVE  promise'[h] = promise[h] /\ Len(chan'[h].q) <= Len(chan[h].q)
<1>0. chan[h] \in Channel /\ Len(chan[h].q) \in Nat /\ chan \in [Handlers -> Channel]
  BY DEF IInv, TypeOK, SharedTypeOK, Channel
<1>1. CASE Alive /\ MainStep
  BY <1>0, <1>1 DEF MainStep, Listen, PlatformFails, SocketFails, StopWorker,
     JoinWorker, MainOnly
<1>2. CASE Alive /\ WorkerStep
  <2>1. ~Serving
    BY <1>2
  <2>2. TestRunning \/ WaitPop \/ CloseChannel
    BY <1>2, <2>1 DEF WorkerStep, Serving, BeginProcess, Prefill, StopAtLimit,
       StopAtToken, KeepToken, Sampling, EmitToken, Forward, FlushNothing,
       FlushTail, FinishRequest, ReportError, ProcessThrows
  <2>3. CASE TestRunning \/ WaitPop
    BY <1>0, <2>3 DEF TestRunning, WaitPop
  <2>4. CASE CloseChannel
    <3>1. promise' = promise /\ chan' = [chan EXCEPT ![wreq] = Close(chan[wreq])]
      BY <2>4 DEF CloseChannel
    <3>2. Close(chan[h]).q = chan[h].q
      BY <1>0 DEF Close, Channel
    <3> QED BY <1>0, <3>1, <3>2
  <2> QED BY <2>2, <2>3, <2>4
<1>3. ASSUME NEW k \in Handlers, Alive /\ HandlerStep(k)
      PROVE  promise'[h] = promise[h] /\ Len(chan'[h].q) <= Len(chan[h].q)
  <2>1. CASE PopEvent(k)
    <3>1. /\ promise' = promise
          /\ \/ chan' = chan
             \/ /\ chan[k].q # << >>
                /\ chan' = [chan EXCEPT ![k] = PopFront(chan[k])]
      BY <2>1 DEF PopEvent, MayPop, Drained
    <3>2. chan[h].q # << >> => Len(PopFront(chan[h]).q) <= Len(chan[h].q)
      <4>1. PopFront(chan[h]).q = Tail(chan[h].q)
        BY <1>0 DEF PopFront, Channel
      <4>2. chan[h].q \in Seq(TokenEvent)
        BY <1>0 DEF Channel
      <4>3. chan[h].q # << >> => Len(Tail(chan[h].q)) = Len(chan[h].q) - 1
        BY <4>2
      <4> QED BY <1>0, <4>1, <4>3
    <3> QED BY <1>0, <3>1, <3>2
  <2>2. CASE ~PopEvent(k)
    <3>1. UNCHANGED <<promise, chan>>
      BY <1>3, <2>2 DEF HandlerStep, BadHttp, Route, Lock, RejectBody,
         AcceptBody, EnterModel, RunPrompt, LeaveModel, SampleToken,
         ForwardToken, Reply, SubmitRequest, SendHeaders, SendChunk,
         ChunkFails, SendLast, AwaitResult, Unlock, CloseSocket
    <3> QED BY <1>0, <3>1
  <2> QED BY <2>1, <2>2
<1>4. ASSUME NEW k \in Handlers, Alive /\ Accept(k)
      PROVE  promise'[h] = promise[h] /\ Len(chan'[h].q) <= Len(chan[h].q)
  BY <1>0, <1>4 DEF Accept
<1>5. ASSUME NEW k \in Handlers, Alive /\ ClientGone(k)
      PROVE  promise'[h] = promise[h] /\ Len(chan'[h].q) <= Len(chan[h].q)
  BY <1>0, <1>5 DEF ClientGone
<1>6. ASSUME NEW k \in Handlers, Dies(k)
      PROVE  promise'[h] = promise[h] /\ Len(chan'[h].q) <= Len(chan[h].q)
  BY <1>0, <1>6 DEF Dies, HandlerThrows, BrokenPipe
<1>7. CASE ~crashed /\ SampleWithoutLogits
  BY <1>0, <1>7 DEF SampleWithoutLogits
<1>8. CASE UNCHANGED vars
  BY <1>0, <1>8 DEF vars
<1> QED BY <1>1, <1>2, <1>3, <1>4, <1>5, <1>6, <1>7, <1>8 DEF Next

\* The worker serves an unanswered request and touches no other.
LEMMA ServingIsUnanswered ==
  ASSUME IInv, Alive, WorkerStep, Serving, NEW h \in Handlers
  PROVE  /\ promise[h] # "none" => promise'[h] = promise[h]
         /\ (Answered(h) \/ hpc[h] = "last") =>
               Len(chan'[h].q) <= Len(chan[h].q)
<1>0. Len(chan[h].q) \in Nat /\ chan \in [Handlers -> Channel]
      /\ promise \in [Handlers -> {"none", "value", "exception"}]
  BY DEF IInv, TypeOK, SharedTypeOK, Channel
<1>1. wreq \in Handlers /\ Waiting(wreq) /\ Untouched(wreq)
  BY ServingFacts
<1>2. CASE h = wreq
  <2>1. ~Answered(h) /\ promise[h] = "none" /\ hpc[h] # "last"
    BY <1>1, <1>2 DEF Answered, Untouched, Silent, Waiting
  <2> QED BY <2>1
<1>3. CASE h # wreq
  <2>1. promise'[h] = promise[h] /\ chan'[h] = chan[h]
    BY <1>0, <1>3
    DEF WorkerStep, TestRunning, WaitPop, BeginProcess, Prefill, StopAtLimit,
        StopAtToken, KeepToken, EmitToken, PushToken, Forward, FlushNothing,
        FlushTail, FinishRequest, ReportError, Answer, ProcessThrows,
        CloseChannel
  <2> QED BY <1>0, <2>1
<1> QED BY <1>2, <1>3

\* A promise is set once and nothing follows a terminal event in a channel.
THEOREM AnswerIsFinalHolds == Spec => AnswerIsFinal
<1> DEFINE A ==
      \A h \in Handlers :
          /\ promise[h] # "none" => promise'[h] = promise[h]
          /\ (Answered(h) \/ hpc[h] = "last") =>
                Len(chan'[h].q) <= Len(chan[h].q)
<1>1. IInv /\ [Next]_vars => A
  BY OthersDoNotAnswer, ServingIsUnanswered
<1>2. IInv /\ [Next]_vars => [A]_vars
  BY <1>1
<1> QED BY <1>2, Inductive, PTL DEF Spec, AnswerIsFinal

-----------------------------------------------------------------------------
(* A cancelled request costs at most one more forward pass.                *)

\* A forward pass after the cancel is the last one: the worker is past it.
LateInv ==
    \A h \in Handlers :
        late[h] # 0 => /\ late[h] = 1
                       /\ cancel[h]
                       /\ ~(wreq = h /\ wpc \in {"emit", "forward"})

LEMMA StepLateInv == TypeOK /\ LateInv /\ [Next]_vars => LateInv'
<1> SUFFICES ASSUME TypeOK, LateInv, [Next]_vars PROVE LateInv'
  OBVIOUS
<1>0. late \in [Handlers -> Nat] /\ cancel \in [Handlers -> BOOLEAN]
  BY DEF TypeOK, SharedTypeOK, WorkerTypeOK
<1>1. CASE Forward
  <2>1. /\ wpc = "forward" /\ wpc' = "decode" /\ UNCHANGED <<wreq, cancel>>
        /\ late' = [late EXCEPT ![wreq] = IF cancel[wreq] THEN late[wreq] + 1
                                                          ELSE late[wreq]]
    BY <1>1 DEF Forward
  <2> QED BY <1>0, <2>1 DEF LateInv
<1>2. CASE KeepToken
  <2>1. ~cancel[wreq] /\ UNCHANGED <<wreq, cancel, late>>
    BY <1>2 DEF KeepToken, Sampling
  <2> QED BY <1>0, <2>1 DEF LateInv
<1>3. CASE WorkerStep /\ ~Forward /\ ~KeepToken
  <2>1. /\ UNCHANGED <<cancel, late>>
        /\ \/ wpc' \notin {"emit", "forward"}
           \/ wpc = "emit" /\ wreq' = wreq
    BY <1>3 DEF WorkerStep, TestRunning, WaitPop, BeginProcess, Prefill,
       StopAtLimit, StopAtToken, EmitToken, PushToken, FlushNothing, FlushTail,
       FinishRequest, ReportError, Answer, AfterLoop, ProcessThrows, CloseChannel
  <2> QED BY <1>0, <2>1 DEF LateInv
<1>4. ASSUME NEW k \in Handlers, ChunkFails(k)
      PROVE  LateInv'
  <2>1. /\ cancel' = [cancel EXCEPT ![k] = TRUE]
        /\ UNCHANGED <<late, wreq, wpc>>
    BY <1>4 DEF ChunkFails
  <2> QED BY <1>0, <2>1 DEF LateInv
<1>5. ASSUME NEW k \in Handlers, HandlerStep(k), ~ChunkFails(k)
      PROVE  LateInv'
  <2>1. UNCHANGED <<cancel, late, wreq, wpc>>
    BY <1>5 DEF HandlerStep, BadHttp, Route, Lock, RejectBody, AcceptBody,
       EnterModel, RunPrompt, LeaveModel, SampleToken, ForwardToken, Reply,
       SubmitRequest, SendHeaders, PopEvent, SendChunk, SendLast, AwaitResult,
       Unlock, CloseSocket
  <2> QED BY <2>1 DEF LateInv
<1>6. ASSUME NEW k \in Handlers, Accept(k) \/ ClientGone(k) \/ Dies(k)
      PROVE  LateInv'
  BY <1>6 DEF Accept, ClientGone, Dies, HandlerThrows, BrokenPipe, LateInv
<1>7. CASE MainStep
  BY <1>7 DEF MainStep, Listen, PlatformFails, SocketFails, StopWorker,
     JoinWorker, MainOnly, LateInv
<1>8. CASE ~crashed /\ SampleWithoutLogits
  BY <1>8 DEF SampleWithoutLogits, LateInv
<1>9. CASE UNCHANGED vars
  BY <1>9 DEF vars, LateInv
<1> QED BY <1>1, <1>2, <1>3, <1>4, <1>5, <1>6, <1>7, <1>8, <1>9 DEF Next

\* Once cancelled, a request gets at most one more forward pass.
THEOREM CancelBoundsWorkHolds == Spec => []CancelBoundsWork
<1>1. Init => LateInv
  BY DEF Init, LateInv
<1>2. TypeOK /\ LateInv => CancelBoundsWork
  BY DEF LateInv, CancelBoundsWork, TypeOK, WorkerTypeOK
<1> QED BY <1>1, <1>2, StepLateInv, TypeCorrect, PTL DEF Spec

=============================================================================
