------------------------------ MODULE ChatProofs ------------------------------
(***************************************************************************)
(* Theorems about Chat, for any messages, workers, buffer, batch and       *)
(* channel sizes, with or without database errors: what a node does to its *)
(* batcher the batcher allows, so its theorems hold inside the node; and a *)
(* message is in one place until SaveMessage has it, and stays with the    *)
(* batcher until it is flushed.                                            *)
(***************************************************************************)
EXTENDS Chat, MessageBatcherProofs, FiniteSetTheorems

-----------------------------------------------------------------------------
(* Sequences and small sets. *)

LEMMA ElemsAppend ==
  ASSUME NEW S, NEW s \in Seq(S), NEW x \in S
  PROVE  Elems(Append(s, x)) = Elems(s) \cup {x}
<1>1. /\ DOMAIN s = 1 .. Len(s) /\ Len(s) \in Nat
      /\ DOMAIN Append(s, x) = 1 .. Len(s) + 1
      /\ \A i \in 1 .. Len(s) : Append(s, x)[i] = s[i]
      /\ Append(s, x)[Len(s) + 1] = x
  BY LenProperties
<1> QED
  BY <1>1 DEF Elems

\* Taking the head of a sequence leaves the other elements.
LEMMA ElemsTail ==
  ASSUME NEW S, NEW s \in Seq(S), s # <<>>
  PROVE  /\ Head(s) \in Elems(s) /\ Elems(s) = Elems(Tail(s)) \cup {Head(s)}
         /\ Distinct(s) => Distinct(Tail(s)) /\ Head(s) \notin Elems(Tail(s))
<1>1. /\ DOMAIN s = 1 .. Len(s) /\ Len(s) \in Nat /\ Len(s) > 0 /\ Head(s) = s[1]
      /\ Tail(s) \in Seq(S) /\ Len(Tail(s)) = Len(s) - 1
      /\ DOMAIN Tail(s) = 1 .. Len(s) - 1
      /\ \A i \in 1 .. Len(s) - 1 : Tail(s)[i] = s[i + 1]
  BY HeadTailProperties, LenProperties, EmptySeq
<1>2. ASSUME NEW i \in 2 .. Len(s) PROVE i - 1 \in DOMAIN Tail(s) /\ Tail(s)[i - 1] = s[i]
  BY <1>1
<1>3. ASSUME NEW i \in DOMAIN Tail(s) PROVE i + 1 \in DOMAIN s /\ Tail(s)[i] = s[i + 1]
  BY <1>1
<1>4. Elems(s) \subseteq Elems(Tail(s)) \cup {Head(s)}
  <2> SUFFICES ASSUME NEW i \in DOMAIN s PROVE s[i] \in Elems(Tail(s)) \cup {Head(s)}
    BY DEF Elems
  <2>1. CASE i = 1
    BY <1>1, <2>1
  <2>2. CASE i # 1
    <3>1. i \in 2 .. Len(s)
      BY <1>1, <2>2
    <3> QED
      BY <1>2, <3>1 DEF Elems
  <2> QED
    BY <2>1, <2>2
<1>5. Head(s) \in Elems(s) /\ Elems(Tail(s)) \subseteq Elems(s)
  <2>1. 1 \in DOMAIN s
    BY <1>1
  <2> QED
    BY <1>1, <1>3, <2>1 DEF Elems
<1>6. ASSUME Distinct(s) PROVE Distinct(Tail(s)) /\ Head(s) \notin Elems(Tail(s))
  BY <1>1, <1>3, <1>6 DEF Distinct, Elems
<1> QED
  BY <1>4, <1>5, <1>6

\* A set of one element at most has one exactly when it is not empty.
LEMMA CountOne ==
  ASSUME NEW T, \A x, y \in T : x = y
  PROVE  Cardinality(T) = One(T # {})
<1>1. CASE T = {}
  BY <1>1, FS_EmptySet DEF One
<1>2. CASE T # {}
  <2>1. PICK x \in T : T = {x}
    BY <1>2
  <2> QED
    BY <1>2, <2>1, FS_Singleton DEF One
<1> QED
  BY <1>1, <1>2

-----------------------------------------------------------------------------
(* A node's steps are steps of its batcher, or leave it alone. *)

\* A worker that saves holds a message, and only then.
Carrying ==
  \A w \in Workers : IF pc[w] \in {"save", "saving"} THEN msg[w] \in Msgs ELSE msg[w] = NoMsg

LEMMA ChatStepsBatcher == Carrying /\ [ChatNext]_chatVars => [BatcherNext]_batcherVars
<1> SUFFICES ASSUME Carrying, [ChatNext]_chatVars PROVE [BatcherNext]_batcherVars
  OBVIOUS
<1>1. CASE Callback
  BY <1>1 DEF Callback, CallbackBegin, CallbackSend, CallbackPanics
<1>2. ASSUME NEW w \in Workers, Worker(w) PROVE [BatcherNext]_batcherVars
  <2>1. CASE WorkerReceive(w) \/ WorkerExit(w) \/ WorkerAck(w)
    BY <2>1 DEF WorkerReceive, WorkerExit, WorkerAck
  <2>2. CASE WorkerSave(w)
    BY <2>2 DEF WorkerSave, Carrying, BatcherNext
  <2> QED
    BY <1>2, <2>1, <2>2 DEF Worker
<1>3. CASE Cancel \/ Shutdown \/ BatcherWorker
  BY <1>3 DEF Cancel, Shutdown, Unsubscribe, CloseBuffer, StopBatcher, Exit, BatcherWorker,
              BatcherNext
<1>4. CASE UNCHANGED chatVars
  BY <1>4 DEF chatVars
<1> QED
  BY <1>1, <1>2, <1>3, <1>4 DEF ChatNext

LEMMA CarryingNext ==
  ChatTypeOK /\ Carrying /\ [ChatNext]_chatVars => Carrying'
<1> SUFFICES ASSUME ChatTypeOK, Carrying, [ChatNext]_chatVars PROVE Carrying'
  OBVIOUS
<1> USE DEF Carrying, intake, pool
<1>0. pc \in [Workers -> {"select", "save", "saving", "exited"}] /\ msg \in [Workers -> Msgs \cup {NoMsg}]
  BY DEF ChatTypeOK
<1>1. CASE Callback
  BY <1>1 DEF Callback, CallbackBegin, CallbackSend, CallbackPanics
<1>2. ASSUME NEW w \in Workers, Worker(w) PROVE Carrying'
  <2>1. CASE WorkerReceive(w)
    <3>1. Head(buffer) \in Msgs
      BY <2>1, HeadTailProperties DEF WorkerReceive, ChatTypeOK
    <3> QED
      BY <1>0, <2>1, <3>1 DEF WorkerReceive
  <2>2. CASE WorkerExit(w)
    BY <1>0, <2>2 DEF WorkerExit
  <2>3. CASE WorkerSave(w)
    BY <1>0, <2>3 DEF WorkerSave
  <2>4. CASE WorkerAck(w)
    BY <1>0, <2>4 DEF WorkerAck
  <2> QED
    BY <1>2, <2>1, <2>2, <2>3, <2>4 DEF Worker
<1>3. CASE Cancel \/ Shutdown \/ BatcherWorker
  BY <1>3 DEF Cancel, Shutdown, Unsubscribe, CloseBuffer, StopBatcher, Exit, BatcherWorker
<1>4. CASE UNCHANGED chatVars
  BY <1>4 DEF chatVars
<1> QED
  BY <1>1, <1>2, <1>3, <1>4 DEF ChatNext

LEMMA ChatTypeNext ==
  ChatTypeOK /\ Carrying /\ [ChatNext]_chatVars => ChatTypeOK'
<1> SUFFICES ASSUME ChatTypeOK, Carrying, [ChatNext]_chatVars PROVE ChatTypeOK'
  OBVIOUS
<1> USE DEF intake, pool
<1> DEFINE Others ==
      /\ upstream \in SUBSET Msgs /\ dropped \in SUBSET Msgs /\ acked \in SUBSET Msgs
      /\ subscribed \in BOOLEAN /\ closed \in BOOLEAN /\ panicked \in BOOLEAN
      /\ callback \in Msgs \cup {NoMsg}
      /\ buffer \in Seq(Msgs) /\ Len(buffer) <= BufferSize
      /\ pc \in [Workers -> {"select", "save", "saving", "exited"}]
      /\ msg \in [Workers -> Msgs \cup {NoMsg}]
<1>0. Others /\ (BatcherTypeOK' /\ Others' => ChatTypeOK')
  BY DEF ChatTypeOK
<1>b. BatcherTypeOK'
  BY ChatStepsBatcher, BatcherTypeNext DEF ChatTypeOK
<1> HIDE DEF Others
<1>1. CASE CallbackBegin \/ CallbackPanics
  BY <1>b, <1>0, <1>1 DEF CallbackBegin, CallbackPanics, Others
<1>2. CASE CallbackSend
  <2>1. callback \in Msgs /\ UNCHANGED <<upstream, acked, subscribed, closed, panicked, pc, msg>>
    BY <1>0, <1>2 DEF CallbackSend, Others
  <2>2. CASE Len(buffer) < BufferSize
    <3>1. buffer' = Append(buffer, callback) /\ dropped' = dropped /\ callback' = NoMsg
      BY <1>2, <2>2 DEF CallbackSend
    <3>2. buffer' \in Seq(Msgs) /\ Len(buffer') = Len(buffer) + 1 /\ Len(buffer) \in Nat
      BY <1>0, <2>1, <3>1, AppendProperties, LenProperties DEF Others
    <3> QED
      BY <1>b, <1>0, <2>1, <2>2, <3>1, <3>2, BufferAssumption DEF Others
  <2>3. CASE ~(Len(buffer) < BufferSize)
    BY <1>b, <1>0, <1>2, <2>1, <2>3 DEF CallbackSend, Others
  <2> QED
    BY <2>2, <2>3
<1>3. ASSUME NEW w \in Workers, Worker(w) PROVE Others'
  <2>1. CASE WorkerReceive(w)
    <3>1. /\ Head(buffer) \in Msgs /\ Tail(buffer) \in Seq(Msgs)
          /\ Len(Tail(buffer)) = Len(buffer) - 1 /\ Len(buffer) \in Nat
      BY <1>0, <2>1, HeadTailProperties, LenProperties DEF WorkerReceive, Others
    <3> QED
      BY <1>0, <2>1, <3>1, BufferAssumption DEF WorkerReceive, Others
  <2>2. CASE WorkerExit(w) \/ WorkerSave(w)
    BY <1>0, <2>2 DEF WorkerExit, WorkerSave, Others
  <2>3. CASE WorkerAck(w)
    BY <1>0, <2>3 DEF WorkerAck, Others, Carrying
  <2> QED
    BY <1>3, <2>1, <2>2, <2>3 DEF Worker
<1>4. CASE Cancel \/ Shutdown \/ BatcherWorker
  BY <1>b, <1>0, <1>4 DEF Cancel, Shutdown, Unsubscribe, CloseBuffer, StopBatcher, Exit, BatcherWorker, Others
<1>5. CASE UNCHANGED chatVars
  BY <1>b, <1>0, <1>5 DEF chatVars, Others
<1> QED
  BY <1>b, <1>0, <1>1, <1>2, <1>3, <1>4, <1>5 DEF ChatNext, Callback

ChatTyping == ChatTypeOK /\ Carrying

LEMMA ChatTypingInit == ChatInit => ChatTyping
<1> SUFFICES ASSUME ChatInit PROVE ChatTyping
  OBVIOUS
<1>1. BatcherTypeOK
  BY BatcherTypeInit DEF ChatInit
<1>2. <<>> \in Seq(Msgs) /\ Len(<<>>) <= BufferSize
  BY BufferAssumption, EmptySeq
<1> QED
  BY <1>1, <1>2 DEF ChatInit, ChatTyping, ChatTypeOK, Carrying

LEMMA ChatTypingNext == ChatTyping /\ [ChatNext]_chatVars => ChatTyping'
BY ChatTypeNext, CarryingNext DEF ChatTyping

\* The buffer of the subscriber and the channel and batch of the batcher keep
\* their bounds, and every worker is where its code is.
THEOREM ChatTyped == ChatSpec => []ChatTypeOK
<1>1. ChatTyping => ChatTypeOK
  BY DEF ChatTyping
<1> QED
  BY <1>1, ChatTypingInit, ChatTypingNext, PTL DEF ChatSpec

\* The handlers of a node call SaveMessage, Stop and the rest in no other way
\* than the batcher allows: once per message, Stop after the workers.
THEOREM ChatImplementsBatcher == ChatSpec => BatcherSafety
<1>1. ChatInit => BatcherInit
  BY DEF ChatInit
<1>2. ChatTyping /\ [ChatNext]_chatVars => [BatcherNext]_batcherVars
  BY ChatStepsBatcher DEF ChatTyping
<1> QED
  BY <1>1, <1>2, ChatTypingInit, ChatTypingNext, PTL DEF ChatSpec, BatcherSafety

-----------------------------------------------------------------------------
(* Acknowledgements.  What has gone into the channel stays there, in the     *)
(* batch or among the flushed.                                               *)

\* The channel is handed messages and gives none back.
LEMMA HandedGrows ==
  ASSUME BatcherTypeOK, [BatcherNext]_batcherVars
  PROVE  Elems(handed) \subseteq Elems(handed')
<1> USE DEF callers, work
<1>1. handed \in Seq(Msgs) /\ sendq \in Seq(Msgs)
  BY DEF BatcherTypeOK
<1>a. \A m \in Msgs : Elems(Append(handed, m)) = Elems(handed) \cup {m}
  BY <1>1, ElemsAppend
<1>2. ASSUME NEW m \in Msgs, SaveMessage(m) PROVE Elems(handed) \subseteq Elems(handed')
  BY <1>a, <1>2 DEF SaveMessage
<1>3. CASE Receive
  <2>1. sendq # <<>> => Head(sendq) \in Msgs
    BY <1>1, HeadTailProperties
  <2> QED
    BY <1>a, <1>3, <2>1 DEF Receive, TakeHead
<1>4. CASE \/ CancelContext \/ Stop \/ StopReturns \/ Tick \/ FlushEnds
           \/ SeeCancelled \/ SeeStop \/ UNCHANGED batcherVars
  BY <1>4 DEF CancelContext, Stop, StopReturns, Tick, FlushEnds, SeeCancelled, SeeStop, Leave,
              batcherVars
<1> QED
  BY <1>2, <1>3, <1>4 DEF BatcherNext, WorkerStep

AckedReturned == acked \subseteq Elems(handed)

LEMMA AckedNext ==
  ChatTyping /\ AckedReturned /\ [ChatNext]_chatVars => AckedReturned'
<1> SUFFICES ASSUME ChatTyping, AckedReturned, [ChatNext]_chatVars PROVE AckedReturned'
  OBVIOUS
<1> USE DEF intake, pool
<1>1. Elems(handed) \subseteq Elems(handed')
  BY HandedGrows, ChatStepsBatcher DEF ChatTyping, ChatTypeOK
<1>2. acked' \subseteq acked \cup Elems(handed)
  <2>1. ASSUME NEW w \in Workers, Worker(w) PROVE acked' \subseteq acked \cup Elems(handed)
    BY <2>1 DEF Worker, WorkerReceive, WorkerExit, WorkerSave, WorkerAck, Returned
  <2>2. CASE Callback \/ Cancel \/ Shutdown \/ BatcherWorker \/ UNCHANGED chatVars
    BY <2>2 DEF Callback, CallbackBegin, CallbackSend, CallbackPanics, Cancel, Shutdown,
                Unsubscribe, CloseBuffer, StopBatcher, Exit, BatcherWorker, chatVars
  <2> QED
    BY <2>1, <2>2 DEF ChatNext
<1> QED
  BY <1>1, <1>2 DEF AckedReturned

\* The elements of what was handed over, by where they are.
LEMMA HandedElems ==
  ASSUME BatcherTypeOK, InOrderOnce
  PROVE  Elems(handed) = Elems(flushed) \cup Elems(batch) \cup Elems(queue)
<1> DEFINE past == flushed \o batch
<1>1. flushed \in Seq(Msgs) /\ batch \in Seq(Msgs) /\ queue \in Seq(Msgs)
  BY DEF BatcherTypeOK
<1>2. past \in Seq(Msgs) /\ handed = past \o queue
  BY <1>1, ConcatProperties DEF InOrderOnce
<1>3. Elems(past) = Elems(flushed) \cup Elems(batch)
  BY <1>1, ElemsConcat
<1> HIDE DEF past
<1>4. Elems(past \o queue) = Elems(past) \cup Elems(queue)
  BY <1>1, <1>2, ElemsConcat
<1> QED
  BY <1>2, <1>3, <1>4

\* As long as the node is not told to stop, whoever was sent an acknowledgement
\* (chat_handler.go, after SaveMessage) has its message in the database, in the
\* batcher's channel or in its batch, or PostgreSQL refused the batch.
THEOREM ChatAckedIsKept == ChatSpec => []AckedIsKept
<1>1. ChatInit => AckedReturned
  BY DEF ChatInit, AckedReturned
<1>2. ChatTyping /\ AckedReturned /\ InOrderOnce /\ FlushedIsKept => AckedIsKept
  BY HandedElems DEF ChatTyping, ChatTypeOK, AckedReturned, FlushedIsKept, AckedIsKept
<1> QED
  BY <1>1, <1>2, AckedNext, ChatTypingInit, ChatTypingNext, ChatImplementsBatcher,
     BatcherInOrderOnce, BatcherFlushedIsKept, PTL
  DEF ChatSpec

-----------------------------------------------------------------------------
(* Shutdown.  A message waits for room in the channel only while a worker is *)
(* in SaveMessage with it.                                                   *)

Savers == {v \in Workers : pc[v] = "saving"}
Blocked == Elems(sendq) \subseteq {msg[w] : w \in Savers}

\* Nothing that was handed over waits for room.
LEMMA FreshApart ==
  ASSUME BatcherTypeOK, Fresh
  PROVE  Elems(handed) \cap Elems(sendq) = {}
<1> SUFFICES ASSUME NEW i \in DOMAIN handed, NEW j \in DOMAIN sendq, handed[i] = sendq[j]
             PROVE  FALSE
  BY DEF Elems
<1> DEFINE k == j + Len(handed)
<1>1. handed \in Seq(Msgs) /\ sendq \in Seq(Msgs)
  BY DEF BatcherTypeOK
<1>2. /\ DOMAIN handed = 1 .. Len(handed) /\ DOMAIN sendq = 1 .. Len(sendq)
      /\ Len(handed) \in Nat /\ Len(sendq) \in Nat
      /\ DOMAIN (handed \o sendq) = 1 .. Len(handed) + Len(sendq)
      /\ \A x \in 1 .. Len(handed) + Len(sendq) :
           (handed \o sendq)[x] = IF x <= Len(handed) THEN handed[x] ELSE sendq[x - Len(handed)]
  BY <1>1, ConcatProperties, LenProperties
<1>3. k \in DOMAIN (handed \o sendq) /\ ~(k <= Len(handed)) /\ k - Len(handed) = j
  BY <1>2
<1>4. i \in DOMAIN (handed \o sendq) /\ i <= Len(handed) /\ i # k
  BY <1>2
<1>5. (handed \o sendq)[k] = sendq[j] /\ (handed \o sendq)[i] = handed[i]
  BY <1>2, <1>3, <1>4
<1> QED
  BY <1>3, <1>4, <1>5 DEF Fresh, Distinct

\* A call of SaveMessage may have to wait for room; the worker only lets callers in.
LEMMA SendqSave ==
  ASSUME BatcherTypeOK, NEW m \in Msgs, SaveMessage(m)
  PROVE  Elems(sendq') \subseteq Elems(sendq) \cup {m}
<1>1. Elems(Append(sendq, m)) = Elems(sendq) \cup {m}
  BY ElemsAppend DEF BatcherTypeOK
<1> QED
  BY <1>1 DEF SaveMessage

LEMMA SendqWork ==
  ASSUME BatcherTypeOK, WorkerStep
  PROVE  Elems(sendq') \subseteq Elems(sendq)
<1>1. CASE Receive
  <2>1. CASE sendq = <<>>
    BY <1>1, <2>1 DEF Receive, TakeHead
  <2>2. CASE sendq # <<>>
    <3>1. Elems(Tail(sendq)) \subseteq Elems(sendq)
      BY <2>2, ElemsTail DEF BatcherTypeOK
    <3> QED
      BY <1>1, <2>2, <3>1 DEF Receive, TakeHead
  <2> QED
    BY <2>1, <2>2
<1>2. CASE Tick \/ FlushEnds \/ SeeCancelled \/ SeeStop
  BY <1>2 DEF Tick, FlushEnds, SeeCancelled, SeeStop, Leave, callers
<1> QED
  BY <1>1, <1>2 DEF WorkerStep

LEMMA BlockedNext ==
  ChatTyping /\ Fresh /\ Blocked /\ [ChatNext]_chatVars => Blocked'
<1> SUFFICES ASSUME ChatTyping, Fresh, Blocked, [ChatNext]_chatVars PROVE Blocked'
  OBVIOUS
<1> USE DEF intake, pool
<1>0. /\ BatcherTypeOK /\ Carrying
      /\ pc \in [Workers -> {"select", "save", "saving", "exited"}]
      /\ msg \in [Workers -> Msgs \cup {NoMsg}]
  BY DEF ChatTyping, ChatTypeOK
<1>1. ASSUME NEW w \in Workers, Worker(w) PROVE Blocked'
  <2>1. CASE WorkerReceive(w) \/ WorkerExit(w)
    <3>1. sendq' = sendq /\ Savers' = Savers /\ \A v \in Savers : msg'[v] = msg[v]
      BY <1>0, <2>1 DEF WorkerReceive, WorkerExit, batcherVars, Savers
    <3> QED
      BY <3>1 DEF Blocked
  <2>2. CASE WorkerSave(w)
    <3>1. msg[w] \in Msgs /\ SaveMessage(msg[w])
      BY <1>0, <2>2 DEF WorkerSave, Carrying
    <3>2. Elems(sendq') \subseteq Elems(sendq) \cup {msg[w]}
      BY <1>0, <3>1, SendqSave
    <3>3. Savers' = Savers \cup {w} /\ msg' = msg
      BY <1>0, <2>2 DEF WorkerSave, Savers
    <3> QED
      BY <3>2, <3>3 DEF Blocked
  <2>3. CASE WorkerAck(w)
    <3>1. sendq' = sendq /\ msg[w] \notin Elems(sendq)
      BY <1>0, <2>3, FreshApart DEF WorkerAck, Returned, batcherVars
    <3>2. Savers' = Savers \ {w} /\ \A v \in Savers \ {w} : msg'[v] = msg[v]
      BY <1>0, <2>3 DEF WorkerAck, Savers
    <3> QED
      BY <3>1, <3>2 DEF Blocked
  <2> QED
    BY <1>1, <2>1, <2>2, <2>3 DEF Worker
<1>2. CASE BatcherWorker
  <2>1. Elems(sendq') \subseteq Elems(sendq) /\ UNCHANGED <<pc, msg>>
    BY <1>0, <1>2, SendqWork DEF BatcherWorker
  <2> QED
    BY <2>1 DEF Blocked, Savers
<1>3. CASE Callback \/ Cancel \/ Shutdown \/ UNCHANGED chatVars
  <2>1. UNCHANGED <<sendq, pc, msg>>
    BY <1>3 DEF Callback, CallbackBegin, CallbackSend, CallbackPanics, Cancel, CancelContext,
                Shutdown, Unsubscribe, CloseBuffer, StopBatcher, Stop, Exit, StopReturns,
                chatVars, batcherVars, callers
  <2> QED
    BY <2>1 DEF Blocked, Savers
<1> QED
  BY <1>1, <1>2, <1>3 DEF ChatNext

\* Stop is called when the workers are gone, and none comes back.
WorkersGone == stop # "none" => \A w \in Workers : pc[w] = "exited"

LEMMA WorkersGoneNext ==
  ChatTyping /\ WorkersGone /\ [ChatNext]_chatVars => WorkersGone'
<1> SUFFICES ASSUME ChatTyping, WorkersGone, [ChatNext]_chatVars PROVE WorkersGone'
  OBVIOUS
<1> USE DEF intake, pool, WorkersGone
<1>0. pc \in [Workers -> {"select", "save", "saving", "exited"}]
  BY DEF ChatTyping, ChatTypeOK
<1>1. ASSUME NEW w \in Workers, Worker(w) PROVE WorkersGone'
  <2>1. pc[w] # "exited" /\ stop' = stop
    BY <1>1 DEF Worker, WorkerReceive, WorkerExit, WorkerSave, WorkerAck, SaveMessage, batcherVars
  <2> QED
    BY <2>1
<1>2. CASE StopBatcher
  BY <1>2 DEF StopBatcher
<1>3. CASE Exit
  BY <1>3 DEF Exit, StopReturns
<1>4. CASE Callback \/ Cancel \/ Unsubscribe \/ CloseBuffer \/ BatcherWorker \/ UNCHANGED chatVars
  <2>1. UNCHANGED <<stop, pc>>
    BY <1>4 DEF Callback, CallbackBegin, CallbackSend, CallbackPanics, Cancel, CancelContext,
                Unsubscribe, CloseBuffer, BatcherWorker, WorkerStep, Receive, Tick, SeeCancelled,
                SeeStop, Leave, FlushEnds, chatVars, batcherVars
  <2> QED
    BY <2>1
<1> QED
  BY <1>1, <1>2, <1>3, <1>4 DEF ChatNext, Shutdown

\* A node has the order of main.go right: when the batcher is told to stop, no
\* handler is in SaveMessage and none will call it, so no call is left waiting
\* for a worker that is gone.
THEOREM ChatStoppedWhenQuiet == ChatSpec => []StoppedWhenQuiet
<1>1. ChatInit => Fresh /\ Blocked /\ WorkersGone
  <2> SUFFICES ASSUME ChatInit PROVE Fresh /\ Blocked /\ WorkersGone
    OBVIOUS
  <2>1. sendq = <<>> /\ handed \o sendq = <<>> /\ stop = "none"
    BY EmptySeq, ConcatEmptySeq DEF ChatInit, BatcherInit
  <2> QED
    BY <2>1 DEF Fresh, Distinct, Blocked, Elems, WorkersGone
<1>2. ChatTyping /\ Fresh /\ [ChatNext]_chatVars => Fresh'
  BY ChatStepsBatcher, FreshNext DEF ChatTyping, ChatTypeOK
<1>3. ChatTyping /\ Blocked /\ WorkersGone => StoppedWhenQuiet
  <2> SUFFICES ASSUME ChatTyping, Blocked, WorkersGone, stop # "none"
               PROVE  sendq = <<>> /\ \A w \in Workers : pc[w] = "exited"
    BY DEF StoppedWhenQuiet
  <2>1. \A w \in Workers : pc[w] = "exited"
    BY DEF WorkersGone
  <2>2. Elems(sendq) = {}
    BY <2>1 DEF Blocked, Savers
  <2>3. sendq \in Seq(Msgs)
    BY DEF ChatTyping, ChatTypeOK, BatcherTypeOK
  <2>4. sendq = <<>>
    BY <2>2, <2>3, ElemsTail
  <2> QED
    BY <2>1, <2>4
<1> QED
  BY <1>1, <1>2, <1>3, BlockedNext, WorkersGoneNext, ChatTypingInit, ChatTypingNext, PTL
  DEF ChatSpec

-----------------------------------------------------------------------------
(* One place.  The buffer has no message twice and no two workers hold the   *)
(* same unsaved one, so that it is enough to say in which parts of the node  *)
(* a message is.                                                             *)

AtWorker(m) == \E w \in Workers : msg[w] = m /\ pc[w] = "save"

NoDoubles ==
  /\ Distinct(buffer)
  /\ \A v, w \in Workers : pc[v] = "save" /\ pc[w] = "save" /\ msg[v] = msg[w] => v = w

Placed ==
  \A m \in Msgs :
    1 = One(m \in upstream) + One(m = callback) + One(m \in dropped) + One(Saved(m))
          + One(m \in Elems(buffer)) + One(AtWorker(m))

LEMMA PlacedIsOnePlace ==
  ASSUME ChatTyping, NoDoubles, Placed
  PROVE  OnePlace
<1> SUFFICES ASSUME NEW m \in Msgs
             PROVE  /\ Cardinality({i \in DOMAIN buffer : buffer[i] = m}) = One(m \in Elems(buffer))
                    /\ Cardinality({w \in Workers : msg[w] = m /\ pc[w] = "save"}) = One(AtWorker(m))
  BY DEF Placed, OnePlace
<1> DEFINE I == {i \in DOMAIN buffer : buffer[i] = m}
           W == {w \in Workers : msg[w] = m /\ pc[w] = "save"}
<1>1. (\A i, j \in I : i = j) /\ (\A v, w \in W : v = w)
  BY DEF NoDoubles, Distinct
<1>2. (m \in Elems(buffer) <=> I # {}) /\ (AtWorker(m) <=> W # {})
  BY DEF Elems, AtWorker
<1>3. Cardinality(I) = One(I # {}) /\ Cardinality(W) = One(W # {})
  BY <1>1, CountOne
<1> QED
  BY <1>2, <1>3 DEF One

\* The steps of the batcher and its Stop save nothing new.
LEMMA SavedKept ==
  ASSUME BatcherTypeOK, WorkerStep \/ CancelContext \/ Stop \/ StopReturns, NEW m
  PROVE  Saved(m)' <=> Saved(m)
<1> USE DEF callers, work
<1>1. CASE Receive
  <2>1. CASE sendq = <<>>
    BY <1>1, <2>1 DEF Receive, TakeHead, Saved
  <2>2. CASE sendq # <<>>
    <3>1. sendq \in Seq(Msgs) /\ handed \in Seq(Msgs) /\ Head(sendq) \in Msgs
      BY <2>2, HeadTailProperties DEF BatcherTypeOK
    <3>2. Elems(sendq) = Elems(Tail(sendq)) \cup {Head(sendq)}
      BY <2>2, <3>1, ElemsTail
    <3>3. Elems(Append(handed, Head(sendq))) = Elems(handed) \cup {Head(sendq)}
      BY <3>1, ElemsAppend
    <3>4. sendq' = Tail(sendq) /\ handed' = Append(handed, Head(sendq))
      BY <1>1, <2>2 DEF Receive, TakeHead
    <3> QED
      BY <3>2, <3>3, <3>4 DEF Saved
  <2> QED
    BY <2>1, <2>2
<1>2. CASE \/ Tick \/ FlushEnds \/ SeeCancelled \/ SeeStop
           \/ CancelContext \/ Stop \/ StopReturns
  BY <1>2 DEF Tick, FlushEnds, SeeCancelled, SeeStop, Leave, CancelContext, Stop, StopReturns, Saved
<1> QED
  BY <1>1, <1>2 DEF WorkerStep

LEMMA SavedBySave ==
  ASSUME BatcherTypeOK, NEW m \in Msgs, SaveMessage(m), NEW x
  PROVE  Saved(x)' <=> Saved(x) \/ x = m
<1>1. /\ Elems(Append(handed, m)) = Elems(handed) \cup {m}
      /\ Elems(Append(sendq, m)) = Elems(sendq) \cup {m}
  BY ElemsAppend DEF BatcherTypeOK
<1>2. \/ handed' = Append(handed, m) /\ sendq' = sendq
      \/ handed' = handed /\ sendq' = Append(sendq, m)
  BY DEF SaveMessage
<1>3. Elems(sendq') \cup Elems(handed') = Elems(sendq) \cup Elems(handed) \cup {m}
  BY <1>1, <1>2
<1>4. Saved(x)' <=> x \in Elems(sendq') \cup Elems(handed')
  BY DEF Saved, Elems
<1> QED
  BY <1>3, <1>4 DEF Saved

\* A message that is in one part is in no other.
LEMMA Apart ==
  ASSUME Placed, NEW m \in Msgs
  PROVE  /\ m = callback => ~(m \in Elems(buffer) \/ m \in dropped \/ m \in upstream)
         /\ m \in Elems(buffer) => ~AtWorker(m)
         /\ AtWorker(m) => ~Saved(m)
BY DEF Placed, One

LEMMA PlacedNext ==
  ChatTyping /\ NoDoubles /\ Placed /\ [ChatNext]_chatVars => NoDoubles' /\ Placed'
<1> SUFFICES ASSUME ChatTyping, NoDoubles, Placed, [ChatNext]_chatVars
             PROVE  NoDoubles' /\ Placed'
  OBVIOUS
<1> USE DEF intake, pool
<1>0. /\ BatcherTypeOK /\ Carrying /\ buffer \in Seq(Msgs) /\ callback \in Msgs \cup {NoMsg}
      /\ pc \in [Workers -> {"select", "save", "saving", "exited"}]
      /\ msg \in [Workers -> Msgs \cup {NoMsg}]
  BY DEF ChatTyping, ChatTypeOK
<1>1. CASE CallbackBegin
  <2>1. UNCHANGED <<dropped, buffer, pc, msg, batcherVars>>
    BY <1>1 DEF CallbackBegin
  <2>2. /\ NoDoubles' /\ \A m \in Msgs : /\ (m \in dropped)' <=> m \in dropped
                                         /\ Saved(m)' <=> Saved(m)
                                         /\ (m \in Elems(buffer))' <=> m \in Elems(buffer)
                                         /\ AtWorker(m)' <=> AtWorker(m)
    BY <2>1 DEF NoDoubles, Saved, AtWorker, batcherVars
  <2>3. PICK x \in upstream : upstream' = upstream \ {x} /\ callback' = x
    BY <1>1 DEF CallbackBegin
  <2>4. callback = NoMsg
    BY <1>1 DEF CallbackBegin
  <2>5. \A m \in Msgs : One(m \in upstream) + One(m = callback) =
                        One(m \in upstream') + One(m = callback')
    BY <2>3, <2>4, NoMsgAssumption DEF One
  <2> QED
    BY <2>2, <2>5 DEF Placed, One
<1>2. CASE CallbackSend
  <2>1. UNCHANGED <<upstream, pc, msg, batcherVars>> /\ callback \in Msgs /\ callback' = NoMsg
    BY <1>0, <1>2 DEF CallbackSend
  <2>2. \A m \in Msgs : /\ (m \in upstream)' <=> m \in upstream
                        /\ Saved(m)' <=> Saved(m)
                        /\ AtWorker(m)' <=> AtWorker(m)
                        /\ ~(m = callback)'
    BY <2>1, NoMsgAssumption DEF Saved, AtWorker, batcherVars
  <2>3. CASE buffer' = Append(buffer, callback) /\ dropped' = dropped
    <3>1. Elems(buffer') = Elems(buffer) \cup {callback}
      BY <1>0, <2>1, <2>3, ElemsAppend
    <3>2. \A i \in DOMAIN buffer : buffer[i] # callback
      BY <2>1, Apart DEF Elems
    <3>3. Distinct(buffer')
      BY <1>0, <2>1, <2>3, <3>2, DistinctAppend DEF NoDoubles
    <3>4. NoDoubles'
      BY <2>1, <3>3 DEF NoDoubles
    <3> QED
      BY <2>1, <2>2, <2>3, <3>1, <3>4, Apart DEF Placed, One
  <2>4. CASE dropped' = dropped \cup {callback} /\ buffer' = buffer
    <3>1. NoDoubles'
      BY <2>1, <2>4 DEF NoDoubles
    <3> QED
      BY <2>1, <2>2, <2>4, <3>1, Apart DEF Placed, One
  <2> QED
    BY <1>2, <2>3, <2>4 DEF CallbackSend
<1>3. ASSUME NEW w \in Workers, Worker(w) PROVE NoDoubles' /\ Placed'
  <2>1. CASE WorkerReceive(w)
    <3>1. /\ UNCHANGED <<upstream, callback, dropped, batcherVars>> /\ buffer # <<>>
          /\ buffer' = Tail(buffer) /\ pc[w] = "select"
          /\ pc' = [pc EXCEPT ![w] = "save"] /\ msg' = [msg EXCEPT ![w] = Head(buffer)]
      BY <2>1 DEF WorkerReceive
    <3>2. /\ Head(buffer) \in Elems(buffer) /\ Elems(buffer) = Elems(buffer') \cup {Head(buffer)}
          /\ Distinct(buffer') /\ Head(buffer) \notin Elems(buffer')
          /\ Head(buffer) \in Msgs
      BY <1>0, <3>1, ElemsTail, HeadTailProperties DEF NoDoubles
    <3>3. \A m \in Msgs : AtWorker(m)' <=> AtWorker(m) \/ m = Head(buffer)
      BY <1>0, <3>1 DEF AtWorker
    <3>4. ~AtWorker(Head(buffer))
      BY <3>2, Apart
    <3>5. NoDoubles'
      BY <1>0, <3>1, <3>2, <3>4 DEF NoDoubles, AtWorker
    <3>6. \A m \in Msgs : Saved(m)' <=> Saved(m)
      BY <3>1 DEF Saved, batcherVars
    <3> QED
      BY <3>1, <3>2, <3>3, <3>4, <3>5, <3>6 DEF Placed, One
  <2>2. CASE WorkerExit(w) \/ WorkerAck(w)
    <3>1. UNCHANGED <<upstream, callback, dropped, buffer, batcherVars>>
      BY <2>2 DEF WorkerExit, WorkerAck
    <3>2. /\ pc[w] # "save" /\ pc'[w] # "save"
          /\ \A v \in Workers \ {w} : pc'[v] = pc[v] /\ msg'[v] = msg[v]
      BY <1>0, <2>2 DEF WorkerExit, WorkerAck
    <3>3. \A m \in Msgs : (AtWorker(m)' <=> AtWorker(m)) /\ (Saved(m)' <=> Saved(m))
      BY <3>1, <3>2 DEF AtWorker, Saved, batcherVars
    <3>4. NoDoubles'
      BY <3>1, <3>2 DEF NoDoubles
    <3> QED
      BY <3>1, <3>3, <3>4 DEF Placed, One
  <2>3. CASE WorkerSave(w)
    <3>1. /\ UNCHANGED <<upstream, callback, dropped, buffer, msg>> /\ pc[w] = "save"
          /\ pc' = [pc EXCEPT ![w] = "saving"] /\ SaveMessage(msg[w]) /\ msg[w] \in Msgs
      BY <1>0, <2>3 DEF WorkerSave, Carrying
    <3>2. \A m \in Msgs : Saved(m)' <=> Saved(m) \/ m = msg[w]
      BY <1>0, <3>1, SavedBySave
    <3>3. \A m \in Msgs : AtWorker(m)' <=> AtWorker(m) /\ m # msg[w]
      BY <1>0, <3>1 DEF AtWorker, NoDoubles
    <3>4. AtWorker(msg[w]) /\ ~Saved(msg[w])
      BY <3>1, Apart DEF AtWorker
    <3>5. NoDoubles'
      BY <1>0, <3>1 DEF NoDoubles
    <3> QED
      BY <3>1, <3>2, <3>3, <3>4, <3>5 DEF Placed, One
  <2> QED
    BY <1>3, <2>1, <2>2, <2>3 DEF Worker
<1>4. CASE Cancel \/ StopBatcher \/ Exit \/ BatcherWorker
  <2>1. UNCHANGED <<intake, pool>>
    BY <1>4 DEF Cancel, StopBatcher, Exit, BatcherWorker
  <2>2. \A m \in Msgs : Saved(m)' <=> Saved(m)
    BY <1>0, <1>4, SavedKept DEF Cancel, StopBatcher, Exit, BatcherWorker
  <2> QED
    BY <2>1, <2>2 DEF NoDoubles, Placed, One, AtWorker
<1>5. CASE CallbackPanics \/ Unsubscribe \/ CloseBuffer \/ UNCHANGED chatVars
  <2>1. UNCHANGED <<upstream, callback, dropped, buffer, pc, msg, batcherVars>>
    BY <1>5 DEF CallbackPanics, Unsubscribe, CloseBuffer, chatVars
  <2> QED
    BY <2>1 DEF NoDoubles, Placed, One, AtWorker, Saved, batcherVars
<1> QED
  BY <1>1, <1>2, <1>3, <1>4, <1>5 DEF ChatNext, Callback, Shutdown

\* From NATS to the batcher a message is in exactly one place or among those
\* dropped for want of room: the callback, the buffer and the workers hand it on
\* without doubling or losing it, also while the node shuts down.
THEOREM ChatOnePlace == ChatSpec => []OnePlace
<1>1. ChatInit => NoDoubles /\ Placed
  <2> SUFFICES ASSUME ChatInit PROVE NoDoubles /\ Placed
    OBVIOUS
  <2>1. Elems(<<>>) = {} /\ Distinct(<<>>)
    BY EmptySeq DEF Elems, Distinct
  <2>2. NoDoubles
    BY <2>1 DEF ChatInit, NoDoubles
  <2>3. \A m \in Msgs : /\ m \in upstream /\ m # callback /\ m \notin dropped
                        /\ ~Saved(m) /\ m \notin Elems(buffer) /\ ~AtWorker(m)
    BY <2>1, NoMsgAssumption DEF ChatInit, BatcherInit, Saved, AtWorker
  <2> QED
    BY <2>2, <2>3 DEF Placed, One
<1> QED
  BY <1>1, PlacedNext, PlacedIsOnePlace, ChatTypingInit, ChatTypingNext, PTL DEF ChatSpec
=============================================================================
