------------------------ MODULE MessageBatcherProofs ------------------------
(***************************************************************************)
(* Theorems about MessageBatcher, for any messages, batch size and channel *)
(* capacity, with or without database errors, and whether its worker runs  *)
(* or not.                                                                 *)
(***************************************************************************)
EXTENDS MessageBatcher, SequenceTheorems, TLAPS

-----------------------------------------------------------------------------
(* Sequences *)

\* Appending commutes with concatenating in front.
LEMMA AppendConcat ==
  ASSUME NEW S, NEW a \in Seq(S), NEW b \in Seq(S), NEW x \in S
  PROVE  a \o Append(b, x) = Append(a \o b, x)
<1>1. a \o Append(b, x) \in Seq(S) /\ Append(a \o b, x) \in Seq(S)
  BY ConcatProperties
<1> DEFINE n == Len(a) + Len(b)
<1>2. Len(a) \in Nat /\ Len(b) \in Nat /\ Len(a \o b) = n /\ a \o b \in Seq(S)
  BY ConcatProperties, LenProperties
<1>3. /\ Len(Append(b, x)) = Len(b) + 1
      /\ \A i \in 1 .. Len(b) : Append(b, x)[i] = b[i]
      /\ Append(b, x)[Len(b) + 1] = x
  BY <1>2
<1>4. /\ Len(Append(a \o b, x)) = n + 1
      /\ \A i \in 1 .. n : Append(a \o b, x)[i] = (a \o b)[i]
      /\ Append(a \o b, x)[n + 1] = x
  BY <1>2
<1>5. /\ Len(a \o Append(b, x)) = n + 1
      /\ \A i \in 1 .. n + 1 :
           (a \o Append(b, x))[i] = IF i <= Len(a) THEN a[i] ELSE Append(b, x)[i - Len(a)]
  BY <1>2, <1>3, ConcatProperties
<1>6. \A i \in 1 .. n : (a \o b)[i] = IF i <= Len(a) THEN a[i] ELSE b[i - Len(a)]
  BY ConcatProperties
<1>7. \A i \in 1 .. n + 1 : (a \o Append(b, x))[i] = Append(a \o b, x)[i]
  BY <1>2, <1>3, <1>4, <1>5, <1>6
<1> QED
  BY <1>1, <1>4, <1>5, <1>7, SeqEqual

\* Moving the head of one sequence to the end of another keeps their
\* concatenation.
LEMMA ShiftHead ==
  ASSUME NEW S, NEW a \in Seq(S), NEW b \in Seq(S), b # <<>>
  PROVE  Append(a, Head(b)) \o Tail(b) = a \o b
<1>1. Head(b) \in S /\ Tail(b) \in Seq(S) /\ b = <<Head(b)>> \o Tail(b)
  OBVIOUS
<1>2. Append(a, Head(b)) = a \o <<Head(b)>>
  BY <1>1
<1> QED
  BY <1>1, <1>2, ConcatAssociative

-----------------------------------------------------------------------------
(* Type correctness. *)

LEMMA BatcherTypeInit == BatcherInit => BatcherTypeOK
<1> SUFFICES ASSUME BatcherInit PROVE BatcherTypeOK
  OBVIOUS
<1>1. <<>> \in Seq(Msgs) /\ Len(<<>>) = 0
  BY EmptySeq
<1>2. Len(queue) <= QueueCap /\ Len(batch) < BatchSize /\ Len(batch) <= BatchSize
  BY <1>1, BatchAssumption DEF BatcherInit
<1> QED
  BY <1>1, <1>2 DEF BatcherInit, BatcherTypeOK

\* A sender waits only at a full channel, and the channel keeps its bound.
Channel == /\ sendq \in Seq(Msgs) /\ queue \in Seq(Msgs) /\ handed \in Seq(Msgs)
           /\ Len(queue) <= QueueCap
           /\ sendq # <<>> => Len(queue) = QueueCap

LEMMA ChannelSave ==
  ASSUME Channel, NEW m \in Msgs, SaveMessage(m)
  PROVE  Channel'
<1>1. Len(queue) \in Nat /\ QueueCap \in Nat
  BY BatchAssumption DEF Channel
<1>2. CASE Len(queue) < QueueCap
  <2>1. queue' = Append(queue, m) /\ handed' = Append(handed, m) /\ sendq' = sendq
    BY <1>2 DEF SaveMessage
  <2>2. sendq = <<>>
    BY <1>1, <1>2 DEF Channel
  <2>3. Len(queue') = Len(queue) + 1 /\ queue' \in Seq(Msgs) /\ handed' \in Seq(Msgs)
    BY <2>1 DEF Channel
  <2> QED
    BY <1>1, <1>2, <2>1, <2>2, <2>3 DEF Channel
<1>3. CASE ~(Len(queue) < QueueCap)
  <2>1. sendq' = Append(sendq, m) /\ queue' = queue /\ handed' = handed
    BY <1>3 DEF SaveMessage
  <2>2. Len(queue) = QueueCap
    BY <1>1, <1>3 DEF Channel
  <2> QED
    BY <2>1, <2>2 DEF Channel
<1> QED
  BY <1>2, <1>3

LEMMA ChannelTake ==
  ASSUME Channel, TakeHead
  PROVE  Channel'
<1>1. /\ Len(queue) \in Nat /\ QueueCap \in Nat /\ queue # <<>>
      /\ Tail(queue) \in Seq(Msgs) /\ Len(Tail(queue)) = Len(queue) - 1
  BY BatchAssumption DEF Channel, TakeHead
<1>2. CASE sendq = <<>>
  <2>1. queue' = Tail(queue) /\ sendq' = sendq /\ handed' = handed
    BY <1>2 DEF TakeHead
  <2> QED
    BY <1>1, <1>2, <2>1 DEF Channel
<1>3. CASE sendq # <<>>
  <2>1. Head(sendq) \in Msgs /\ Tail(sendq) \in Seq(Msgs)
    BY <1>3 DEF Channel
  <2>2. /\ queue' = Append(Tail(queue), Head(sendq))
        /\ handed' = Append(handed, Head(sendq)) /\ sendq' = Tail(sendq)
    BY <1>3 DEF TakeHead
  <2>3. Len(queue) = QueueCap
    BY <1>3 DEF Channel
  <2>4. queue' \in Seq(Msgs) /\ handed' \in Seq(Msgs) /\ Len(queue') = QueueCap
    BY <1>1, <2>1, <2>2, <2>3 DEF Channel
  <2> QED
    BY <1>1, <2>1, <2>2, <2>4 DEF Channel
<1> QED
  BY <1>2, <1>3

LEMMA BatcherTypeNext == BatcherTypeOK /\ [BatcherNext]_batcherVars => BatcherTypeOK'
<1> SUFFICES ASSUME BatcherTypeOK, [BatcherNext]_batcherVars PROVE BatcherTypeOK'
  OBVIOUS
<1> USE DEF callers, work
<1>0. Channel /\ (Channel' /\ UNCHANGED <<work, cancelled, stop>> => BatcherTypeOK')
  BY DEF Channel, BatcherTypeOK
<1>1. ASSUME NEW m \in Msgs, SaveMessage(m) PROVE BatcherTypeOK'
  BY <1>0, <1>1, ChannelSave DEF SaveMessage
<1>2. CASE CancelContext \/ Stop \/ StopReturns
  BY <1>2 DEF CancelContext, Stop, StopReturns, BatcherTypeOK
<1>3. CASE Receive
  <2>1. Channel'
    BY <1>0, <1>3, ChannelTake DEF Receive
  <2>2. /\ batch' = Append(batch, Head(queue)) /\ Head(queue) \in Msgs
        /\ batch \in Seq(Msgs) /\ Len(batch) \in Nat /\ Len(batch) <= BatchSize
        /\ UNCHANGED <<leaving, cancelled, stop, stored, flushed, refused>>
    BY <1>3 DEF Receive, Collected, TakeHead, BatcherTypeOK
  <2>3. worker' \in {"select", "flush", "exited"}
    BY <1>3 DEF Receive, BatcherTypeOK
  <2>4. doomed' = doomed \/ doomed' = cancelled
    BY <1>3, Zenon DEF Receive
  <2>5. doomed' \in BOOLEAN
    BY <2>4, Zenon DEF BatcherTypeOK
  <2>6. batch' \in Seq(Msgs) /\ Len(batch') = Len(batch) + 1
    BY <2>2
  <2>7. Len(batch) < BatchSize /\ (Len(batch') < BatchSize \/ worker' = "flush")
    <3>1. Len(batch') < BatchSize \/ Len(batch') >= BatchSize
      BY <2>2, <2>6, BatchAssumption
    <3>2. Len(batch') >= BatchSize => worker' = "flush"
      BY <1>3, Zenon DEF Receive
    <3>3. worker = "select"
      BY <1>3 DEF Receive
    <3> QED
      BY <3>1, <3>2, <3>3 DEF BatcherTypeOK
  <2>8. Len(batch') <= BatchSize /\ (worker' = "select" => Len(batch') < BatchSize)
    BY <2>2, <2>6, <2>7, BatchAssumption
  <2> QED
    BY <2>1, <2>2, <2>3, <2>5, <2>6, <2>8 DEF Channel, BatcherTypeOK
<1>4. CASE Tick \/ SeeCancelled \/ SeeStop
  BY <1>4 DEF Tick, SeeCancelled, SeeStop, Leave, BatcherTypeOK
<1>5. CASE FlushEnds
  <2>1. /\ batch' \in Seq(Msgs) /\ Len(batch') < BatchSize /\ Len(batch') <= BatchSize
        /\ flushed' \in Seq(Msgs)
    BY <1>5, BatchAssumption, EmptySeq, ConcatProperties DEF FlushEnds, BatcherTypeOK
  <2>2. stored' \in SUBSET Msgs /\ refused' \in SUBSET Msgs
    BY <1>5, LenProperties DEF FlushEnds, BatcherTypeOK, Elems
  <2>3. doomed' \in BOOLEAN /\ worker' \in {"select", "flush", "exited"}
    BY <1>5 DEF FlushEnds
  <2> QED
    BY <1>5, <2>1, <2>2, <2>3 DEF FlushEnds, BatcherTypeOK
<1>6. CASE UNCHANGED batcherVars
  BY <1>6 DEF batcherVars, BatcherTypeOK
<1> QED
  BY <1>1, <1>2, <1>3, <1>4, <1>5, <1>6 DEF BatcherNext, WorkerStep

\* The channel never holds more than its capacity nor the batch more than its
\* size, callers block only on a full channel, and all variables are typed.
THEOREM BatcherTyped == BatcherSafety => []BatcherTypeOK
BY BatcherTypeInit, BatcherTypeNext, PTL DEF BatcherSafety

-----------------------------------------------------------------------------
(* Order and conservation. *)

LEMMA InOrderNext ==
  BatcherTypeOK /\ InOrderOnce /\ [BatcherNext]_batcherVars => InOrderOnce'
<1> SUFFICES ASSUME BatcherTypeOK, InOrderOnce, [BatcherNext]_batcherVars
             PROVE  InOrderOnce'
  OBVIOUS
<1> USE DEF callers, work
<1> DEFINE past == flushed \o batch
<1>1. /\ flushed \in Seq(Msgs) /\ batch \in Seq(Msgs) /\ queue \in Seq(Msgs)
      /\ past \in Seq(Msgs) /\ handed = past \o queue
  BY ConcatProperties DEF BatcherTypeOK, InOrderOnce
<1>2. ASSUME NEW m \in Msgs, SaveMessage(m) PROVE InOrderOnce'
  <2>1. CASE UNCHANGED <<queue, handed>>
    BY <1>2, <2>1 DEF SaveMessage, InOrderOnce
  <2>2. CASE queue' = Append(queue, m) /\ handed' = Append(handed, m)
    <3>1. past' = past
      BY <1>2 DEF SaveMessage
    <3>2. past \o Append(queue, m) = Append(past \o queue, m)
      BY <1>1, AppendConcat
    <3> QED
      BY <1>1, <2>2, <3>1, <3>2 DEF InOrderOnce
  <2> QED
    BY <1>2, <2>1, <2>2 DEF SaveMessage
<1>3. CASE Receive
  <2>1. /\ queue # <<>> /\ Head(queue) \in Msgs /\ Tail(queue) \in Seq(Msgs)
        /\ batch' = Append(batch, Head(queue)) /\ flushed' = flushed
    BY <1>3 DEF Receive, TakeHead, Collected, BatcherTypeOK
  <2>2. past' = Append(past, Head(queue)) /\ past' \in Seq(Msgs)
    BY <1>1, <2>1, AppendConcat
  <2>3. past' \o Tail(queue) = handed
    BY <1>1, <2>1, <2>2, ShiftHead
  <2>4. CASE sendq = <<>>
    BY <1>3, <2>3, <2>4 DEF Receive, TakeHead, InOrderOnce
  <2>5. CASE sendq # <<>>
    <3>1. Head(sendq) \in Msgs
      BY <2>5 DEF BatcherTypeOK
    <3>2. queue' = Append(Tail(queue), Head(sendq)) /\ handed' = Append(handed, Head(sendq))
      BY <1>3, <2>5 DEF Receive, TakeHead
    <3>3. past' \o Append(Tail(queue), Head(sendq)) = Append(past' \o Tail(queue), Head(sendq))
      BY <2>1, <2>2, <3>1, AppendConcat
    <3> QED
      BY <2>3, <3>2, <3>3 DEF InOrderOnce
  <2> QED
    BY <2>4, <2>5
<1>4. CASE FlushEnds
  <2>1. past' = past
    BY <1>1, <1>4, ConcatEmptySeq DEF FlushEnds
  <2> QED
    BY <1>1, <1>4, <2>1 DEF FlushEnds, InOrderOnce
<1>5. CASE \/ CancelContext \/ Stop \/ StopReturns \/ Tick
           \/ SeeCancelled \/ SeeStop \/ UNCHANGED batcherVars
  <2>1. UNCHANGED <<handed, flushed, batch, queue>>
    BY <1>5 DEF CancelContext, Stop, StopReturns, Tick, SeeCancelled, SeeStop, Leave,
                batcherVars
  <2> QED
    BY <2>1 DEF InOrderOnce
<1> QED
  BY <1>2, <1>3, <1>4, <1>5 DEF BatcherNext, WorkerStep

\* Between SaveMessage and the database no message is dropped, doubled or
\* overtaken, whatever the database answers and whenever the batcher stops.
THEOREM BatcherInOrderOnce == BatcherSafety => []InOrderOnce
<1>1. BatcherInit => InOrderOnce
  BY EmptySeq, ConcatEmptySeq DEF BatcherInit, InOrderOnce
<1> QED
  BY <1>1, BatcherTypeInit, BatcherTypeNext, InOrderNext, PTL
  DEF BatcherSafety

-----------------------------------------------------------------------------
(* No message is written twice.  SaveMessage is called once per message, so  *)
(* what was handed over and what waits to be has no duplicates; a receive    *)
(* that lets a sender in only moves the boundary between the two.            *)

Distinct(s) == \A i, j \in DOMAIN s : s[i] = s[j] => i = j
Fresh == Distinct(handed \o sendq)

\* A message new to a sequence without duplicates may be appended.
LEMMA DistinctAppend ==
  ASSUME NEW S, NEW s \in Seq(S), NEW x \in S, Distinct(s),
         \A i \in DOMAIN s : s[i] # x
  PROVE  Distinct(Append(s, x))
<1>1. /\ DOMAIN s = 1 .. Len(s) /\ Len(s) \in Nat
      /\ DOMAIN Append(s, x) = 1 .. Len(s) + 1
      /\ \A i \in 1 .. Len(s) : Append(s, x)[i] = s[i]
      /\ Append(s, x)[Len(s) + 1] = x
  BY LenProperties
<1> QED
  BY <1>1 DEF Distinct

\* The elements of a concatenation are those of its parts.
LEMMA ConcatElems ==
  ASSUME NEW S, NEW a \in Seq(S), NEW b \in Seq(S), NEW i \in DOMAIN (a \o b)
  PROVE  (a \o b)[i] \in Elems(a) \cup Elems(b)
<1>1. /\ Len(a) \in Nat /\ Len(b) \in Nat /\ DOMAIN a = 1 .. Len(a) /\ DOMAIN b = 1 .. Len(b)
      /\ i \in 1 .. Len(a) + Len(b)
      /\ (a \o b)[i] = IF i <= Len(a) THEN a[i] ELSE b[i - Len(a)]
  BY ConcatProperties, LenProperties
<1>2. CASE i <= Len(a)
  BY <1>1, <1>2 DEF Elems
<1>3. CASE ~(i <= Len(a))
  <2>1. i - Len(a) \in DOMAIN b
    BY <1>1, <1>3
  <2> QED
    BY <1>1, <1>3, <2>1 DEF Elems
<1> QED
  BY <1>2, <1>3

\* The front of a sequence without duplicates has none.
LEMMA DistinctFront ==
  ASSUME NEW S, NEW a \in Seq(S), NEW b \in Seq(S), Distinct(a \o b)
  PROVE  Distinct(a)
<1>1. /\ DOMAIN a = 1 .. Len(a) /\ DOMAIN (a \o b) = 1 .. Len(a) + Len(b)
      /\ Len(a) \in Nat /\ Len(b) \in Nat
      /\ \A i \in 1 .. Len(a) : (a \o b)[i] = a[i]
  BY ConcatProperties, LenProperties
<1> QED
  BY <1>1 DEF Distinct

LEMMA FreshNext == BatcherTypeOK /\ Fresh /\ [BatcherNext]_batcherVars => Fresh'
<1> SUFFICES ASSUME BatcherTypeOK, Fresh, [BatcherNext]_batcherVars PROVE Fresh'
  OBVIOUS
<1> USE DEF callers, work
<1>1. handed \in Seq(Msgs) /\ sendq \in Seq(Msgs) /\ handed \o sendq \in Seq(Msgs)
  BY ConcatProperties DEF BatcherTypeOK
<1>2. ASSUME NEW m \in Msgs, SaveMessage(m) PROVE Fresh'
  <2>1. \A i \in DOMAIN (handed \o sendq) : (handed \o sendq)[i] # m
    BY <1>1, <1>2, ConcatElems DEF SaveMessage, Saved
  <2>2. Distinct(Append(handed \o sendq, m))
    BY <1>1, <2>1, DistinctAppend DEF Fresh
  <2>3. CASE Len(queue) < QueueCap
    <3>1. handed' = Append(handed, m) /\ sendq' = sendq
      BY <1>2, <2>3 DEF SaveMessage
    <3>2. sendq = <<>>
      BY <2>3, BatchAssumption DEF BatcherTypeOK
    <3>3. handed' \o sendq' = Append(handed \o sendq, m)
      BY <1>1, <3>1, <3>2, ConcatEmptySeq, AppendProperties
    <3> QED
      BY <2>2, <3>3 DEF Fresh
  <2>4. CASE ~(Len(queue) < QueueCap)
    <3>1. handed' = handed /\ sendq' = Append(sendq, m)
      BY <1>2, <2>4 DEF SaveMessage
    <3>2. handed' \o sendq' = Append(handed \o sendq, m)
      BY <1>1, <3>1, AppendConcat
    <3> QED
      BY <2>2, <3>2 DEF Fresh
  <2> QED
    BY <2>3, <2>4
<1>3. CASE Receive
  <2>1. handed' \o sendq' = handed \o sendq
    BY <1>1, <1>3, ShiftHead DEF Receive, TakeHead
  <2> QED
    BY <2>1 DEF Fresh
<1>4. CASE \/ CancelContext \/ Stop \/ StopReturns \/ Tick \/ FlushEnds
           \/ SeeCancelled \/ SeeStop \/ UNCHANGED batcherVars
  <2>1. UNCHANGED <<handed, sendq>>
    BY <1>4 DEF CancelContext, Stop, StopReturns, Tick, FlushEnds, SeeCancelled, SeeStop,
                Leave, batcherVars
  <2> QED
    BY <2>1 DEF Fresh
<1> QED
  BY <1>2, <1>3, <1>4 DEF BatcherNext, WorkerStep

\* What has been flushed is the front of what was handed over.
LEMMA FreshFlushed == BatcherTypeOK /\ InOrderOnce /\ Fresh => NeverFlushedTwice
<1> SUFFICES ASSUME BatcherTypeOK, InOrderOnce, Fresh PROVE NeverFlushedTwice
  OBVIOUS
<1>1. /\ flushed \in Seq(Msgs) /\ batch \in Seq(Msgs) /\ queue \in Seq(Msgs)
      /\ handed \in Seq(Msgs) /\ sendq \in Seq(Msgs) /\ flushed \o batch \in Seq(Msgs)
      /\ handed = (flushed \o batch) \o queue
  BY ConcatProperties DEF BatcherTypeOK, InOrderOnce
<1>2. Distinct(handed)
  BY <1>1, DistinctFront DEF Fresh
<1>3. Distinct(flushed \o batch)
  BY <1>1, <1>2, DistinctFront
<1>4. Distinct(flushed)
  BY <1>1, <1>3, DistinctFront
<1> QED
  BY <1>4 DEF Distinct, NeverFlushedTwice

\* No message is written twice, however callers, ticks and shutdown interleave.
THEOREM BatcherNeverFlushedTwice == BatcherSafety => []NeverFlushedTwice
<1>1. BatcherInit => Fresh
  <2> SUFFICES ASSUME BatcherInit PROVE Fresh
    OBVIOUS
  <2>1. handed \o sendq = <<>>
    BY EmptySeq, ConcatEmptySeq DEF BatcherInit
  <2> QED
    BY <2>1 DEF Fresh, Distinct
<1> QED
  BY <1>1, BatcherTyped, BatcherInOrderOnce, BatcherTypeNext, FreshNext, FreshFlushed, PTL
  DEF BatcherSafety

-----------------------------------------------------------------------------
(* After the worker. *)

\* The worker leaves with an empty batch, does nothing afterwards, and Stop returns
\* only then.
THEOREM BatcherQuietAfterStop == BatcherSafety => []QuietAfterStop
<1>1. BatcherInit => QuietAfterStop
  BY DEF BatcherInit, QuietAfterStop
<1>2. QuietAfterStop /\ [BatcherNext]_batcherVars => QuietAfterStop'
  <2> SUFFICES ASSUME QuietAfterStop, [BatcherNext]_batcherVars PROVE QuietAfterStop'
    OBVIOUS
  <2> USE DEF callers, work
  <2>1. ASSUME NEW m \in Msgs, SaveMessage(m) PROVE QuietAfterStop'
    BY <2>1 DEF SaveMessage, QuietAfterStop
  <2>2. CASE CancelContext \/ Stop \/ StopReturns
    BY <2>2 DEF CancelContext, Stop, StopReturns, QuietAfterStop
  <2>3. CASE Receive \/ Tick
    BY <2>3 DEF Receive, Tick, QuietAfterStop
  <2>4. CASE SeeCancelled \/ SeeStop
    BY <2>4 DEF SeeCancelled, SeeStop, Leave, QuietAfterStop
  <2>5. CASE FlushEnds
    BY <2>5 DEF FlushEnds, QuietAfterStop
  <2>6. CASE UNCHANGED batcherVars
    BY <2>6 DEF batcherVars, QuietAfterStop
  <2> QED
    BY <2>1, <2>2, <2>3, <2>4, <2>5, <2>6 DEF BatcherNext, WorkerStep
<1> QED
  BY <1>1, <1>2, PTL DEF BatcherSafety

-----------------------------------------------------------------------------
(* What becomes of a batch.  While the context lives no flush is started in   *)
(* vain, so a flush that has ended has written its rows or was refused.      *)

NotInVain == ~cancelled => ~doomed
KeptOrRefused == NotInVain /\ FlushedIsKept

LEMMA ElemsConcat ==
  ASSUME NEW S, NEW a \in Seq(S), NEW b \in Seq(S)
  PROVE  Elems(a \o b) = Elems(a) \cup Elems(b)
<1>1. /\ Len(a) \in Nat /\ Len(b) \in Nat /\ DOMAIN a = 1 .. Len(a) /\ DOMAIN b = 1 .. Len(b)
      /\ DOMAIN (a \o b) = 1 .. Len(a) + Len(b)
      /\ \A i \in 1 .. Len(a) + Len(b) : (a \o b)[i] = IF i <= Len(a) THEN a[i] ELSE b[i - Len(a)]
  BY ConcatProperties, LenProperties
<1>2. Elems(a \o b) \subseteq Elems(a) \cup Elems(b)
  BY ConcatElems DEF Elems
<1>3. ASSUME NEW i \in DOMAIN a PROVE a[i] \in Elems(a \o b)
  <2>1. i \in DOMAIN (a \o b) /\ (a \o b)[i] = a[i]
    BY <1>1
  <2> QED
    BY <2>1 DEF Elems
<1>4. ASSUME NEW i \in DOMAIN b PROVE b[i] \in Elems(a \o b)
  <2> DEFINE j == i + Len(a)
  <2>1. j \in 1 .. Len(a) + Len(b) /\ ~(j <= Len(a)) /\ j - Len(a) = i
    BY <1>1
  <2>2. j \in DOMAIN (a \o b) /\ (a \o b)[j] = b[i]
    BY <1>1, <2>1
  <2> QED
    BY <2>2 DEF Elems
<1>5. Elems(a) \cup Elems(b) \subseteq Elems(a \o b)
  BY <1>3, <1>4 DEF Elems
<1> QED
  BY <1>2, <1>5

LEMMA KeptNext ==
  ASSUME BatcherTypeOK, KeptOrRefused, [BatcherNext]_batcherVars PROVE KeptOrRefused'
<1> USE DEF callers, work
<1>1. ASSUME NEW m \in Msgs, SaveMessage(m) PROVE KeptOrRefused'
  BY <1>1 DEF SaveMessage, KeptOrRefused, NotInVain, FlushedIsKept
<1>2. CASE CancelContext
  BY <1>2 DEF CancelContext, KeptOrRefused, NotInVain, FlushedIsKept
<1>3. CASE Stop \/ StopReturns
  BY <1>3 DEF Stop, StopReturns, KeptOrRefused, NotInVain, FlushedIsKept
<1>4. CASE Receive
  BY <1>4 DEF Receive, KeptOrRefused, NotInVain, FlushedIsKept
<1>5. CASE Tick
  BY <1>5 DEF Tick, KeptOrRefused, NotInVain, FlushedIsKept
<1>6. CASE SeeCancelled
  BY <1>6 DEF SeeCancelled, Leave, KeptOrRefused, NotInVain, FlushedIsKept
<1>7. CASE SeeStop
  BY <1>7 DEF SeeStop, Leave, KeptOrRefused, NotInVain, FlushedIsKept
<1>8. CASE FlushEnds
  <2>1. SUFFICES ASSUME ~cancelled
                 PROVE  ~doomed' /\ Elems(flushed') \subseteq stored' \cup refused'
    BY <1>8 DEF FlushEnds, KeptOrRefused, NotInVain, FlushedIsKept
  <2>2. Elems(flushed) \subseteq stored \cup refused
    BY <2>1 DEF KeptOrRefused, FlushedIsKept
  <2>3. /\ flushed' = flushed \o batch /\ doomed' = FALSE
        /\ stored \cup refused \cup Elems(batch) \subseteq stored' \cup refused'
    BY <1>8, <2>1 DEF FlushEnds
  <2>4. Elems(flushed \o batch) = Elems(flushed) \cup Elems(batch)
    BY ElemsConcat DEF BatcherTypeOK
  <2> QED
    BY <2>2, <2>3, <2>4
<1>9. CASE UNCHANGED batcherVars
  BY <1>9 DEF batcherVars, KeptOrRefused, NotInVain, FlushedIsKept
<1> QED
  BY <1>1, <1>2, <1>3, <1>4, <1>5, <1>6, <1>7, <1>8, <1>9 DEF BatcherNext, WorkerStep

\* As long as the node is not told to stop, a message whose flush has ended has
\* its row, or PostgreSQL refused its batch (message_batcher.go, flush).
THEOREM BatcherFlushedIsKept == BatcherSafety => []FlushedIsKept
<1>1. BatcherInit => KeptOrRefused
  BY EmptySeq DEF BatcherInit, KeptOrRefused, NotInVain, FlushedIsKept, Elems
<1>2. BatcherTypeOK /\ KeptOrRefused /\ [BatcherNext]_batcherVars => KeptOrRefused'
  BY KeptNext
<1>3. KeptOrRefused => FlushedIsKept
  BY DEF KeptOrRefused
<1> QED
  BY <1>1, <1>2, <1>3, BatcherTyped, PTL DEF BatcherSafety
=============================================================================
