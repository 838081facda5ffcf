-------------------------------- MODULE Chat --------------------------------
(***************************************************************************)
(* A chat message on its way through a logic node: the NATS callback puts  *)
(* it in the subscriber's bounded buffer, a worker takes it out, saves it  *)
(* through the message batcher and acknowledges it to its sender; and the  *)
(* way main takes all of this down on SIGTERM.                             *)
(*   internal/nats/subscriber.go, internal/handler/chat_handler.go,        *)
(*   cmd/logic/main.go, with MessageBatcher for the batcher.               *)
(* Routing and conversation counters, which follow the acknowledgement,    *)
(* change nothing modelled here.                                           *)
(***************************************************************************)
EXTENDS MessageBatcher

CONSTANTS
  Workers,    \* the subscriber's worker goroutines
  BufferSize, \* capacity of the subscriber's msgChan
  NoMsg       \* no message

ASSUME BufferAssumption == BufferSize \in Nat \ {0}
ASSUME NoMsgAssumption == NoMsg \notin Msgs

VARIABLES
  upstream,   \* messages NATS has for this node
  subscribed, \* the queue subscription is alive
  callback,   \* the message the running NATS callback holds, or NoMsg
  buffer,     \* MessageSubscriber.msgChan
  closed,     \* msgChan is closed
  dropped,    \* history: messages the callback found no room for
  pc,         \* where each worker is
  msg,        \* the message each worker handles
  acked,      \* messages acknowledged to their sender
  panicked    \* a send on the closed channel has ended the process

intake == <<upstream, subscribed, callback, buffer, closed, dropped>>
pool == <<pc, msg, acked>>
chatVars == <<intake, pool, panicked, batcherVars>>

ChatTypeOK ==
  /\ BatcherTypeOK
  /\ upstream \in SUBSET Msgs /\ dropped \in SUBSET Msgs /\ acked \in SUBSET Msgs
  /\ subscribed \in BOOLEAN /\ closed \in BOOLEAN /\ panicked \in BOOLEAN
  /\ callback \in Msgs \cup {NoMsg}
  /\ buffer \in Seq(Msgs) /\ Len(buffer) <= BufferSize
  /\ pc \in [Workers -> {"select", "save", "saving", "exited"}]
  /\ msg \in [Workers -> Msgs \cup {NoMsg}]

ChatInit ==
  /\ BatcherInit
  /\ upstream = Msgs /\ subscribed = TRUE /\ callback = NoMsg
  /\ buffer = <<>> /\ closed = FALSE /\ dropped = {}
  /\ pc = [w \in Workers |-> "select"] /\ msg = [w \in Workers |-> NoMsg]
  /\ acked = {} /\ panicked = FALSE

-----------------------------------------------------------------------------
(* The NATS client runs the callback of a subscription for one message after *)
(* the other; Unsubscribe does not wait for the running one.                 *)

CallbackBegin ==
  /\ subscribed /\ callback = NoMsg
  /\ \E m \in upstream : upstream' = upstream \ {m} /\ callback' = m
  /\ UNCHANGED <<subscribed, buffer, closed, dropped, pool, panicked, batcherVars>>

\* Mutant: a message that finds no room goes back to NATS as well.
Bug_CallbackSend ==
  /\ callback # NoMsg /\ ~closed
  /\ callback' = NoMsg
  /\ IF Len(buffer) < BufferSize
       THEN buffer' = Append(buffer, callback) /\ UNCHANGED <<upstream, dropped>>
       ELSE /\ dropped' = dropped \cup {callback}
            /\ upstream' = upstream \cup {callback}
            /\ UNCHANGED buffer
  /\ UNCHANGED <<subscribed, closed, pool, panicked, batcherVars>>

\* Mutant: the buffer takes one message more than it has room for.
Bug_CallbackSendFull ==
  /\ callback # NoMsg /\ ~closed
  /\ callback' = NoMsg
  /\ IF Len(buffer) <= BufferSize
       THEN buffer' = Append(buffer, callback) /\ UNCHANGED dropped
       ELSE dropped' = dropped \cup {callback} /\ UNCHANGED buffer
  /\ UNCHANGED <<upstream, subscribed, closed, pool, panicked, batcherVars>>

\* The non-blocking send of the callback.
CallbackSend ==
  /\ callback # NoMsg /\ ~closed
  /\ callback' = NoMsg
  /\ IF Len(buffer) < BufferSize
       THEN buffer' = Append(buffer, callback) /\ UNCHANGED dropped
       ELSE dropped' = dropped \cup {callback} /\ UNCHANGED buffer
  /\ UNCHANGED <<upstream, subscribed, closed, pool, panicked, batcherVars>>

\* The same send on the closed channel.
CallbackPanics ==
  /\ callback # NoMsg /\ closed
  /\ panicked' = TRUE
  /\ UNCHANGED <<intake, pool, batcherVars>>

-----------------------------------------------------------------------------
(* MessageSubscriber.worker and ChatHandler.Handle *)

WorkerReceive(w) ==
  /\ pc[w] = "select" /\ buffer # <<>>
  /\ buffer' = Tail(buffer)
  /\ msg' = [msg EXCEPT ![w] = Head(buffer)]
  /\ pc' = [pc EXCEPT ![w] = "save"]
  /\ UNCHANGED <<upstream, subscribed, callback, closed, dropped, acked, panicked, batcherVars>>

\* Mutant: a worker that finds the channel empty leaves.
Bug_WorkerExit(w) ==
  /\ pc[w] = "select"
  /\ cancelled \/ buffer = <<>>
  /\ pc' = [pc EXCEPT ![w] = "exited"]
  /\ UNCHANGED <<intake, msg, acked, panicked, batcherVars>>

\* ctx.Done, or the closed channel drained.
WorkerExit(w) ==
  /\ pc[w] = "select"
  /\ cancelled \/ (closed /\ buffer = <<>>)
  /\ pc' = [pc EXCEPT ![w] = "exited"]
  /\ UNCHANGED <<intake, msg, acked, panicked, batcherVars>>

\* The call of SaveMessage: it looks at no context.
WorkerSave(w) ==
  /\ pc[w] = "save"
  /\ SaveMessage(msg[w])
  /\ pc' = [pc EXCEPT ![w] = "saving"]
  /\ UNCHANGED <<intake, msg, acked, panicked>>

\* SaveMessage has returned: SendAckToUserDirect, and the next select.
WorkerAck(w) ==
  /\ pc[w] = "saving" /\ Returned(msg[w])
  /\ acked' = acked \cup {msg[w]}
  /\ msg' = [msg EXCEPT ![w] = NoMsg]
  /\ pc' = [pc EXCEPT ![w] = "select"]
  /\ UNCHANGED <<intake, panicked, batcherVars>>

-----------------------------------------------------------------------------
(* main on SIGTERM: cancel, subscriber.Stop (workers' context, Unsubscribe,   *)
(* close, wait), messageBatcher.Stop, exit.                                   *)

\* The application's context is the parent of the workers'.
Cancel == CancelContext /\ UNCHANGED <<intake, pool, panicked>>

Unsubscribe ==
  /\ cancelled /\ subscribed
  /\ subscribed' = FALSE
  /\ UNCHANGED <<upstream, callback, buffer, closed, dropped, pool, panicked, batcherVars>>

CloseBuffer ==
  /\ ~subscribed /\ ~closed
  /\ closed' = TRUE
  /\ UNCHANGED <<upstream, subscribed, callback, buffer, dropped, pool, panicked, batcherVars>>

\* Mutant: the subscriber does not wait for its workers.
Bug_StopBatcher ==
  /\ closed
  /\ Stop
  /\ UNCHANGED <<intake, pool, panicked>>

\* wg.Wait of the subscriber, then the batcher's Stop.
StopBatcher ==
  /\ closed /\ \A w \in Workers : pc[w] = "exited"
  /\ Stop
  /\ UNCHANGED <<intake, pool, panicked>>

Exit == StopReturns /\ UNCHANGED <<intake, pool, panicked>>

-----------------------------------------------------------------------------
Callback == CallbackBegin \/ CallbackSend \/ CallbackPanics
Worker(w) == WorkerReceive(w) \/ WorkerExit(w) \/ WorkerSave(w) \/ WorkerAck(w)
Shutdown == Unsubscribe \/ CloseBuffer \/ StopBatcher \/ Exit
BatcherWorker == WorkerStep /\ UNCHANGED <<intake, pool, panicked>>

\* A panic ends the process.
ChatNext ==
  /\ ~panicked
  /\ Callback \/ (\E w \in Workers : Worker(w)) \/ Cancel \/ Shutdown \/ BatcherWorker

\* The signal may never come; everything else is a running goroutine.
ChatFairness ==
  /\ WF_chatVars(~panicked /\ Callback)
  /\ \A w \in Workers : WF_chatVars(~panicked /\ Worker(w))
  /\ WF_chatVars(~panicked /\ Shutdown)
  /\ WF_chatVars(~panicked /\ BatcherWorker)

ChatSpec == ChatInit /\ [][ChatNext]_chatVars /\ ChatFairness

-----------------------------------------------------------------------------
(* Properties *)

One(holds) == IF holds THEN 1 ELSE 0

\* Every message is in exactly one place on its way: with NATS, with the
\* callback, in the buffer, with one worker, in the batcher, or dropped.  No two
\* workers handle the same one, and none vanishes before SaveMessage has it.
OnePlace ==
  \A m \in Msgs :
    1 = One(m \in upstream) + One(m = callback) + One(m \in dropped) + One(Saved(m))
          + Cardinality({i \in DOMAIN buffer : buffer[i] = m})
          + Cardinality({w \in Workers : msg[w] = m /\ pc[w] = "save"})

\* Until the node is told to stop, a message its sender was told of has a row, or
\* is on its way to one in the batcher, or PostgreSQL refused its batch, also when
\* SaveMessage had to wait for room in the channel.  (After the cancel nothing of
\* the kind holds: main cancels the context first, so the last batches are
\* flushed with a context that sends nothing and the channel is left as it is.)
AckedIsKept ==
  ~cancelled => acked \subseteq stored \cup refused \cup Elems(batch) \cup Elems(queue)

\* The batcher is stopped only when no handler is in SaveMessage or can come to
\* call it: otherwise the call would never return once the worker is gone.
StoppedWhenQuiet ==
  stop # "none" => sendq = <<>> /\ \A w \in Workers : pc[w] = "exited"

\* A message the buffer has accepted is acknowledged and has its row in the end,
\* however full the batcher, unless PostgreSQL refuses its batch or the node is
\* taken down meanwhile.
Answered ==
  \A m \in Msgs :
    m \in Elems(buffer) ~> ((m \in acked /\ m \in stored \cup refused) \/ cancelled)

\* main.go:142 "优雅退出" (graceful exit), subscriber.go:163 "等待所有 worker 完成"
\* (wait until all workers are done): a node told to stop stops.
ShutdownEnds == cancelled ~> (stop = "returned" \/ panicked)
=============================================================================
