--------------------------- MODULE MessageBatcher ---------------------------
(***************************************************************************)
(* logic-go/internal/service/message_batcher.go: chat handlers hand        *)
(* messages to a bounded channel and answer the client at once; a single   *)
(* worker goroutine collects them into batches and inserts each batch into *)
(* PostgreSQL.  The worker leaves when the application context is          *)
(* cancelled or when Stop closes stopChan, whichever its select sees.      *)
(***************************************************************************)
EXTENDS Integers, Sequences, FiniteSets

CONSTANTS
  Msgs,       \* chat messages; each is saved at most once
  BatchSize,  \* config.BatchSize
  QueueCap,   \* capacity of msgChan (10 * BatchSize in the code)
  DBErrors    \* whether PostgreSQL may refuse a batch

ASSUME BatchAssumption == BatchSize \in Nat \ {0} /\ QueueCap \in Nat \ {0}
ASSUME DBErrorsAssumption == DBErrors \in BOOLEAN

VARIABLES
  sendq,      \* messages of SaveMessage calls blocked on the full channel
  queue,      \* msgChan
  batch,      \* the worker's batch
  worker,     \* "select", "flush", "exited"
  leaving,    \* the running flush is the worker's last
  doomed,     \* the running flush was started with a cancelled context
  cancelled,  \* the application context is cancelled
  stop,       \* Stop: "none", "waiting" (stopChan closed), "returned"
  stored,     \* rows of table messages
  handed,     \* history: messages put in msgChan, in order
  flushed,    \* history: messages whose flush has ended, in order
  refused     \* history: messages of batches PostgreSQL refused before the cancel

callers == <<sendq, queue, handed>>
work == <<batch, worker, leaving, doomed, stored, flushed, refused>>
batcherVars == <<sendq, queue, batch, worker, leaving, doomed, cancelled, stop,
                 stored, handed, flushed, refused>>

Elems(s) == {s[i] : i \in DOMAIN s}
Saved(m) == m \in Elems(sendq) \cup Elems(handed)   \* SaveMessage was called
Returned(m) == m \in Elems(handed)                  \* and has returned

BatcherTypeOK ==
  /\ sendq \in Seq(Msgs) /\ queue \in Seq(Msgs) /\ batch \in Seq(Msgs)
  /\ worker \in {"select", "flush", "exited"}
  /\ leaving \in BOOLEAN /\ doomed \in BOOLEAN /\ cancelled \in BOOLEAN
  /\ stop \in {"none", "waiting", "returned"}
  /\ stored \in SUBSET Msgs /\ refused \in SUBSET Msgs
  /\ handed \in Seq(Msgs) /\ flushed \in Seq(Msgs)
  /\ Len(queue) <= QueueCap /\ (sendq # <<>> => Len(queue) = QueueCap)
  /\ Len(batch) <= BatchSize /\ (worker = "select" => Len(batch) < BatchSize)

BatcherInit ==
  /\ sendq = <<>> /\ queue = <<>> /\ batch = <<>>
  /\ worker = "select" /\ leaving = FALSE /\ doomed = FALSE
  /\ cancelled = FALSE /\ stop = "none"
  /\ stored = {} /\ handed = <<>> /\ flushed = <<>> /\ refused = {}

-----------------------------------------------------------------------------
(* Callers *)

\* The non-blocking send; with the channel full, the blocking one.
SaveMessage(m) ==
  /\ ~Saved(m)
  /\ IF Len(queue) < QueueCap
       THEN /\ queue' = Append(queue, m)
            /\ handed' = Append(handed, m)
            /\ UNCHANGED sendq
       ELSE /\ sendq' = Append(sendq, m)
            /\ UNCHANGED <<queue, handed>>
  /\ UNCHANGED <<work, cancelled, stop>>

CancelContext ==
  /\ ~cancelled
  /\ cancelled' = TRUE
  /\ UNCHANGED <<callers, work, stop>>

Stop ==
  /\ stop = "none"
  /\ stop' = "waiting"
  /\ UNCHANGED <<callers, work, cancelled>>

\* wg.Wait: Stop returns once the worker is gone.
StopReturns ==
  /\ stop = "waiting" /\ worker = "exited"
  /\ stop' = "returned"
  /\ UNCHANGED <<callers, work, cancelled>>

-----------------------------------------------------------------------------
(* The worker: one case of its select after the other *)

\* A receive from a full channel lets the longest blocked sender in.
TakeHead ==
  /\ queue # <<>>
  /\ IF sendq = <<>>
       THEN /\ queue' = Tail(queue)
            /\ UNCHANGED <<sendq, handed>>
       ELSE /\ queue' = Append(Tail(queue), Head(sendq))
            /\ handed' = Append(handed, Head(sendq))
            /\ sendq' = Tail(sendq)

\* Mutant: the received message replaces the batch instead of joining it.
Bug_Collected == <<Head(queue)>>

Collected == Append(batch, Head(queue))

Receive ==
  /\ worker = "select"
  /\ TakeHead
  /\ batch' = Collected
  /\ IF Len(batch') >= BatchSize
       THEN worker' = "flush" /\ doomed' = cancelled
       ELSE UNCHANGED <<worker, doomed>>
  /\ UNCHANGED <<leaving, cancelled, stop, stored, flushed, refused>>

\* Mutant: the batch is written when the ticker finds it full.
Bug_Tick ==
  /\ worker = "select" /\ Len(batch) >= BatchSize
  /\ worker' = "flush" /\ doomed' = cancelled
  /\ UNCHANGED <<callers, batch, leaving, cancelled, stop, stored, flushed, refused>>

\* ticker.C; a tick with nothing collected does nothing.
Tick ==
  /\ worker = "select" /\ batch # <<>>
  /\ worker' = "flush" /\ doomed' = cancelled
  /\ UNCHANGED <<callers, batch, leaving, cancelled, stop, stored, flushed, refused>>

\* The last flush, with the application's or with a fresh context, and return.
Leave(withCancelled) ==
  /\ worker = "select"
  /\ IF batch # <<>>
       THEN worker' = "flush" /\ leaving' = TRUE /\ doomed' = withCancelled
       ELSE worker' = "exited" /\ UNCHANGED <<leaving, doomed>>
  /\ UNCHANGED <<callers, batch, cancelled, stop, stored, flushed, refused>>

SeeCancelled == cancelled /\ Leave(TRUE)
SeeStop == stop # "none" /\ Leave(FALSE)

\* A batch is one implicit transaction.  With a cancelled context it is never
\* sent; a context cancelled meanwhile may or may not stop it.
MayCommit == ~doomed
MayFail == DBErrors \/ doomed \/ (cancelled /\ ~leaving)

FlushEnds ==
  /\ worker = "flush"
  /\ \/ MayCommit /\ stored' = stored \cup Elems(batch) /\ UNCHANGED refused
     \/ MayFail /\ UNCHANGED stored
        /\ refused' = IF cancelled THEN refused ELSE refused \cup Elems(batch)
  /\ flushed' = flushed \o batch
  /\ batch' = <<>>
  /\ worker' = IF leaving THEN "exited" ELSE "select"
  /\ doomed' = FALSE
  /\ UNCHANGED <<callers, leaving, cancelled, stop>>

WorkerStep == Receive \/ Tick \/ SeeCancelled \/ SeeStop \/ FlushEnds

BatcherNext ==
  \/ \E m \in Msgs : SaveMessage(m)
  \/ CancelContext \/ Stop \/ StopReturns
  \/ WorkerStep

\* The worker goroutine runs: its ticker fires again and again, and a select
\* with a ready case takes one.
BatcherFairness == WF_batcherVars(WorkerStep)

BatcherSafety == BatcherInit /\ [][BatcherNext]_batcherVars
BatcherSpec == BatcherSafety /\ BatcherFairness

-----------------------------------------------------------------------------
(* Properties *)

\* Every message handed over is in exactly one place, in the order it was
\* handed over: first those whose flush has ended, written or not, then the
\* batch, then the channel.  Nothing is dropped, doubled or overtaken between
\* SaveMessage and the end of its flush.
InOrderOnce == handed = flushed \o batch \o queue

\* No message is written twice: the table's primary key would refuse the whole
\* batch of the second insert.
NeverFlushedTwice ==
  \A i, j \in DOMAIN flushed : flushed[i] = flushed[j] => i = j

\* When Stop has returned, no insert is running and none will follow, so main
\* may close the database pool.
QuietAfterStop ==
  /\ stop = "returned" => worker = "exited" /\ batch = <<>>
  /\ worker = "exited" => batch = <<>>

\* Until the context is cancelled a message whose flush has ended has its row,
\* unless PostgreSQL itself refused the batch.
FlushedIsKept == ~cancelled => Elems(flushed) \subseteq stored \cup refused

\* A message handed to the batcher gets its row in the end, or its batch is
\* refused by PostgreSQL, however few others follow it, and a blocked SaveMessage
\* call is let go, unless the batcher is shut down.
EventuallyFlushed ==
  \A m \in Msgs :
    Saved(m) ~> (m \in stored \cup refused \/ cancelled \/ stop # "none")
=============================================================================
