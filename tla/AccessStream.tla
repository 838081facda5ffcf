----------------------------- MODULE AccessStream -----------------------------
(***************************************************************************)
(* The data path of an access node once its clients are authenticated: the *)
(* reader of each client's stream, the worker pool that handles the        *)
(* requests, the write loop of each connection, the NATS callback that     *)
(* hands out pushes, and Shutdown.  Workers and the write loop write to    *)
(* the same stream: a response as two writes, header and body, and a push  *)
(* as one.  No write has a deadline: it waits for a client that does not   *)
(* read as long as the client stays.  The maps of the connection manager   *)
(* are module Access.                                                      *)
(***************************************************************************)
EXTENDS Integers, Sequences, FiniteSets

Seqs == INSTANCE SequencesExt

CONSTANTS
  Nothing,
  StreamConns, Workers,
  QueueSize,       \* capacity of the pool's taskQueue
  WriteChanSize,   \* capacity of a connection's writeChan, 256
  MaxFrames,       \* bound on the requests of one client
  MaxPushes        \* bound on their number

ASSUME QueueAssumption == QueueSize \in Nat \ {0} /\ WriteChanSize \in Nat \ {0}
ASSUME FramesAssumption == MaxFrames \in Nat /\ MaxPushes \in Nat
ASSUME NothingAssumption == Nothing \notin [conn : StreamConns, push : Nat]

VARIABLES
  stream,      \* per connection "unset" (no SetClientStream yet), "open", "stalled"
               \* (the client does not read, so that writes block), "closed"
  reader,      \* per connection HandleStream: "read", "submit", "ended", "panicked"
  frames,      \* per connection the number of frames read
  taskQueue,   \* the pool's channel: <<connection, number>>
  worker,      \* per worker [at, task]: it runs a handler that answers nothing, or
               \* is about to write the header, then the body, of a response
  handled,     \* tasks done
  refused,     \* tasks dropped because the pool is shutting down
  half,        \* per connection the workers between header and body
  torn,        \* connections with a write between a header and its body
  writeChan,   \* per connection the pushes waiting
  writing,     \* per connection the push its loop holds, Waits or Ended
  written,     \* per connection the pushes written
  closeChan,   \* connections whose closeChan is closed
  pushes,      \* downstream messages received
  callback,    \* what the NATS callback is sending: [conn, push] or Nothing
  shutdown     \* how far Shutdown has come

streamVars == <<stream, reader, frames, taskQueue, worker, handled, refused, half, torn,
                writeChan, writing, written, closeChan, pushes, callback, shutdown>>
clientVars == <<stream, closeChan, shutdown>>
readVars == <<reader, frames>>
taskVars == <<taskQueue, worker, handled, refused>>
pushVars == <<writeChan, writing, written, pushes, callback>>

Waits == 0
Ended == -1
Idle == [at |-> "idle", task |-> Nothing]
ShutdownSteps == <<"running", "closedServer", "cancelled", "closedQueue", "waited", "done">>
Since(step) == \E i, j \in DOMAIN ShutdownSteps : ShutdownSteps[i] = step /\ ShutdownSteps[j] = shutdown /\ i <= j
Cancelled == Since("cancelled")
QueueClosed == Since("closedQueue")

StreamInit ==
  /\ stream = [c \in StreamConns |-> "unset"]
  /\ closeChan = {}
  /\ reader = [c \in StreamConns |-> "read"]
  /\ frames = [c \in StreamConns |-> 0]
  /\ taskQueue = <<>> /\ handled = {} /\ refused = {}
  /\ worker = [w \in Workers |-> Idle]
  /\ half = [c \in StreamConns |-> {}] /\ torn = {}
  /\ writeChan = [c \in StreamConns |-> <<>>]
  /\ writing = [c \in StreamConns |-> Waits]
  /\ written = writeChan
  /\ pushes = 0 /\ callback = Nothing
  /\ shutdown = "running"

(* ----- HandleStream ----- *)

SetClientStream(c) ==
  /\ stream[c] = "unset"
  /\ stream' = [stream EXCEPT ![c] = "open"]
  /\ UNCHANGED <<closeChan, shutdown, readVars, taskVars, pushVars, half, torn>>

ReadFrame(c) ==
  /\ reader[c] = "read" /\ stream[c] \in {"open", "stalled"} /\ frames[c] < MaxFrames
  /\ frames' = [frames EXCEPT ![c] = @ + 1]
  /\ reader' = [reader EXCEPT ![c] = "submit"]
  /\ UNCHANGED <<clientVars, taskVars, pushVars, half, torn>>

\* The read fails, and the session ends.
ReadEnds(c) ==
  /\ reader[c] = "read" /\ stream[c] = "closed"
  /\ reader' = [reader EXCEPT ![c] = "ended"]
  /\ UNCHANGED <<clientVars, frames, taskVars, pushVars, half, torn>>

Task(c) == <<c, frames[c]>>

\* Waits for room in the queue; of two ready cases select takes either.
Submit(c) ==
  \/ /\ Len(taskQueue) < QueueSize /\ ~QueueClosed
     /\ taskQueue' = Append(taskQueue, Task(c))
     /\ UNCHANGED refused
  \/ /\ Cancelled
     /\ refused' = refused \cup {Task(c)}
     /\ UNCHANGED taskQueue

SubmitTask(c) ==
  /\ reader[c] = "submit"
  /\ Submit(c)
  /\ reader' = [reader EXCEPT ![c] = "read"]
  /\ UNCHANGED <<clientVars, frames, worker, handled, pushVars, half, torn>>

\* select may as well take the send on the closed channel, which panics.
SubmitPanics(c) ==
  /\ reader[c] = "submit" /\ QueueClosed
  /\ reader' = [reader EXCEPT ![c] = "panicked"]
  /\ refused' = refused \cup {Task(c)}
  /\ UNCHANGED <<clientVars, frames, taskQueue, worker, handled, pushVars, half, torn>>

(* ----- workers ----- *)

\* Mutant: the task stays in the queue.
Bug_Take(w) ==
  /\ worker[w].at = "idle" /\ taskQueue # <<>>
  /\ \E at \in {"run", "header"} :
       worker' = [worker EXCEPT ![w] = [at |-> at, task |-> Head(taskQueue)]]
  /\ UNCHANGED taskQueue

\* Some requests are answered with a response, others only published.
Take(w) ==
  /\ worker[w].at = "idle" /\ taskQueue # <<>>
  /\ \E at \in {"run", "header"} :
       worker' = [worker EXCEPT ![w] = [at |-> at, task |-> Head(taskQueue)]]
  /\ taskQueue' = Tail(taskQueue)

TakeTask(w) ==
  /\ Take(w)
  /\ UNCHANGED <<clientVars, readVars, handled, refused, pushVars, half, torn>>

\* The pool is cancelled, with tasks still queued or not.
WorkerExits(w) ==
  /\ worker[w].at = "idle" /\ Cancelled
  /\ worker' = [worker EXCEPT ![w].at = "exited"]
  /\ UNCHANGED <<clientVars, readVars, taskQueue, handled, refused, pushVars, half, torn>>

Done(w) ==
  /\ worker' = [worker EXCEPT ![w] = Idle]
  /\ handled' = handled \cup {worker[w].task}
  /\ UNCHANGED <<taskQueue, refused>>

\* Chat, read, room and game requests are published to NATS, whether that works
\* or not.
PublishUpstream(w) ==
  /\ worker[w].at = "run"
  /\ Done(w)
  /\ UNCHANGED <<clientVars, readVars, pushVars, half, torn>>

\* A handler panics, on a malformed body say, and the worker recovers.
HandlerPanics(w) ==
  /\ worker[w].at = "run"
  /\ Done(w)
  /\ UNCHANGED <<clientVars, readVars, pushVars, half, torn>>

Writable(c) == stream[c] = "open"
Torn(c, by) == IF half[c] \ by # {} THEN torn \cup {c} ELSE torn

\* sendFrame of the response to a heartbeat, say: the header, then the body, without the
\* lock of the write loop.
WriteHeader(w) ==
  /\ worker[w].at = "header" /\ Writable(worker[w].task[1])
  /\ LET c == worker[w].task[1]
     IN /\ half' = [half EXCEPT ![c] = @ \cup {w}]
        /\ torn' = Torn(c, {})
  /\ worker' = [worker EXCEPT ![w].at = "body"]
  /\ UNCHANGED <<clientVars, readVars, taskQueue, handled, refused, pushVars>>

WriteBody(w) ==
  /\ worker[w].at = "body" /\ Writable(worker[w].task[1])
  /\ LET c == worker[w].task[1]
     IN /\ half' = [half EXCEPT ![c] = @ \ {w}]
        /\ torn' = Torn(c, {w})
  /\ Done(w)
  /\ UNCHANGED <<clientVars, readVars, pushVars>>

\* Mutant: a body that could not be written is tried again for ever.
Bug_WriteFails(w) ==
  /\ worker[w].at = "header" /\ stream[worker[w].task[1]] = "closed"
  /\ Done(w)
  /\ UNCHANGED <<clientVars, readVars, pushVars, half, torn>>

\* A write on a closed stream fails, and the worker goes on.
WriteFails(w) ==
  /\ worker[w].at \in {"header", "body"} /\ stream[worker[w].task[1]] = "closed"
  /\ half' = [half EXCEPT ![worker[w].task[1]] = @ \ {w}]
  /\ Done(w)
  /\ UNCHANGED <<clientVars, readVars, pushVars, torn>>

(* ----- pushes ----- *)

\* HandleDownstream has found the connection.  sendToConnection knows chat
\* messages and acknowledgements; a room or game push falls through it and
\* changes nothing.
HandleDownstream ==
  /\ callback = Nothing /\ pushes < MaxPushes
  /\ pushes' = pushes + 1
  /\ \E c \in StreamConns \ closeChan : callback' = [conn |-> c, push |-> pushes + 1]
  /\ UNCHANGED <<clientVars, readVars, taskVars, half, torn, writeChan, writing, written>>

Enqueue(c, push) ==
  /\ Len(writeChan[c]) < WriteChanSize
  /\ writeChan' = [writeChan EXCEPT ![c] = Append(@, push)]

\* Connection.Send: waits for room in writeChan, unless the connection closes.
Send ==
  /\ callback # Nothing
  /\ \/ Enqueue(callback.conn, callback.push)
     \/ callback.conn \in closeChan /\ UNCHANGED writeChan
  /\ callback' = Nothing
  /\ UNCHANGED <<clientVars, readVars, taskVars, half, torn, writing, written, pushes>>

\* Mutant: a goroutine for every push.
Bug_Next(c) == {i \in DOMAIN writeChan[c] : TRUE}

Next(c) == {i \in DOMAIN writeChan[c] : i = 1}

TakePush(c) ==
  /\ writing[c] = Waits
  /\ \E i \in Next(c) :
       /\ writing' = [writing EXCEPT ![c] = writeChan[c][i]]
       /\ writeChan' = [writeChan EXCEPT ![c] = Seqs!RemoveAt(@, i)]
  /\ UNCHANGED <<clientVars, readVars, taskVars, half, torn, written, pushes, callback>>

\* One write of header and body under streamMutex; without a stream, or on a
\* closed one, the push is lost.
WritePush(c) ==
  /\ writing[c] > 0
  /\ \/ /\ Writable(c)
        /\ written' = [written EXCEPT ![c] = Append(@, writing[c])]
        /\ torn' = Torn(c, {})
     \/ /\ stream[c] \in {"unset", "closed"}
        /\ UNCHANGED <<written, torn>>
  /\ writing' = [writing EXCEPT ![c] = Waits]
  /\ UNCHANGED <<clientVars, readVars, taskVars, half, writeChan, pushes, callback>>

WriteLoopEnds(c) ==
  /\ writing[c] = Waits /\ c \in closeChan
  /\ writing' = [writing EXCEPT ![c] = Ended]
  /\ UNCHANGED <<clientVars, readVars, taskVars, half, torn, writeChan, written, pushes, callback>>

(* ----- clients ----- *)

Becomes(c, from, to) ==
  /\ stream[c] \in from /\ stream' = [stream EXCEPT ![c] = to]
  /\ UNCHANGED <<closeChan, shutdown, readVars, taskVars, pushVars, half, torn>>

Stall(c) == Becomes(c, {"open"}, "stalled")
Resume(c) == Becomes(c, {"stalled"}, "open")

\* The client goes away: its stream fails, and nobody calls Close.
ClientLeaves(c) == Becomes(c, {"open", "stalled"}, "closed")

\* Connection.Close, when a newer login takes its place.
Close(c) ==
  /\ c \notin closeChan /\ closeChan' = closeChan \cup {c}
  /\ stream' = [stream EXCEPT ![c] = "closed"]
  /\ UNCHANGED <<shutdown, readVars, taskVars, pushVars, half, torn>>

(* ----- Shutdown ----- *)

\* wtServer.Close ends every session.
Streams == [c \in StreamConns |-> "closed"]

\* Server.Shutdown: the server, then Pool.Shutdown (cancel, close, wait for the
\* workers), then the wait for the sessions.
ShutdownStep(i) ==
  /\ ShutdownSteps[i] = shutdown /\ shutdown' = ShutdownSteps[i + 1]
  /\ stream' = IF i = 1 THEN Streams ELSE stream
  /\ i = 4 => \A w \in Workers : worker[w].at = "exited"
  /\ i = 5 => \A c \in StreamConns : reader[c] \in {"ended", "panicked"}
  /\ UNCHANGED <<closeChan, readVars, taskVars, pushVars, half, torn>>

BeginShutdown == ShutdownStep(1)
Shutdown == \E i \in 2 .. 5 : ShutdownStep(i)

HandleStream(c) == SetClientStream(c) \/ ReadEnds(c) \/ SubmitTask(c) \/ SubmitPanics(c)
Work(w) ==
  \/ TakeTask(w) \/ WorkerExits(w) \/ PublishUpstream(w) \/ HandlerPanics(w)
  \/ WriteHeader(w) \/ WriteBody(w) \/ WriteFails(w)
WriteLoop(c) == TakePush(c) \/ WritePush(c) \/ WriteLoopEnds(c)

StreamNext ==
  \/ \E c \in StreamConns : HandleStream(c) \/ ReadFrame(c) \/ WriteLoop(c)
  \/ \E w \in Workers : Work(w)
  \/ HandleDownstream \/ Send
  \/ \E c \in StreamConns : Stall(c) \/ Resume(c) \/ ClientLeaves(c) \/ Close(c)
  \/ BeginShutdown \/ Shutdown

\* Goroutines run, and a write to a client that reads now and again gets through.
\* Nothing makes clients read, send or leave, logic push or anyone shut the node
\* down.
ReadersRun == \A c \in StreamConns : WF_streamVars(HandleStream(c))
NodeRuns ==
  /\ \A c \in StreamConns : SF_streamVars(WriteLoop(c))
  /\ \A w \in Workers : SF_streamVars(Work(w))
  /\ WF_streamVars(Send) /\ WF_streamVars(Shutdown)

StreamSpec == StreamInit /\ [][StreamNext]_streamVars /\ ReadersRun /\ NodeRuns

(* ----- properties ----- *)

Tasks == {<<c, n>> : c \in StreamConns, n \in 1 .. MaxFrames}
Running(t) == {w \in Workers : worker[w].at \in {"run", "header", "body"} /\ worker[w].task = t}

\* Types, the bounds of the channels, and a header without a body has a worker
\* that is about to write it.
StreamTypeOK ==
  /\ stream \in [StreamConns -> {"unset", "open", "stalled", "closed"}]
  /\ reader \in [StreamConns -> {"read", "submit", "ended", "panicked"}]
  /\ Len(taskQueue) <= QueueSize /\ Seqs!ToSet(taskQueue) \subseteq Tasks
  /\ \A c \in StreamConns : Len(writeChan[c]) <= WriteChanSize
  /\ \A c \in StreamConns : half[c] = {w \in Workers : worker[w].at = "body" /\ worker[w].task[1] = c}

\* Every frame that was read is in one place: with its reader, in the queue, with
\* one worker, done, or refused -- by a pool that is cancelled, never by one that
\* runs; so a request is never handled twice or forgotten by a node that runs
\* (handler.go HandleStream, workerpool/pool.go).
RequestInOnePlace ==
  \A c \in StreamConns : \A n \in 1 .. frames[c] :
    LET t == <<c, n>>
    IN Cardinality({i \in DOMAIN taskQueue : taskQueue[i] = t}) + Cardinality(Running(t))
       + (IF n = frames[c] /\ reader[c] = "submit" THEN 1 ELSE 0)
       + (IF t \in handled THEN 1 ELSE 0) + (IF t \in refused /\ Cancelled THEN 1 ELSE 0) = 1

\* Pushes reach a client's stream in the order in which logic sent them.
PushesInOrder ==
  \A c \in StreamConns : \A i, j \in DOMAIN written[c] : i < j => written[c][i] < written[c][j]

\* A worker that waits for a client that does not read.
Held(w) == worker[w].at \in {"header", "body"} /\ stream[worker[w].task[1]] = "stalled"

\* Writes have no deadline, so a client that reads nothing for ever may keep its
\* own requests and every worker it is answered by.  But nothing else stops the
\* pool.  A request that a worker has taken is done in the end, also during a
\* shutdown and however the stream ends, unless its own client stalls for ever; a
\* request in the queue as well, unless the pool is cancelled first (the tasks
\* left in the queue are dropped then, although the comment at pool.go:104 says
\* that all are waited for) or stalled clients hold all workers for ever.  And a
\* shutdown that has begun ends.
QueuedIsHandled ==
  /\ \A t \in Tasks :
       /\ [](Running(t) # {} => <>(t \in handled \/ [](stream[t[1]] = "stalled")))
       /\ [](t \in Seqs!ToSet(taskQueue) =>
               <>(\/ t \in handled \/ Cancelled
                  \/ [](stream[t[1]] = "stalled") \/ [](\A w \in Workers : Held(w))))
  /\ (shutdown = "closedServer") ~> (shutdown = "done")

\* Frames are told apart by their headers (connection.go:117), so nothing may
\* come between a header and its body.
FramesWhole == torn = {}
===============================================================================
