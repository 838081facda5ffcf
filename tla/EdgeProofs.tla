------------------------------ MODULE EdgeProofs ------------------------------
(***************************************************************************)
(* Theorems about the two ends of a connection: the data path of an access *)
(* node, for any clients, workers, channel sizes, requests and pushes, and *)
(* the connection of the desktop client, for any number of connects.       *)
(***************************************************************************)
EXTENDS MCEdge, SequenceTheorems, FiniteSetTheorems, TLAPS

-----------------------------------------------------------------------------
(***************************************************************************)
(* The data path: where a request is.                                      *)
(***************************************************************************)

AllTasks == StreamConns \X Nat
Stopping == {"cancelled", "closedQueue", "waited", "done"}
Busy(w) == worker[w].at \in {"run", "header", "body"}

TasksTyped ==
  /\ reader \in [StreamConns -> {"read", "submit", "ended", "panicked"}]
  /\ frames \in [StreamConns -> Nat]
  /\ taskQueue \in Seq(AllTasks)
  /\ worker \in [Workers -> [at : {"idle", "run", "header", "body", "exited"},
                            task : AllTasks \cup {Nothing}]]
  /\ \A w \in Workers : Busy(w) => worker[w].task \in AllTasks
  /\ shutdown \in {"running", "closedServer"} \cup Stopping

\* The frames that were read, and the places a request can be in.
FramesRead == {t \in AllTasks : t[2] \in 1 .. frames[t[1]]}
Queued == {taskQueue[i] : i \in DOMAIN taskQueue}
AtWorkers == {worker[w].task : w \in {v \in Workers : Busy(v)}}
WithReader == {Task(c) : c \in {d \in StreamConns : reader[d] = "submit"}}

OnceQueued == \A i, j \in DOMAIN taskQueue : taskQueue[i] = taskQueue[j] => i = j
OnceAtWorkers ==
  \A v, w \in Workers : Busy(v) /\ Busy(w) /\ worker[v].task = worker[w].task => v = w

Parted(all, q, w, r, h, f) ==
  /\ all = q \cup w \cup r \cup h \cup f
  /\ q \cap w = {} /\ q \cap r = {} /\ q \cap h = {} /\ q \cap f = {}
  /\ w \cap r = {} /\ w \cap h = {} /\ w \cap f = {}
  /\ r \cap h = {} /\ r \cap f = {} /\ h \cap f = {}

TaskInv ==
  /\ TasksTyped /\ OnceQueued /\ OnceAtWorkers
  /\ Parted(FramesRead, Queued, AtWorkers, WithReader, handled, refused)
  /\ refused # {} => shutdown \in Stopping

LEMMA CancelledIsStopping ==
  ASSUME shutdown \in {"running", "closedServer"} \cup Stopping
  PROVE  /\ Cancelled <=> shutdown \in Stopping
         /\ QueueClosed => shutdown \in Stopping
<1>1. /\ DOMAIN ShutdownSteps = 1 .. 6
      /\ ShutdownSteps[1] = "running" /\ ShutdownSteps[2] = "closedServer"
      /\ ShutdownSteps[3] = "cancelled" /\ ShutdownSteps[4] = "closedQueue"
      /\ ShutdownSteps[5] = "waited" /\ ShutdownSteps[6] = "done"
  BY DEF ShutdownSteps
<1>2. \A i \in 1 .. 6 : i = 1 \/ i = 2 \/ i = 3 \/ i = 4 \/ i = 5 \/ i = 6
  OBVIOUS
<1>3. \A j \in 1 .. 6 : ShutdownSteps[j] \in Stopping <=> j >= 3
  BY <1>1, <1>2 DEF Stopping
<1>4. PICK j \in 1 .. 6 : ShutdownSteps[j] = shutdown
  BY <1>1 DEF Stopping
<1>5. \A i, k \in 1 .. 6 : ShutdownSteps[i] = ShutdownSteps[k] => i = k
  BY <1>1, <1>2
<1>6. Cancelled <=> j >= 3
  BY <1>1, <1>4, <1>5 DEF Cancelled, Since
<1>7. QueueClosed => j >= 4
  BY <1>1, <1>4, <1>5 DEF QueueClosed, Since
<1> QED
  BY <1>3, <1>4, <1>6, <1>7

\* A set without two elements.
LEMMA AtMostOne ==
  ASSUME NEW S, \A a, b \in S : a = b
  PROVE  Cardinality(S) = IF S = {} THEN 0 ELSE 1
<1>1. CASE S = {}
  BY <1>1, FS_EmptySet
<1>2. CASE S # {}
  <2>1. PICK a : S = {a}
    BY <1>2
  <2> QED
    BY <2>1, FS_Singleton
<1> QED
  BY <1>1, <1>2

LEMMA TaskInvPlaces == TaskInv => RequestInOnePlace
<1> SUFFICES ASSUME TaskInv, NEW c \in StreamConns, NEW n \in 1 .. frames[c]
             PROVE  LET t == <<c, n>>
                    IN Cardinality({i \in DOMAIN taskQueue : taskQueue[i] = t})
                       + Cardinality(Running(t))
                       + (IF n = frames[c] /\ reader[c] = "submit" THEN 1 ELSE 0)
                       + (IF t \in handled THEN 1 ELSE 0)
                       + (IF t \in refused /\ Cancelled THEN 1 ELSE 0) = 1
  BY DEF RequestInOnePlace
<1> DEFINE t == <<c, n>>
           I == {i \in DOMAIN taskQueue : taskQueue[i] = t}
           W == Running(t)
<1>1. t \in FramesRead /\ frames[c] \in Nat
  BY DEF TaskInv, TasksTyped, FramesRead, AllTasks
<1>2. Cardinality(I) = IF t \in Queued THEN 1 ELSE 0
  <2>1. \A i, j \in I : i = j
    BY DEF TaskInv, OnceQueued
  <2>2. I # {} <=> t \in Queued
    BY DEF Queued
  <2> QED
    BY <2>1, <2>2, AtMostOne
<1>3. Cardinality(W) = IF t \in AtWorkers THEN 1 ELSE 0
  <2>1. \A v, w \in W : v = w
    BY DEF TaskInv, OnceAtWorkers, Running, Busy
  <2>2. W # {} <=> t \in AtWorkers
    BY DEF AtWorkers, Running, Busy
  <2> QED
    BY <2>1, <2>2, AtMostOne
<1>4. n = frames[c] /\ reader[c] = "submit" <=> t \in WithReader
  BY DEF WithReader, Task
<1>5. t \in refused => Cancelled
  BY CancelledIsStopping DEF TaskInv, TasksTyped
<1>6. Parted(FramesRead, Queued, AtWorkers, WithReader, handled, refused)
  BY DEF TaskInv
<1> HIDE DEF t, I, W
<1> DEFINE q == t \in Queued  a == t \in AtWorkers  r == t \in WithReader
           h == t \in handled  f == t \in refused
<1>7. /\ q \/ a \/ r \/ h \/ f
      /\ q => ~a /\ ~r /\ ~h /\ ~f
      /\ a => ~r /\ ~h /\ ~f
      /\ r => ~h /\ ~f
      /\ h => ~f
  BY <1>1, <1>6 DEF Parted
<1>8. (IF q THEN 1 ELSE 0) + (IF a THEN 1 ELSE 0) + (IF r THEN 1 ELSE 0)
        + (IF h THEN 1 ELSE 0) + (IF f THEN 1 ELSE 0) = 1
  <2> HIDE DEF q, a, r, h, f
  <2> QED
    BY <1>7
<1>9. /\ (n = frames[c] /\ reader[c] = "submit") <=> r
      /\ (t \in refused /\ Cancelled) <=> f
  BY <1>4, <1>5 DEF t
<1> HIDE DEF q, a, r, f
<1>10. Cardinality(I) + Cardinality(W) + (IF n = frames[c] /\ reader[c] = "submit" THEN 1 ELSE 0)
         + (IF h THEN 1 ELSE 0) + (IF t \in refused /\ Cancelled THEN 1 ELSE 0) = 1
  BY <1>2, <1>3, <1>8, <1>9 DEF q, a
<1> QED
  BY <1>10 DEF t, I, W

LEMMA TaskInvInit == StreamInit => TaskInv
<1> SUFFICES ASSUME StreamInit PROVE TaskInv
  OBVIOUS
<1>1. taskQueue \in Seq(AllTasks) /\ DOMAIN taskQueue = {}
  <2>1. taskQueue = <<>>
    BY DEF StreamInit
  <2> QED
    BY <2>1
<1>2. /\ reader = [c \in StreamConns |-> "read"] /\ frames = [c \in StreamConns |-> 0]
      /\ worker = [w \in Workers |-> Idle] /\ handled = {} /\ refused = {}
      /\ shutdown = "running"
  BY DEF StreamInit
<1>3. \A w \in Workers : ~Busy(w)
  BY <1>2 DEF Busy, Idle
<1>4. TasksTyped
  BY <1>1, <1>2, <1>3 DEF TasksTyped, Idle
<1>5. FramesRead = {} /\ Queued = {} /\ AtWorkers = {} /\ WithReader = {}
  BY <1>1, <1>2, <1>3 DEF FramesRead, AllTasks, Queued, AtWorkers, WithReader
<1> QED
  BY <1>1, <1>2, <1>3, <1>4, <1>5 DEF TaskInv, OnceQueued, OnceAtWorkers, Parted

LEMMA ReadFrameKeeps ==
  ASSUME TaskInv, NEW c \in StreamConns, ReadFrame(c)
  PROVE  TaskInv'
<1> DEFINE t == <<c, frames[c] + 1>>
<1>1. /\ reader[c] = "read" /\ frames' = [frames EXCEPT ![c] = @ + 1]
      /\ reader' = [reader EXCEPT ![c] = "submit"]
      /\ UNCHANGED <<taskQueue, worker, handled, refused, shutdown>>
  BY DEF ReadFrame, clientVars, taskVars
<1>2. TasksTyped'
  BY <1>1 DEF TaskInv, TasksTyped, Busy
<1>3. frames \in [StreamConns -> Nat] /\ reader \in [StreamConns -> {"read", "submit", "ended", "panicked"}]
  BY DEF TaskInv, TasksTyped
<1>4. FramesRead' = FramesRead \cup {t} /\ t \notin FramesRead
  BY <1>1, <1>3 DEF FramesRead, AllTasks
<1>5. WithReader' = WithReader \cup {t}
  <2>1. \A d \in StreamConns \ {c} : Task(d)' = Task(d) /\ reader'[d] = reader[d]
    BY <1>1, <1>3 DEF Task
  <2>2. Task(c)' = t /\ reader'[c] = "submit"
    BY <1>1, <1>3 DEF Task
  <2> QED
    BY <1>1, <2>1, <2>2 DEF WithReader
<1>6. Queued' = Queued /\ AtWorkers' = AtWorkers /\ OnceQueued' /\ OnceAtWorkers'
  BY <1>1 DEF Queued, AtWorkers, Busy, TaskInv, OnceQueued, OnceAtWorkers
<1> HIDE DEF t
<1> QED
  BY <1>1, <1>2, <1>4, <1>5, <1>6 DEF TaskInv, Parted

\* A reader gets rid of its request.
LEMMA ReaderDone ==
  ASSUME TaskInv, NEW c \in StreamConns, reader[c] = "submit",
         NEW next \in {"read", "panicked"}, reader' = [reader EXCEPT ![c] = next],
         UNCHANGED frames
  PROVE  /\ Task(c) \in WithReader /\ Task(c) \in AllTasks
         /\ WithReader' = WithReader \ {Task(c)} /\ FramesRead' = FramesRead
<1>1. frames \in [StreamConns -> Nat] /\ reader \in [StreamConns -> {"read", "submit", "ended", "panicked"}]
  BY DEF TaskInv, TasksTyped
<1>2. \A d \in StreamConns : Task(d)' = Task(d) /\ (Task(d) = Task(c) => d = c)
  BY DEF Task
<1>3. \A d \in StreamConns : reader'[d] = "submit" <=> reader[d] = "submit" /\ d # c
  BY <1>1
<1> QED
  BY <1>1, <1>2, <1>3 DEF WithReader, FramesRead, Task, AllTasks

LEMMA SubmitKeeps ==
  ASSUME TaskInv, NEW c \in StreamConns, SubmitTask(c) \/ SubmitPanics(c)
  PROVE  TaskInv'
<1> DEFINE t == Task(c)
<1>1. PICK next \in {"read", "panicked"} :
        /\ reader[c] = "submit" /\ reader' = [reader EXCEPT ![c] = next]
        /\ UNCHANGED <<frames, worker, handled, shutdown>>
        /\ \/ taskQueue' = Append(taskQueue, t) /\ refused' = refused
           \/ /\ refused' = refused \cup {t} /\ taskQueue' = taskQueue
              /\ Cancelled \/ QueueClosed
  BY DEF SubmitTask, SubmitPanics, Submit, clientVars
<1>2. /\ t \in WithReader /\ t \in AllTasks
      /\ WithReader' = WithReader \ {t} /\ FramesRead' = FramesRead
  BY <1>1, ReaderDone
<1> HIDE DEF t
<1>3. AtWorkers' = AtWorkers /\ OnceAtWorkers'
  BY <1>1 DEF AtWorkers, Busy, TaskInv, OnceAtWorkers
<1>4. Parted(FramesRead, Queued, AtWorkers, WithReader, handled, refused)
  BY DEF TaskInv
<1>5. taskQueue \in Seq(AllTasks) /\ OnceQueued
  BY DEF TaskInv, TasksTyped
<1>6. CASE taskQueue' = Append(taskQueue, t) /\ refused' = refused
  <2>1. /\ Append(taskQueue, t) \in Seq(AllTasks)
        /\ DOMAIN taskQueue = 1 .. Len(taskQueue) /\ Len(taskQueue) \in Nat
        /\ DOMAIN Append(taskQueue, t) = 1 .. Len(taskQueue) + 1
        /\ \A i \in 1 .. Len(taskQueue) : Append(taskQueue, t)[i] = taskQueue[i]
        /\ Append(taskQueue, t)[Len(taskQueue) + 1] = t
    BY <1>2, <1>5, AppendProperties, LenProperties
  <2>2. Queued' = Queued \cup {t}
    BY <1>6, <2>1 DEF Queued
  <2>3. t \notin Queued
    BY <1>2, <1>4 DEF Parted
  <2>4. OnceQueued'
    BY <1>5, <1>6, <2>1, <2>3 DEF OnceQueued, Queued
  <2>5. TasksTyped'
    BY <1>1, <1>6, <2>1 DEF TaskInv, TasksTyped, Busy
  <2>6. Parted(FramesRead, Queued, AtWorkers, WithReader, handled, refused)'
    BY <1>1, <1>2, <1>3, <1>4, <1>6, <2>2 DEF Parted
  <2> QED
    BY <1>1, <1>3, <1>6, <2>4, <2>5, <2>6 DEF TaskInv
<1>7. CASE /\ refused' = refused \cup {t} /\ taskQueue' = taskQueue
           /\ Cancelled \/ QueueClosed
  <2>1. shutdown \in Stopping
    BY <1>7, CancelledIsStopping DEF TaskInv, TasksTyped
  <2>2. Queued' = Queued /\ OnceQueued'
    BY <1>5, <1>7 DEF Queued, OnceQueued
  <2>3. TasksTyped'
    BY <1>1, <1>7 DEF TaskInv, TasksTyped, Busy
  <2>4. Parted(FramesRead, Queued, AtWorkers, WithReader, handled, refused)'
    BY <1>1, <1>2, <1>3, <1>4, <1>7, <2>2 DEF Parted
  <2> QED
    BY <1>1, <1>3, <2>1, <2>2, <2>3, <2>4 DEF TaskInv
<1> QED
  BY <1>1, <1>6, <1>7

LEMMA TakeKeeps ==
  ASSUME TaskInv, NEW w \in Workers, TakeTask(w)
  PROVE  TaskInv'
<1> DEFINE t == Head(taskQueue)
<1>0. PICK at \in {"run", "header"} : worker' = [worker EXCEPT ![w] = [at |-> at, task |-> t]]
  BY DEF TakeTask, Take
<1>1. /\ worker[w].at = "idle" /\ taskQueue # <<>> /\ taskQueue' = Tail(taskQueue)
      /\ UNCHANGED <<reader, frames, handled, refused, shutdown>>
  BY DEF TakeTask, Take, clientVars, readVars
<1>2. taskQueue \in Seq(AllTasks) /\ OnceQueued
  BY DEF TaskInv, TasksTyped
<1>3. /\ Tail(taskQueue) \in Seq(AllTasks) /\ t \in AllTasks /\ t = taskQueue[1]
      /\ Len(taskQueue) \in Nat /\ Len(taskQueue) > 0 /\ DOMAIN taskQueue = 1 .. Len(taskQueue)
      /\ DOMAIN Tail(taskQueue) = 1 .. Len(taskQueue) - 1
      /\ \A i \in 1 .. Len(taskQueue) - 1 : Tail(taskQueue)[i] = taskQueue[i + 1]
  BY <1>1, <1>2, HeadTailProperties, LenProperties
<1> HIDE DEF t
<1>4. t \in Queued /\ Queued' = Queued \ {t} /\ OnceQueued'
  <2>1. t \in Queued
    BY <1>3 DEF Queued
  <2>2. \A i \in 2 .. Len(taskQueue) : taskQueue[i] # t
    BY <1>2, <1>3 DEF OnceQueued
  <2>3. \A i \in 2 .. Len(taskQueue) : i - 1 \in 1 .. Len(taskQueue) - 1 /\ (i - 1) + 1 = i
    BY <1>3
  <2>4. ASSUME NEW i \in 2 .. Len(taskQueue)
        PROVE  taskQueue[i] \in Queued'
    <3>1. PICK j \in 1 .. Len(taskQueue) - 1 : j = i - 1 /\ j + 1 = i
      BY <2>3
    <3>2. j \in DOMAIN taskQueue' /\ taskQueue'[j] = taskQueue[i]
      BY <1>1, <1>3, <3>1
    <3> QED
      BY <3>2 DEF Queued
  <2>5. \A i \in 1 .. Len(taskQueue) - 1 : i + 1 \in 2 .. Len(taskQueue)
    BY <1>3
  <2>6. Queued' = Queued \ {t}
    BY <1>1, <1>3, <2>2, <2>4, <2>5 DEF Queued
  <2>7. OnceQueued'
    BY <1>1, <1>2, <1>3, <2>5 DEF OnceQueued
  <2> QED
    BY <2>1, <2>6, <2>7
<1>5. Parted(FramesRead, Queued, AtWorkers, WithReader, handled, refused)
  BY DEF TaskInv
<1>6. TasksTyped'
  BY <1>0, <1>1, <1>3 DEF TaskInv, TasksTyped, Busy
<1>7. /\ ~Busy(w) /\ Busy(w)' /\ worker'[w].task = t
      /\ \A v \in Workers \ {w} : worker'[v] = worker[v] /\ Busy(v)' = Busy(v)
  BY <1>0, <1>1 DEF Busy, TaskInv, TasksTyped
<1>8. AtWorkers' = AtWorkers \cup {t}
  BY <1>7 DEF AtWorkers
<1>9. OnceAtWorkers'
  <2>1. t \notin AtWorkers
    BY <1>4, <1>5 DEF Parted
  <2>2. \A v \in Workers \ {w} : Busy(v) => worker[v].task # t
    BY <2>1 DEF AtWorkers
  <2> QED
    BY <1>7, <2>2 DEF TaskInv, OnceAtWorkers
<1>10. FramesRead' = FramesRead /\ WithReader' = WithReader
  BY <1>1 DEF FramesRead, WithReader, Task
<1>11. Parted(FramesRead, Queued, AtWorkers, WithReader, handled, refused)'
  BY <1>1, <1>4, <1>5, <1>8, <1>10 DEF Parted
<1> QED
  BY <1>1, <1>4, <1>6, <1>9, <1>11 DEF TaskInv

LEMMA DoneKeeps ==
  ASSUME TaskInv, NEW w \in Workers, Busy(w), Done(w), UNCHANGED <<reader, frames, shutdown>>
  PROVE  TaskInv'
<1> DEFINE t == worker[w].task
<1>1. /\ worker' = [worker EXCEPT ![w] = Idle] /\ handled' = handled \cup {t}
      /\ UNCHANGED <<taskQueue, refused>>
  BY DEF Done
<1>2. t \in AtWorkers
  BY DEF AtWorkers
<1>3. /\ ~Busy(w)'
      /\ \A v \in Workers \ {w} : worker'[v] = worker[v] /\ Busy(v)' = Busy(v)
  BY <1>1 DEF Busy, Idle, TaskInv, TasksTyped
<1>4. \A v \in Workers \ {w} : Busy(v) => worker[v].task # t
  BY DEF TaskInv, OnceAtWorkers
<1>5. TasksTyped'
  BY <1>1, <1>3 DEF TaskInv, TasksTyped, Idle
<1>6. OnceAtWorkers' /\ OnceQueued'
  BY <1>1, <1>3 DEF TaskInv, OnceAtWorkers, OnceQueued
<1> HIDE DEF t
<1>7. AtWorkers' = AtWorkers \ {t}
  BY <1>3, <1>4 DEF AtWorkers, t
<1>8. FramesRead' = FramesRead /\ WithReader' = WithReader /\ Queued' = Queued
  BY <1>1 DEF FramesRead, WithReader, Task, Queued
<1>9. Parted(FramesRead, Queued, AtWorkers, WithReader, handled, refused)'
  BY <1>1, <1>2, <1>7, <1>8 DEF TaskInv, Parted
<1> QED
  BY <1>1, <1>5, <1>6, <1>9 DEF TaskInv

\* A worker goes on with what it has, or exits with nothing.
LEMMA WorkerStays ==
  ASSUME TaskInv, NEW w \in Workers, NEW at \in {"body", "exited"},
         Busy(w) <=> at = "body", worker' = [worker EXCEPT ![w].at = at],
         UNCHANGED <<reader, frames, taskQueue, handled, refused, shutdown>>
  PROVE  TaskInv'
<1>1. \A v \in Workers : worker'[v].task = worker[v].task /\ Busy(v)' = Busy(v)
  BY DEF Busy, TaskInv, TasksTyped
<1>2. TasksTyped'
  BY <1>1 DEF TaskInv, TasksTyped
<1>3. AtWorkers' = AtWorkers
  BY <1>1 DEF AtWorkers
<1>4. OnceAtWorkers' /\ OnceQueued'
  BY <1>1 DEF TaskInv, OnceAtWorkers, OnceQueued
<1>5. FramesRead' = FramesRead /\ WithReader' = WithReader /\ Queued' = Queued
  BY DEF FramesRead, WithReader, Task, Queued
<1> QED
  BY <1>2, <1>3, <1>4, <1>5 DEF TaskInv

LEMMA WorkKeeps ==
  ASSUME TaskInv, NEW w \in Workers, Work(w)
  PROVE  TaskInv'
<1>1. CASE TakeTask(w)
  BY <1>1, TakeKeeps
<1>2. CASE WorkerExits(w)
  BY <1>2, WorkerStays DEF WorkerExits, Busy, clientVars, readVars
<1>3. CASE WriteHeader(w)
  BY <1>3, WorkerStays DEF WriteHeader, Busy, clientVars, readVars
<1>4. CASE PublishUpstream(w) \/ HandlerPanics(w) \/ WriteBody(w) \/ WriteFails(w)
  BY <1>4, DoneKeeps
  DEF PublishUpstream, HandlerPanics, WriteBody, WriteFails, Busy, clientVars, readVars
<1> QED
  BY <1>1, <1>2, <1>3, <1>4 DEF Work

\* What leaves the places of requests alone.
LEMMA ElsewhereKeeps ==
  ASSUME TaskInv, UNCHANGED <<frames, taskQueue, worker, handled, refused>>,
         TasksTyped', shutdown \in Stopping => shutdown' \in Stopping,
         \A c \in StreamConns : reader'[c] = "submit" <=> reader[c] = "submit"
  PROVE  TaskInv'
<1>1. /\ FramesRead' = FramesRead /\ Queued' = Queued /\ AtWorkers' = AtWorkers
      /\ OnceQueued' /\ OnceAtWorkers'
  BY DEF FramesRead, Queued, AtWorkers, Busy, TaskInv, OnceQueued, OnceAtWorkers
<1>2. WithReader' = WithReader
  BY DEF WithReader, Task
<1> QED
  BY <1>1, <1>2 DEF TaskInv

LEMMA ShutdownKeeps ==
  ASSUME TaskInv, NEW i \in 1 .. 5, ShutdownStep(i)
  PROVE  TaskInv'
<1>1. /\ UNCHANGED <<frames, reader, taskQueue, worker, handled, refused>>
      /\ ShutdownSteps[i] = shutdown /\ shutdown' = ShutdownSteps[i + 1]
  BY DEF ShutdownStep, readVars, taskVars
<1>2. /\ ShutdownSteps[1] = "running" /\ ShutdownSteps[2] = "closedServer"
      /\ ShutdownSteps[3] = "cancelled" /\ ShutdownSteps[4] = "closedQueue"
      /\ ShutdownSteps[5] = "waited" /\ ShutdownSteps[6] = "done"
  BY DEF ShutdownSteps
<1>3. i = 1 \/ i = 2 \/ i = 3 \/ i = 4 \/ i = 5
  OBVIOUS
<1>4. /\ shutdown' \in {"running", "closedServer"} \cup Stopping
      /\ shutdown \in Stopping => shutdown' \in Stopping
  BY <1>1, <1>2, <1>3 DEF Stopping
<1>5. TasksTyped'
  BY <1>1, <1>4 DEF TaskInv, TasksTyped, Busy
<1> QED
  BY <1>1, <1>4, <1>5, ElsewhereKeeps

LEMMA TaskInvStep == TaskInv /\ [StreamNext]_streamVars => TaskInv'
<1> SUFFICES ASSUME TaskInv, [StreamNext]_streamVars PROVE TaskInv'
  OBVIOUS
<1>1. ASSUME UNCHANGED <<reader, frames, taskQueue, worker, handled, refused, shutdown>>
      PROVE  TaskInv'
  <2>1. TasksTyped'
    BY <1>1 DEF TaskInv, TasksTyped, Busy
  <2> QED
    BY <1>1, <2>1, ElsewhereKeeps
<1>2. ASSUME NEW c \in StreamConns, SetClientStream(c) \/ WriteLoop(c) PROVE TaskInv'
  BY <1>1, <1>2 DEF SetClientStream, WriteLoop, TakePush, WritePush, WriteLoopEnds,
     clientVars, readVars, taskVars
<1>3. CASE HandleDownstream \/ Send \/ UNCHANGED streamVars
  BY <1>1, <1>3 DEF HandleDownstream, Send, streamVars, clientVars, readVars, taskVars
<1>4. ASSUME NEW c \in StreamConns, Stall(c) \/ Resume(c) \/ ClientLeaves(c) \/ Close(c)
      PROVE  TaskInv'
  BY <1>1, <1>4 DEF Stall, Resume, ClientLeaves, Close, Becomes, readVars, taskVars
<1>5. ASSUME NEW c \in StreamConns, ReadEnds(c) PROVE TaskInv'
  <2>1. /\ reader[c] = "read" /\ reader' = [reader EXCEPT ![c] = "ended"]
        /\ UNCHANGED <<frames, taskQueue, worker, handled, refused, shutdown>>
    BY <1>5 DEF ReadEnds, clientVars, taskVars
  <2>2. TasksTyped' /\ \A d \in StreamConns : reader'[d] = "submit" <=> reader[d] = "submit"
    BY <2>1 DEF TaskInv, TasksTyped, Busy
  <2> QED
    BY <2>1, <2>2, ElsewhereKeeps
<1>6. ASSUME NEW c \in StreamConns, ReadFrame(c) \/ SubmitTask(c) \/ SubmitPanics(c) PROVE TaskInv'
  BY <1>6, ReadFrameKeeps, SubmitKeeps
<1>7. ASSUME NEW w \in Workers, Work(w) PROVE TaskInv'
  BY <1>7, WorkKeeps
<1>8. CASE BeginShutdown \/ Shutdown
  BY <1>8, ShutdownKeeps DEF BeginShutdown, Shutdown
<1> QED
  BY <1>2, <1>3, <1>4, <1>5, <1>6, <1>7, <1>8 DEF StreamNext, HandleStream

\* Every request is in one place, with its reader, in the queue, with one worker,
\* done, or refused by a pool that was cancelled (handler.go, workerpool/pool.go).
THEOREM StreamRequestInOnePlace == StreamSpec => []RequestInOnePlace
<1> QED
  BY TaskInvPlaces, TaskInvInit, TaskInvStep, PTL DEF StreamSpec

-----------------------------------------------------------------------------
(***************************************************************************)
(* The pushes on their way to a client: written, held by the write loop,   *)
(* in writeChan and with the NATS callback, each newer than the one before *)
(***************************************************************************)

Numbers == Nat \ {0}

PushTyped ==
  /\ pushes \in Nat
  /\ callback \in {Nothing} \cup [conn : StreamConns, push : Numbers]
  /\ writeChan \in [StreamConns -> Seq(Numbers)]
  /\ writing \in [StreamConns -> Int]
  /\ written \in [StreamConns -> Seq(Numbers)]

\* The last push that is with a connection, or was dropped.
Newest == IF callback = Nothing THEN pushes ELSE pushes - 1

Rising(s) == \A i, j \in DOMAIN s : i < j => s[i] < s[j]

\* All of s, and what the write loop may hold.
Below(s, x) == \A i \in DOMAIN s : s[i] < x
Above(s, x) == \A i \in DOMAIN s : x < s[i]

InLine(c) ==
  /\ Rising(written[c]) /\ Rising(writeChan[c])
  /\ \A i \in DOMAIN writeChan[c] : Below(written[c], writeChan[c][i])
  /\ writing[c] > 0 =>
       /\ Below(written[c], writing[c]) /\ Above(writeChan[c], writing[c])
       /\ writing[c] <= Newest
  /\ Below(written[c], Newest + 1) /\ Below(writeChan[c], Newest + 1)

PushInv ==
  /\ PushTyped
  /\ callback # Nothing => callback.push = pushes
  /\ \A c \in StreamConns : InLine(c)

LEMMA PushInvOrder == PushInv => PushesInOrder
BY DEF PushInv, InLine, Rising, PushesInOrder

LEMMA PushInvInit == StreamInit => PushInv
<1> SUFFICES ASSUME StreamInit PROVE PushInv
  OBVIOUS
<1>1. /\ writeChan = [c \in StreamConns |-> <<>>] /\ written = writeChan
      /\ writing = [c \in StreamConns |-> Waits] /\ pushes = 0 /\ callback = Nothing
  BY DEF StreamInit
<1>2. <<>> \in Seq(Numbers) /\ DOMAIN <<>> = {}
  OBVIOUS
<1>3. PushTyped
  BY <1>1, <1>2 DEF PushTyped, Waits
<1> QED
  BY <1>1, <1>2, <1>3 DEF PushInv, InLine, Rising, Below, Above, Waits

LEMMA DownstreamKeeps ==
  ASSUME PushInv, HandleDownstream
  PROVE  PushInv'
<1>1. /\ callback = Nothing /\ pushes' = pushes + 1
      /\ UNCHANGED <<writeChan, writing, written>>
  BY DEF HandleDownstream
<1>2. PICK c \in StreamConns : callback' = [conn |-> c, push |-> pushes + 1]
  BY DEF HandleDownstream
<1>3. pushes \in Nat
  BY DEF PushInv, PushTyped
<1>4. callback' \in [conn : StreamConns, push : Numbers] /\ callback'.push = pushes + 1
  BY <1>2, <1>3 DEF Numbers
<1>5. callback' # Nothing
  BY <1>4, NothingAssumption DEF Numbers
<1>6. PushTyped'
  BY <1>1, <1>3, <1>4 DEF PushInv, PushTyped
<1>7. Newest' = Newest
  BY <1>1, <1>3, <1>5 DEF Newest
<1>8. \A d \in StreamConns : InLine(d)'
  BY <1>1, <1>7 DEF PushInv, InLine, Rising, Below, Above
<1> QED
  BY <1>1, <1>4, <1>6, <1>8 DEF PushInv

\* A push that is newer than those of a sequence.
LEMMA RisingAppend ==
  ASSUME NEW s \in Seq(Numbers), NEW x \in Numbers, Rising(s), Below(s, x)
  PROVE  LET t == Append(s, x)
         IN /\ t \in Seq(Numbers) /\ Rising(t)
            /\ \A y \in Int : Below(s, y) /\ x < y => Below(t, y)
            /\ \A y \in Int : Above(s, y) /\ y < x => Above(t, y)
            /\ \A i \in DOMAIN t : t[i] = x \/ (i \in DOMAIN s /\ t[i] = s[i])
<1> DEFINE t == Append(s, x)
<1>1. /\ t \in Seq(Numbers) /\ DOMAIN s = 1 .. Len(s) /\ Len(s) \in Nat
      /\ DOMAIN t = 1 .. Len(s) + 1 /\ t[Len(s) + 1] = x
      /\ \A i \in 1 .. Len(s) : t[i] = s[i]
  BY AppendProperties, LenProperties
<1> HIDE DEF t
<1>2. \A i \in DOMAIN t : i = Len(s) + 1 \/ (i \in DOMAIN s /\ t[i] = s[i] /\ i <= Len(s))
  BY <1>1
<1>3. Rising(t)
  BY <1>1, <1>2 DEF Rising, Below
<1> QED
  BY <1>1, <1>2, <1>3 DEF Below, Above, t

LEMMA SendKeeps ==
  ASSUME PushInv, Send
  PROVE  PushInv'
<1>1. /\ callback # Nothing /\ callback' = Nothing
      /\ UNCHANGED <<writing, written, pushes>>
      /\ \/ writeChan' = [writeChan EXCEPT ![callback.conn] = Append(@, callback.push)]
         \/ writeChan' = writeChan
  BY DEF Send, Enqueue
<1>2. /\ callback.conn \in StreamConns /\ callback.push \in Numbers /\ callback.push = pushes
      /\ pushes \in Numbers
  BY <1>1 DEF PushInv, PushTyped
<1>3. Newest = pushes - 1 /\ Newest' = pushes
  BY <1>1, <1>2 DEF Newest, Numbers
<1>4. /\ written \in [StreamConns -> Seq(Numbers)] /\ writeChan \in [StreamConns -> Seq(Numbers)]
      /\ writing \in [StreamConns -> Int]
  BY DEF PushInv, PushTyped
<1>5. ASSUME NEW c \in StreamConns
      PROVE  /\ \A i \in DOMAIN written[c] : written[c][i] \in Numbers
             /\ \A i \in DOMAIN writeChan[c] : writeChan[c][i] \in Numbers
  BY <1>4, ElementOfSeq, LenProperties
<1>6. ASSUME NEW c \in StreamConns, writeChan'[c] = writeChan[c] PROVE InLine(c)'
  <2>1. InLine(c) /\ writing[c] \in Int
    BY <1>4 DEF PushInv
  <2>2. Below(written[c], pushes + 1) /\ Below(writeChan[c], pushes + 1)
    BY <1>2, <1>3, <1>5, <2>1 DEF InLine, Below, Numbers
  <2>3. writing[c] > 0 => writing[c] <= pushes
    BY <1>2, <1>3, <2>1 DEF InLine, Numbers
  <2> QED
    BY <1>1, <1>3, <1>6, <2>1, <2>2, <2>3 DEF InLine
<1>7. CASE writeChan' = writeChan
  <2>1. PushTyped'
    BY <1>1, <1>7 DEF PushInv, PushTyped
  <2> QED
    BY <1>1, <1>6, <1>7, <2>1 DEF PushInv
<1>8. CASE writeChan' = [writeChan EXCEPT ![callback.conn] = Append(@, callback.push)]
  <2> PICK c \in StreamConns : c = callback.conn
    BY <1>2
  <2> DEFINE s == writeChan[c]
             t == Append(s, pushes)
  <2>1. /\ c \in StreamConns /\ writeChan'[c] = t
        /\ \A d \in StreamConns \ {c} : writeChan'[d] = writeChan[d]
    BY <1>2, <1>4, <1>8
  <2>2. InLine(c) /\ s \in Seq(Numbers) /\ writing[c] \in Int
    BY <1>2, <1>4 DEF PushInv
  <2>3. Rising(s) /\ Below(s, pushes)
    BY <1>2, <1>3, <2>2 DEF InLine, Numbers
  <2> HIDE DEF s
  <2>4. /\ t \in Seq(Numbers) /\ Rising(t)
        /\ \A y \in Int : Below(s, y) /\ pushes < y => Below(t, y)
        /\ \A y \in Int : Above(s, y) /\ y < pushes => Above(t, y)
        /\ \A i \in DOMAIN t : t[i] = pushes \/ (i \in DOMAIN s /\ t[i] = s[i])
    BY <1>2, <2>2, <2>3, RisingAppend
  <2> HIDE DEF t
  <2>5. PushTyped'
    BY <1>1, <1>4, <1>8, <2>1, <2>4 DEF PushInv, PushTyped, s, t
  <2>6. Below(written[c], pushes) /\ Below(written[c], pushes + 1)
    BY <1>2, <1>3, <1>5, <2>1, <2>2 DEF InLine, Below, Numbers
  <2>7. Below(t, pushes + 1)
    <3>1. Below(s, pushes + 1)
      BY <1>2, <1>5, <2>1, <2>3 DEF Below, Numbers, s
    <3> QED
      BY <1>2, <2>4, <3>1 DEF Numbers
  <2>8. writing[c] > 0 =>
          Below(written[c], writing[c]) /\ Above(t, writing[c]) /\ writing[c] <= pushes
    <3>1. writing[c] > 0 => writing[c] < pushes /\ Above(s, writing[c]) /\ Below(written[c], writing[c])
      BY <1>2, <1>3, <2>2 DEF InLine, Numbers, s
    <3> QED
      BY <1>2, <2>2, <2>4, <3>1 DEF Numbers
  <2>9. \A i \in DOMAIN t : Below(written[c], t[i])
    BY <2>2, <2>4, <2>6 DEF InLine, s
  <2>10. Rising(written[c])
    BY <2>2 DEF InLine
  <2>11. InLine(c)'
    BY <1>1, <1>3, <2>1, <2>4, <2>6, <2>7, <2>8, <2>9, <2>10 DEF InLine
  <2>12. \A d \in StreamConns : InLine(d)'
    BY <1>6, <2>1, <2>11
  <2> QED
    BY <1>1, <2>5, <2>12 DEF PushInv
<1> QED
  BY <1>1, <1>7, <1>8

LEMMA RemoveFirstIs ==
  ASSUME NEW s \in Seq(Numbers), s # <<>>
  PROVE  LET t == Seqs!RemoveAt(s, 1)
         IN /\ t \in Seq(Numbers) /\ Len(s) > 0 /\ DOMAIN t = 1 .. Len(s) - 1
            /\ \A i \in DOMAIN t : t[i] = s[i + 1] /\ i + 1 \in DOMAIN s
<1>1. Len(s) \in Nat /\ Len(s) > 0 /\ DOMAIN s = 1 .. Len(s)
  BY LenProperties, EmptySeq
<1>2. SubSeq(s, 1, 0) = <<>>
  BY SubSeqEmpty
<1> DEFINE u == SubSeq(s, 2, Len(s))
<1>3. /\ u \in Seq(Numbers) /\ Len(u) = Len(s) - 1
      /\ \A i \in 1 .. Len(s) - 1 : u[i] = s[2 + i - 1]
  BY <1>1, SubSeqProperties
<1>4. DOMAIN u = 1 .. Len(s) - 1
  BY <1>3, LenProperties
<1> HIDE DEF u
<1>5. <<>> \o u = u
  BY <1>3, ConcatEmptySeq
<1>6. Seqs!RemoveAt(s, 1) = u
  BY <1>2, <1>5 DEF Seqs!RemoveAt, u
<1> QED
  BY <1>1, <1>3, <1>4, <1>6

LEMMA TakePushKeeps ==
  ASSUME PushInv, NEW c \in StreamConns, TakePush(c)
  PROVE  PushInv'
<1> DEFINE s == writeChan[c]
           t == Seqs!RemoveAt(s, 1)
<1>1. /\ 1 \in DOMAIN writeChan[c] /\ writing[c] = Waits
      /\ writing' = [writing EXCEPT ![c] = s[1]]
      /\ writeChan' = [writeChan EXCEPT ![c] = t]
      /\ UNCHANGED <<written, pushes, callback>>
  BY DEF TakePush, Next
<1>2. /\ writeChan \in [StreamConns -> Seq(Numbers)] /\ writing \in [StreamConns -> Int]
      /\ s \in Seq(Numbers)
  BY DEF PushInv, PushTyped
<1>3. s # <<>> /\ s[1] \in Numbers /\ DOMAIN s = 1 .. Len(s) /\ Len(s) \in Nat
      /\ \A i \in DOMAIN s : s[i] \in Numbers
  BY <1>1, <1>2, LenProperties, ElementOfSeq
<1>4. /\ writeChan'[c] = t /\ writing'[c] = s[1]
      /\ \A d \in StreamConns \ {c} : writeChan'[d] = writeChan[d] /\ writing'[d] = writing[d]
  BY <1>1, <1>2
<1>5. InLine(c) /\ pushes \in Nat
  BY DEF PushInv, PushTyped
<1> HIDE DEF s
<1>6. /\ t \in Seq(Numbers) /\ DOMAIN t = 1 .. Len(s) - 1
      /\ \A i \in DOMAIN t : t[i] = s[i + 1] /\ i + 1 \in DOMAIN s
  BY <1>2, <1>3, RemoveFirstIs
<1> HIDE DEF t
<1>7. PushTyped'
  <2>1. writeChan' \in [StreamConns -> Seq(Numbers)]
    BY <1>1, <1>2, <1>6
  <2>2. writing' \in [StreamConns -> Int]
    BY <1>1, <1>2, <1>3 DEF Numbers
  <2> QED
    BY <1>1, <2>1, <2>2 DEF PushInv, PushTyped
<1>8. /\ Rising(s) /\ \A i \in DOMAIN s : Below(written[c], s[i])
      /\ Below(s, Newest + 1) /\ Rising(written[c]) /\ Below(written[c], Newest + 1)
  BY <1>5 DEF InLine, s
<1>9. Newest' = Newest /\ Newest \in Int
  BY <1>1, <1>5 DEF Newest
<1>10. \A i \in DOMAIN t : i \in Nat /\ i > 0
  BY <1>3, <1>6
<1>11. Rising(t) /\ Above(t, s[1]) /\ Below(t, Newest + 1)
  BY <1>3, <1>6, <1>8, <1>10 DEF Rising, Above, Below
<1>12. s[1] <= Newest /\ Below(written[c], s[1])
  BY <1>3, <1>8, <1>9 DEF Below, Numbers, s
<1>13. \A i \in DOMAIN t : Below(written[c], t[i])
  BY <1>6, <1>8
<1>14. InLine(c)'
  BY <1>1, <1>4, <1>8, <1>9, <1>11, <1>12, <1>13 DEF InLine
<1>15. \A d \in StreamConns \ {c} : InLine(d)'
  BY <1>1, <1>4, <1>9 DEF PushInv, InLine
<1> QED
  BY <1>1, <1>7, <1>14, <1>15 DEF PushInv

LEMMA WritePushKeeps ==
  ASSUME PushInv, NEW c \in StreamConns, WritePush(c)
  PROVE  PushInv'
<1> DEFINE s == written[c]
           x == writing[c]
           t == Append(s, x)
<1>1. /\ x > 0 /\ writing' = [writing EXCEPT ![c] = Waits]
      /\ UNCHANGED <<writeChan, pushes, callback>>
      /\ written' = [written EXCEPT ![c] = t] \/ written' = written
  BY DEF WritePush
<1>2. /\ written \in [StreamConns -> Seq(Numbers)] /\ writing \in [StreamConns -> Int]
      /\ InLine(c) /\ pushes \in Nat
  BY DEF PushInv, PushTyped
<1>3. s \in Seq(Numbers) /\ x \in Numbers
  BY <1>1, <1>2 DEF Numbers
<1>4. /\ Rising(s) /\ Rising(writeChan[c]) /\ Below(s, x) /\ Above(writeChan[c], x) /\ x <= Newest
      /\ \A i \in DOMAIN writeChan[c] : Below(s, writeChan[c][i]) /\ writeChan[c][i] \in Int
      /\ Below(s, Newest + 1) /\ Below(writeChan[c], Newest + 1)
  <2>1. \A i \in DOMAIN writeChan[c] : writeChan[c][i] \in Int
    <3>1. writeChan[c] \in Seq(Numbers)
      BY DEF PushInv, PushTyped
    <3>2. \A i \in DOMAIN writeChan[c] : writeChan[c][i] \in Numbers
      BY <3>1, ElementOfSeq, LenProperties
    <3> QED
      BY <3>2 DEF Numbers
  <2> QED
    BY <1>1, <1>2, <2>1 DEF InLine
<1>5. /\ writing'[c] = Waits
      /\ \A d \in StreamConns \ {c} : written'[d] = written[d] /\ writing'[d] = writing[d]
      /\ written'[c] = t \/ written'[c] = s
  BY <1>1, <1>2
<1>6. Newest' = Newest /\ Newest \in Int
  BY <1>1, <1>2 DEF Newest
<1> HIDE DEF s, x
<1>7. /\ t \in Seq(Numbers) /\ Rising(t)
      /\ \A y \in Int : Below(s, y) /\ x < y => Below(t, y)
  BY <1>3, <1>4, RisingAppend
<1> HIDE DEF t
<1>8. PushTyped'
  <2>1. written' \in [StreamConns -> Seq(Numbers)]
    BY <1>1, <1>2, <1>7
  <2>2. writing' \in [StreamConns -> Int]
    BY <1>1, <1>2 DEF Waits
  <2> QED
    BY <1>1, <2>1, <2>2 DEF PushInv, PushTyped
<1>9. ASSUME written'[c] = t PROVE InLine(c)'
  <2>1. \A i \in DOMAIN writeChan[c] : Below(t, writeChan[c][i])
    BY <1>4, <1>7 DEF Above
  <2>2. Below(t, Newest + 1)
    BY <1>3, <1>4, <1>6, <1>7 DEF Numbers
  <2> QED
    BY <1>1, <1>4, <1>5, <1>6, <1>7, <1>9, <2>1, <2>2 DEF InLine, Waits
<1>10. ASSUME written'[c] = s PROVE InLine(c)'
  BY <1>1, <1>4, <1>5, <1>6, <1>10 DEF InLine, Waits
<1>11. \A d \in StreamConns \ {c} : InLine(d)'
  BY <1>1, <1>5, <1>6 DEF PushInv, InLine
<1> QED
  BY <1>1, <1>5, <1>8, <1>9, <1>10, <1>11 DEF PushInv

LEMMA PushInvStep == PushInv /\ [StreamNext]_streamVars => PushInv'
<1> SUFFICES ASSUME PushInv, [StreamNext]_streamVars PROVE PushInv'
  OBVIOUS
<1>1. ASSUME UNCHANGED pushVars PROVE PushInv'
  BY <1>1 DEF pushVars, PushInv, PushTyped, InLine, Newest
<1>2. ASSUME NEW c \in StreamConns, HandleStream(c) \/ ReadFrame(c) PROVE PushInv'
  BY <1>1, <1>2 DEF HandleStream, SetClientStream, ReadEnds, SubmitTask, SubmitPanics, ReadFrame
<1>3. ASSUME NEW w \in Workers, Work(w) PROVE PushInv'
  BY <1>1, <1>3 DEF Work, TakeTask, WorkerExits, PublishUpstream, HandlerPanics, WriteHeader,
     WriteBody, WriteFails
<1>4. ASSUME NEW c \in StreamConns, Stall(c) \/ Resume(c) \/ ClientLeaves(c) \/ Close(c)
      PROVE  PushInv'
  BY <1>1, <1>4 DEF Stall, Resume, ClientLeaves, Close, Becomes
<1>5. CASE BeginShutdown \/ Shutdown
  BY <1>1, <1>5 DEF BeginShutdown, Shutdown, ShutdownStep
<1>6. CASE UNCHANGED streamVars
  BY <1>1, <1>6 DEF streamVars, pushVars
<1>7. ASSUME NEW c \in StreamConns, WriteLoopEnds(c) PROVE PushInv'
  <2>1. /\ writing[c] = Waits /\ writing' = [writing EXCEPT ![c] = Ended]
        /\ UNCHANGED <<writeChan, written, pushes, callback>>
    BY <1>7 DEF WriteLoopEnds
  <2>2. PushTyped'
    BY <2>1 DEF PushInv, PushTyped, Ended
  <2>3. Newest' = Newest
    BY <2>1 DEF Newest
  <2>4. \A d \in StreamConns : writing'[d] = writing[d] \/ (d = c /\ ~(writing'[d] > 0))
    BY <2>1 DEF PushInv, PushTyped, Ended
  <2>5. \A d \in StreamConns : InLine(d)'
    BY <2>1, <2>3, <2>4 DEF PushInv, InLine
  <2> QED
    BY <2>1, <2>2, <2>5 DEF PushInv
<1>8. ASSUME NEW c \in StreamConns, WriteLoop(c) PROVE PushInv'
  BY <1>7, <1>8, TakePushKeeps, WritePushKeeps DEF WriteLoop
<1>9. CASE HandleDownstream \/ Send
  BY <1>9, DownstreamKeeps, SendKeeps
<1> QED
  BY <1>2, <1>3, <1>4, <1>5, <1>6, <1>8, <1>9 DEF StreamNext

\* Pushes reach a client's stream in the order in which logic sent them, for any
\* connections, channel sizes and number of pushes (connection.go).
THEOREM StreamPushesInOrder == StreamSpec => []PushesInOrder
<1> QED
  BY PushInvOrder, PushInvInit, PushInvStep, PTL DEF StreamSpec

-----------------------------------------------------------------------------
(* The bounds of the channels, and who is between a header and its body. *)

HeaderWritten(c) == {w \in Workers : worker[w].at = "body" /\ worker[w].task[1] = c}

ChannelsInv ==
  /\ stream \in [StreamConns -> {"unset", "open", "stalled", "closed"}]
  /\ half \in [StreamConns -> SUBSET Workers]
  /\ \A c \in StreamConns :
       half[c] = HeaderWritten(c) /\ Len(writeChan[c]) <= WriteChanSize /\ frames[c] <= MaxFrames
  /\ Len(taskQueue) <= QueueSize

LEMMA ChannelsTyped == TaskInv /\ ChannelsInv => StreamTypeOK
<1> SUFFICES ASSUME TaskInv, ChannelsInv PROVE StreamTypeOK
  OBVIOUS
<1>1. Seqs!ToSet(taskQueue) \subseteq Tasks
  <2>1. Queued \subseteq FramesRead
    BY DEF TaskInv, Parted
  <2>2. \A t \in FramesRead : t \in Tasks
    BY FramesAssumption DEF FramesRead, AllTasks, Tasks, ChannelsInv, TaskInv, TasksTyped
  <2> QED
    BY <2>1, <2>2 DEF Seqs!ToSet, Queued
<1> QED
  BY <1>1 DEF StreamTypeOK, ChannelsInv, HeaderWritten, TaskInv, TasksTyped

LEMMA ChannelsInit == StreamInit => ChannelsInv
<1> SUFFICES ASSUME StreamInit PROVE ChannelsInv
  OBVIOUS
<1>1. \A c \in StreamConns : HeaderWritten(c) = {}
  BY DEF HeaderWritten, StreamInit, Idle
<1>2. Len(taskQueue) = 0 /\ \A c \in StreamConns : Len(writeChan[c]) = 0
  <2>1. taskQueue = <<>> /\ \A c \in StreamConns : writeChan[c] = <<>>
    BY DEF StreamInit
  <2> QED
    BY <2>1
<1>3. /\ stream = [c \in StreamConns |-> "unset"] /\ half = [c \in StreamConns |-> {}]
      /\ frames = [c \in StreamConns |-> 0]
  BY DEF StreamInit
<1> QED
  BY <1>1, <1>2, <1>3, QueueAssumption, FramesAssumption DEF ChannelsInv

\* What one worker does to the headers, by where it was and where it goes.
LEMMA HeadersMove ==
  ASSUME TaskInv, ChannelsInv, NEW w \in Workers, NEW r, worker' = [worker EXCEPT ![w] = r],
         NEW c \in StreamConns,
         half'[c] = IF r.at = "body" /\ r.task[1] = c THEN half[c] \cup {w} ELSE half[c] \ {w}
  PROVE  half'[c] = HeaderWritten(c)'
<1>1. worker'[w] = r /\ \A v \in Workers \ {w} : worker'[v] = worker[v]
  BY DEF TaskInv, TasksTyped
<1> QED
  BY <1>1 DEF ChannelsInv, HeaderWritten

LEMMA WorkHeaders ==
  ASSUME TaskInv, ChannelsInv, NEW w \in Workers, Work(w)
  PROVE  /\ half' \in [StreamConns -> SUBSET Workers]
         /\ \A c \in StreamConns : half'[c] = HeaderWritten(c)'
<1>1. /\ half \in [StreamConns -> SUBSET Workers]
      /\ \A c \in StreamConns : half[c] = HeaderWritten(c)
  BY DEF ChannelsInv
<1>2. \A c \in StreamConns :
        w \in half[c] => worker[w].at = "body" /\ worker[w].task[1] = c
  BY <1>1 DEF HeaderWritten
<1>3. worker \in [Workers -> [at : {"idle", "run", "header", "body", "exited"},
                            task : AllTasks \cup {Nothing}]]
      /\ (Busy(w) => worker[w].task[1] \in StreamConns)
  BY DEF TaskInv, TasksTyped, AllTasks
<1>4. CASE TakeTask(w) \/ WorkerExits(w)
  <2>1. PICK r : worker' = [worker EXCEPT ![w] = r] /\ r.at # "body"
    BY <1>3, <1>4 DEF TakeTask, Take, WorkerExits
  <2>2. half' = half /\ \A c \in StreamConns : w \notin half[c]
    BY <1>2, <1>4 DEF TakeTask, Take, WorkerExits
  <2> QED
    BY <1>1, <2>1, <2>2, HeadersMove
<1>5. CASE PublishUpstream(w) \/ HandlerPanics(w)
  <2>1. worker' = [worker EXCEPT ![w] = Idle] /\ Idle.at # "body"
    BY <1>5 DEF PublishUpstream, HandlerPanics, Done, Idle
  <2>2. half' = half /\ \A c \in StreamConns : w \notin half[c]
    BY <1>2, <1>5 DEF PublishUpstream, HandlerPanics
  <2> QED
    BY <1>1, <2>1, <2>2, HeadersMove
<1>6. CASE WriteHeader(w)
  <2> DEFINE d == worker[w].task[1]
             r == [worker[w] EXCEPT !.at = "body"]
  <2>1. worker' = [worker EXCEPT ![w] = r] /\ worker[w].at = "header"
        /\ half' = [half EXCEPT ![d] = @ \cup {w}]
    BY <1>6 DEF WriteHeader
  <2>2. d \in StreamConns /\ r.at = "body" /\ r.task[1] = d
    BY <1>3, <2>1 DEF Busy
  <2>3. \A c \in StreamConns : w \notin half[c]
    BY <1>2, <2>1
  <2> HIDE DEF d, r
  <2>4. \A c \in StreamConns :
          half'[c] = IF r.at = "body" /\ r.task[1] = c THEN half[c] \cup {w} ELSE half[c] \ {w}
    BY <1>1, <2>1, <2>2, <2>3
  <2> QED
    BY <1>1, <2>1, <2>4, HeadersMove
<1>7. CASE WriteBody(w) \/ WriteFails(w)
  <2> DEFINE d == worker[w].task[1]
  <2>1. worker' = [worker EXCEPT ![w] = Idle] /\ Idle.at # "body"
        /\ half' = [half EXCEPT ![d] = @ \ {w}]
    BY <1>7 DEF WriteBody, WriteFails, Done, Idle
  <2>2. \A c \in StreamConns \ {d} : w \notin half[c]
    BY <1>2
  <2> HIDE DEF d
  <2>3. \A c \in StreamConns : half'[c] = half[c] \ {w}
    BY <1>1, <2>1, <2>2
  <2> QED
    BY <1>1, <2>1, <2>3, HeadersMove
<1> QED
  BY <1>4, <1>5, <1>6, <1>7 DEF Work

LEMMA ChannelsStep ==
  TaskInv /\ PushInv /\ ChannelsInv /\ [StreamNext]_streamVars => ChannelsInv'
<1> SUFFICES ASSUME TaskInv, PushInv, ChannelsInv, [StreamNext]_streamVars PROVE ChannelsInv'
  OBVIOUS
<1>1. /\ taskQueue \in Seq(AllTasks) /\ writeChan \in [StreamConns -> Seq(Numbers)]
      /\ frames \in [StreamConns -> Nat]
  BY DEF TaskInv, TasksTyped, PushInv, PushTyped
<1>2. QueueSize \in Nat /\ WriteChanSize \in Nat /\ MaxFrames \in Nat
  BY QueueAssumption, FramesAssumption
<1>3. Len(taskQueue) \in Nat /\ \A c \in StreamConns : Len(writeChan[c]) \in Nat
  BY <1>1, LenProperties
<1>4. Len(taskQueue') <= QueueSize
  <2>1. CASE \E c \in StreamConns : SubmitTask(c) /\ taskQueue' = Append(taskQueue, Task(c))
    <3>1. PICK c \in StreamConns : SubmitTask(c) /\ taskQueue' = Append(taskQueue, Task(c))
      BY <2>1
    <3>2. Task(c) \in AllTasks
      BY <1>1 DEF Task, AllTasks
    <3>3. Len(taskQueue') = Len(taskQueue) + 1
      BY <1>1, <3>1, <3>2, AppendProperties
    <3>4. Len(taskQueue) < QueueSize
      <4>1. taskQueue' # taskQueue
        BY <1>3, <3>3
      <4> QED
        BY <3>1, <4>1 DEF SubmitTask, Submit
    <3> QED
      BY <1>2, <1>3, <3>3, <3>4
  <2>2. CASE taskQueue' = taskQueue
    BY <2>2 DEF ChannelsInv
  <2>3. CASE \E w \in Workers : TakeTask(w)
    <3>1. taskQueue # <<>> /\ taskQueue' = Tail(taskQueue)
      BY <2>3 DEF TakeTask, Take
    <3>2. Len(taskQueue') = Len(taskQueue) - 1
      BY <1>1, <3>1, HeadTailProperties
    <3> QED
      BY <1>2, <1>3, <3>2 DEF ChannelsInv
  <2>4. \/ \E c \in StreamConns : SubmitTask(c) /\ taskQueue' = Append(taskQueue, Task(c))
        \/ taskQueue' = taskQueue \/ \E w \in Workers : TakeTask(w)
    BY DEF StreamNext, HandleStream, SetClientStream, ReadEnds, SubmitTask, SubmitPanics, Submit,
      ReadFrame, WriteLoop, TakePush, WritePush, WriteLoopEnds, Work, WorkerExits, PublishUpstream,
      HandlerPanics, WriteHeader, WriteBody, WriteFails, Done, HandleDownstream, Send, Stall, Resume,
      ClientLeaves, Close, Becomes, BeginShutdown, Shutdown, ShutdownStep, streamVars, taskVars
  <2> QED
    BY <2>1, <2>2, <2>3, <2>4
<1>5. ASSUME NEW c \in StreamConns PROVE Len(writeChan'[c]) <= WriteChanSize
  <2>1. CASE Send /\ writeChan' # writeChan
    <3>1. /\ Len(writeChan[callback.conn]) < WriteChanSize
          /\ writeChan' = [writeChan EXCEPT ![callback.conn] = Append(@, callback.push)]
          /\ callback # Nothing
      BY <2>1 DEF Send, Enqueue
    <3>2. callback.conn \in StreamConns /\ callback.push \in Numbers
      BY <3>1 DEF PushInv, PushTyped
    <3>3. Len(Append(writeChan[callback.conn], callback.push)) = Len(writeChan[callback.conn]) + 1
      BY <1>1, <3>2, AppendProperties
    <3> QED
      BY <1>1, <1>2, <1>3, <3>1, <3>2, <3>3 DEF ChannelsInv
  <2>2. ASSUME NEW d \in StreamConns, TakePush(d) PROVE Len(writeChan'[c]) <= WriteChanSize
    <3>1. /\ 1 \in DOMAIN writeChan[d] /\ writeChan' = [writeChan EXCEPT ![d] = Seqs!RemoveAt(@, 1)]
      BY <2>2 DEF TakePush, Next
    <3>2. writeChan[d] # <<>> /\ writeChan[d] \in Seq(Numbers)
      BY <1>1, <3>1
    <3>3. Seqs!RemoveAt(writeChan[d], 1) \in Seq(Numbers)
          /\ DOMAIN Seqs!RemoveAt(writeChan[d], 1) = 1 .. Len(writeChan[d]) - 1 /\ Len(writeChan[d]) > 0
      BY <3>2, RemoveFirstIs
    <3>4. Len(Seqs!RemoveAt(writeChan[d], 1)) = Len(writeChan[d]) - 1
      BY <1>3, <3>3, LenProperties
    <3> QED
      BY <1>1, <1>2, <1>3, <3>1, <3>4 DEF ChannelsInv
  <2>3. writeChan' = writeChan \/ Send \/ \E d \in StreamConns : TakePush(d)
    BY DEF StreamNext, HandleStream, SetClientStream, ReadEnds, SubmitTask, SubmitPanics,
      ReadFrame, WriteLoop, WritePush, WriteLoopEnds, Work, TakeTask, WorkerExits, PublishUpstream,
      HandlerPanics, WriteHeader, WriteBody, WriteFails, HandleDownstream, Stall, Resume,
      ClientLeaves, Close, Becomes, BeginShutdown, Shutdown, ShutdownStep, streamVars, pushVars
  <2> QED
    BY <2>1, <2>2, <2>3 DEF ChannelsInv
<1>6. ASSUME NEW c \in StreamConns PROVE frames'[c] <= MaxFrames
  <2>1. CASE \E d \in StreamConns : ReadFrame(d)
    BY <1>1, <1>2, <2>1 DEF ReadFrame, ChannelsInv
  <2>2. frames' = frames \/ \E d \in StreamConns : ReadFrame(d)
    BY DEF StreamNext, HandleStream, SetClientStream, ReadEnds, SubmitTask, SubmitPanics,
      WriteLoop, TakePush, WritePush, WriteLoopEnds, Work, TakeTask, WorkerExits, PublishUpstream,
      HandlerPanics, WriteHeader, WriteBody, WriteFails, HandleDownstream, Send, Stall, Resume,
      ClientLeaves, Close, Becomes, BeginShutdown, Shutdown, ShutdownStep, streamVars, readVars
  <2> QED
    BY <2>1, <2>2 DEF ChannelsInv
<1>7. stream' \in [StreamConns -> {"unset", "open", "stalled", "closed"}]
  <2>1. \/ stream' = stream \/ stream' = Streams
        \/ \E c \in StreamConns, s \in {"open", "stalled", "closed"} :
             stream' = [stream EXCEPT ![c] = s]
    BY DEF StreamNext, HandleStream, SetClientStream, ReadEnds, SubmitTask, SubmitPanics, ReadFrame,
      WriteLoop, TakePush, WritePush, WriteLoopEnds, Work, TakeTask, WorkerExits, PublishUpstream,
      HandlerPanics, WriteHeader, WriteBody, WriteFails, HandleDownstream, Send, Stall, Resume,
      ClientLeaves, Close, Becomes, BeginShutdown, Shutdown, ShutdownStep, streamVars, clientVars
  <2> QED
    BY <2>1 DEF ChannelsInv, Streams
<1>8. /\ half' \in [StreamConns -> SUBSET Workers]
      /\ \A c \in StreamConns : half'[c] = HeaderWritten(c)'
  <2>1. CASE UNCHANGED <<half, worker>>
    BY <2>1 DEF ChannelsInv, HeaderWritten
  <2>2. CASE \E w \in Workers : Work(w)
    BY <2>2, WorkHeaders
  <2>3. UNCHANGED <<half, worker>> \/ \E w \in Workers : Work(w)
    BY DEF StreamNext, HandleStream, SetClientStream, ReadEnds, SubmitTask, SubmitPanics, ReadFrame,
      WriteLoop, TakePush, WritePush, WriteLoopEnds, HandleDownstream, Send, Stall, Resume,
      ClientLeaves, Close, Becomes, BeginShutdown, Shutdown, ShutdownStep, streamVars, taskVars
  <2> QED
    BY <2>1, <2>2, <2>3
<1> QED
  BY <1>4, <1>5, <1>6, <1>7, <1>8 DEF ChannelsInv

\* Types; the queue of the pool and the channels of the connections keep their
\* bounds; and a header without a body has a worker about to write it.
THEOREM StreamTyped == StreamSpec => []StreamTypeOK
<1>1. TaskInv /\ ChannelsInv => StreamTypeOK
  BY ChannelsTyped
<1> QED
  BY <1>1, TaskInvInit, TaskInvStep, PushInvInit, PushInvStep, ChannelsInit, ChannelsStep, PTL
  DEF StreamSpec

-----------------------------------------------------------------------------
(***************************************************************************)
(* The client's connection.  While connects do not overlap everything but  *)
(* the last call, the one that made the controller, is over and closed.    *)
(***************************************************************************)

Stages == {"none", "ready", "stream", "auth", "done", "failed"}
NetStates == {"none", "connecting", "open", "closed"}

ConnectionTyped ==
  /\ loggedIn \in BOOLEAN /\ heartbeat \in BOOLEAN /\ overlapped \in BOOLEAN
  /\ store \in {"disconnected", "connecting", "authenticated", "error"}
  /\ status \in {"disconnected", "connecting", "connected"}
  /\ call \in [Calls -> Stages] /\ net \in [Calls -> NetStates]
  /\ on \in [Calls -> Calls \cup {0}]
  /\ transport \in Calls \cup {0} /\ controller \in Calls \cup {0}
  /\ aborted \subseteq Calls
  /\ sendWriter \in Calls \cup {0}
  /\ intervals \in Int

\* The calls up to the controller's have begun.
CallsInOrder ==
  /\ \A k \in Calls : call[k] = "none" <=> k > controller
  /\ \A k \in Calls : k > controller => net[k] = "none"
  /\ \A k \in aborted : k <= controller
  /\ transport <= controller

EarlierOver ==
  \A k \in Calls : k < controller => call[k] \in {"done", "failed"} /\ net[k] = "closed"

\* The manager's transport is the last call's until a disconnect or the cancelled
\* call itself clears it.
TransportIsLast ==
  transport = IF controller \in aborted THEN 0 ELSE controller

\* The last call, by where it is.
LastCall ==
  controller # 0 =>
    /\ call[controller] = "ready" =>
         status = IF transport = 0 THEN "disconnected" ELSE "connecting"
    /\ call[controller] \in {"stream", "auth", "done"} =>
         IF transport = 0 THEN status = "disconnected" /\ net[controller] = "closed"
         ELSE status = "connected"
    /\ call[controller] \in {"stream", "auth"} => on[controller] = controller
    /\ call[controller] = "failed" => status = "disconnected" /\ net[controller] = "closed"

\* The timer runs with its handle known, and for a call that has ended well.
OneTimer ==
  /\ intervals = IF heartbeat THEN 1 ELSE 0
  /\ heartbeat => store = "authenticated" /\ controller # 0 /\ call[controller] = "done"

ConnectionInv ==
  /\ ConnectionTyped /\ CallsInOrder
  /\ ~overlapped =>
       /\ EarlierOver /\ TransportIsLast /\ LastCall /\ OneTimer
       /\ controller = 0 => status = "disconnected"

LEMMA ConnectionInvOne == ConnectionInv => OneSession
<1> SUFFICES ASSUME ConnectionInv, ~overlapped
             PROVE  /\ Cardinality(OpenSessions) <= 1
                    /\ \A k \in OpenSessions : k = transport \/ (call[k] = "ready" /\ k \in aborted)
                    /\ intervals <= (IF heartbeat THEN 1 ELSE 0)
  BY DEF OneSession
<1> USE DEF ConnectionInv, ConnectionTyped
<1>1. OpenSessions \subseteq {controller}
  BY MaxConnectsAssumption
  DEF OpenSessions, Calls, CallsInOrder, EarlierOver
<1>2. IsFiniteSet({controller}) /\ Cardinality({controller}) = 1
  BY FS_Singleton
<1>3. Cardinality(OpenSessions) <= 1
  BY <1>1, <1>2, FS_Subset
<1> QED
  BY <1>1, <1>3 DEF TransportIsLast, LastCall, OneTimer, OpenSessions, Calls, CallsInOrder, Stages

LEMMA ConnectionInvInit == ConnectionInit => ConnectionInv
<1> SUFFICES ASSUME ConnectionInit PROVE ConnectionInv
  OBVIOUS
<1> USE MaxConnectsAssumption DEF ConnectionInit, Calls
<1>1. ConnectionTyped
  <2>1. call \in [Calls -> Stages] /\ net \in [Calls -> NetStates]
    BY DEF Stages, NetStates
  <2>2. on \in [Calls -> Calls \cup {0}]
    OBVIOUS
  <2>3. loggedIn \in BOOLEAN /\ heartbeat \in BOOLEAN /\ overlapped \in BOOLEAN
    OBVIOUS
  <2>4. /\ store \in {"disconnected"} /\ status \in {"disconnected"}
        /\ transport = 0 /\ controller = 0 /\ aborted = {} /\ sendWriter = 0 /\ intervals = 0
    OBVIOUS
  <2> HIDE DEF ConnectionInit
  <2> QED
    BY <2>1, <2>2, <2>3, <2>4 DEF ConnectionTyped
<1>2. CallsInOrder /\ EarlierOver
  BY DEF CallsInOrder, EarlierOver
<1>3. TransportIsLast /\ LastCall /\ OneTimer
  BY DEF TransportIsLast, LastCall, OneTimer
<1> QED
  BY <1>1, <1>2, <1>3 DEF ConnectionInv

LEMMA LoginKeeps ==
  ASSUME ConnectionInv, Login
  PROVE  ConnectionInv'
<1> USE MaxConnectsAssumption DEF Calls
<1>1. CASE UNCHANGED <<status, call, net, managerState, overlapped>>
  BY <1>1 DEF ConnectionInv, Login, ConnectionTyped, CallsInOrder, EarlierOver, TransportIsLast,
    LastCall, OneTimer, managerState, streamState
<1>2. ASSUME NEW k \in Calls,
             store \notin {"connecting", "authenticated"},
             status \notin {"connected", "connecting"},
             \A j \in Calls : call[j] = "none" <=> j >= k,
             loggedIn' = TRUE,
             store' = "connecting", status' = "connecting",
             call' = [call EXCEPT ![k] = "ready"],
             net' = [net EXCEPT ![k] = "connecting"],
             transport' = k, controller' = k,
             overlapped' = (overlapped \/ \E j \in Calls : UnderWay(j)),
             UNCHANGED aborted, UNCHANGED <<on, streamState>>
      PROVE  ConnectionInv'
  <2>1. k = controller + 1
    BY <1>2 DEF ConnectionInv, ConnectionTyped, CallsInOrder, Stages
  <2>2. ConnectionTyped'
    BY <1>2 DEF ConnectionInv, ConnectionTyped, Stages, NetStates, streamState
  <2>3. CallsInOrder'
    BY <1>2, <2>1 DEF ConnectionInv, ConnectionTyped, CallsInOrder, Stages
  <2>4. ASSUME ~overlapped'
        PROVE  EarlierOver' /\ TransportIsLast' /\ LastCall' /\ OneTimer'
               /\ (controller = 0 => status = "disconnected")'
    <3>1. ~overlapped /\ \A j \in Calls : ~UnderWay(j)
      BY <1>2, <2>4
    <3>2. ASSUME controller # 0
          PROVE  call[controller] \in {"done", "failed"} /\ net[controller] = "closed"
      <4>1. controller \in Calls /\ call[controller] \in {"done", "failed"}
        BY <3>1, <3>2 DEF UnderWay, ConnectionInv, ConnectionTyped, CallsInOrder, Stages
      <4> QED
        BY <1>2, <3>1, <3>2, <4>1 DEF ConnectionInv, LastCall
    <3>3. EarlierOver'
      BY <1>2, <2>1, <3>1, <3>2 DEF ConnectionInv, ConnectionTyped, EarlierOver
    <3>4. k \notin aborted
      BY <2>1 DEF ConnectionInv, ConnectionTyped, CallsInOrder
    <3>5. ~heartbeat /\ intervals = 0
      BY <1>2, <3>1 DEF ConnectionInv, OneTimer
    <3> QED
      BY <1>2, <3>3, <3>4, <3>5 DEF TransportIsLast, LastCall, OneTimer, streamState, ConnectionInv, ConnectionTyped
  <2> QED
    BY <2>2, <2>3, <2>4 DEF ConnectionInv
<1> QED
  BY <1>1, <1>2 DEF Login

LEMMA LogoutKeeps ==
  ASSUME ConnectionInv, Logout
  PROVE  ConnectionInv'
<1> USE MaxConnectsAssumption DEF Calls
<1>1. /\ loggedIn' = FALSE
      /\ intervals' = (IF heartbeat THEN intervals - 1 ELSE intervals) /\ heartbeat' = FALSE
      /\ aborted' = aborted \cup ({controller} \ {0})
      /\ sendWriter' = 0
      /\ net' = IF status = "connected" /\ transport # 0
                THEN [net EXCEPT ![transport] = "closed"] ELSE net
      /\ transport' = 0 /\ status' = "disconnected" /\ store' = "disconnected"
      /\ UNCHANGED <<call, on, controller, overlapped>>
  BY DEF Logout, StopHeartbeat
<1>2. ConnectionTyped'
  <2>1. net' \in [Calls -> NetStates]
    BY <1>1 DEF ConnectionInv, ConnectionTyped, NetStates
  <2>2. intervals' \in Int /\ aborted' \subseteq Calls
    BY <1>1 DEF ConnectionInv, ConnectionTyped
  <2> QED
    BY <1>1, <2>1, <2>2 DEF ConnectionInv, ConnectionTyped
<1>3. CallsInOrder'
  <2>1. \A k \in Calls : k > controller => net'[k] = net[k]
    BY <1>1 DEF ConnectionInv, ConnectionTyped, CallsInOrder
  <2> QED
    BY <1>1, <2>1 DEF ConnectionInv, ConnectionTyped, CallsInOrder
<1>4. ASSUME ~overlapped'
      PROVE  EarlierOver' /\ TransportIsLast' /\ LastCall' /\ OneTimer'
             /\ (controller = 0 => status = "disconnected")'
  <2>1. EarlierOver /\ TransportIsLast /\ LastCall /\ OneTimer
    BY <1>1, <1>4 DEF ConnectionInv
  <2>2. EarlierOver'
    BY <1>1, <2>1 DEF EarlierOver, ConnectionInv, ConnectionTyped
  <2>3. TransportIsLast' /\ OneTimer'
    BY <1>1, <2>1 DEF TransportIsLast, OneTimer
  <2>4. LastCall'
    <3> SUFFICES ASSUME controller # 0 PROVE LastCall'
      BY <1>1 DEF LastCall
    <3>1. controller \in Calls
      BY DEF ConnectionInv, ConnectionTyped
    <3>2. transport # 0 => transport = controller
      BY <2>1 DEF TransportIsLast
    <3>3. call[controller] \in {"stream", "auth", "done", "failed"} => net'[controller] = "closed"
      BY <1>1, <2>1, <3>1, <3>2 DEF LastCall, ConnectionInv, ConnectionTyped
    <3> QED
      BY <1>1, <2>1, <3>3 DEF LastCall
  <2> QED
    BY <1>1, <2>2, <2>3, <2>4
<1> QED
  BY <1>2, <1>3, <1>4 DEF ConnectionInv

\* What a step of connect may change: the last call moves on, and if no connects
\* overlap it is this one.
LEMMA LastMoves ==
  ASSUME ConnectionInv, NEW k \in Calls, UnderWay(k)
  PROVE  k <= controller /\ (~overlapped => k = controller)
BY MaxConnectsAssumption
DEF ConnectionInv, ConnectionTyped, CallsInOrder, EarlierOver, UnderWay, Calls

LEMMA ReadyKeeps ==
  ASSUME ConnectionInv, NEW k \in Calls, Ready(k)
  PROVE  ConnectionInv'
<1> USE MaxConnectsAssumption DEF Calls
<1>1. /\ UnderWay(k)
      /\ call[k] = "ready" /\ net[k] \in {"open", "closed"}
      /\ UNCHANGED <<loggedIn, controller, aborted, streamState, overlapped>>
  BY DEF Ready, UnderWay
<1>2. k <= controller /\ (~overlapped => k = controller)
  BY <1>1, LastMoves
<1>3. CASE /\ Catch(k) /\ on' = on
           /\ \/ net' = [net EXCEPT ![k] = "closed"]
              \/ net[k] = "closed" /\ net' = net
           /\ \/ transport' = 0 /\ controller \in aborted
              \/ transport' = transport
  <2>1. ConnectionTyped'
    BY <1>1, <1>3 DEF ConnectionInv, ConnectionTyped, Catch, Stages, NetStates, streamState
  <2>2. CallsInOrder'
    BY <1>1, <1>2, <1>3 DEF ConnectionInv, ConnectionTyped, CallsInOrder, Catch
  <2>3. ASSUME ~overlapped
        PROVE  EarlierOver' /\ TransportIsLast' /\ LastCall' /\ OneTimer' /\ controller # 0
    <3>1. EarlierOver' /\ TransportIsLast' /\ controller # 0
      BY <1>1, <1>2, <1>3, <2>3
      DEF ConnectionInv, ConnectionTyped, EarlierOver, TransportIsLast, Catch
    <3>2. LastCall'
      BY <1>1, <1>2, <1>3, <2>3 DEF ConnectionInv, ConnectionTyped, LastCall, Catch
    <3>3. OneTimer'
      BY <1>1, <1>2, <1>3, <2>3 DEF ConnectionInv, OneTimer, Catch, streamState
    <3> QED
      BY <3>1, <3>2, <3>3
  <2> QED
    BY <1>1, <2>1, <2>2, <2>3 DEF ConnectionInv
<1>4. CASE /\ net[k] = "open" /\ ~ConnectCancelled /\ transport = 0
           /\ Catch(k) /\ UNCHANGED <<net, on, transport>>
  <2>1. overlapped
    BY <1>2, <1>4 DEF ConnectionInv, TransportIsLast, ConnectCancelled
  <2>2. ConnectionTyped'
    BY <1>1, <1>4 DEF ConnectionInv, ConnectionTyped, Catch, Stages, streamState
  <2>3. CallsInOrder'
    BY <1>1, <1>2, <1>4 DEF ConnectionInv, ConnectionTyped, CallsInOrder, Catch
  <2> QED
    BY <1>1, <2>1, <2>2, <2>3 DEF ConnectionInv
<1>5. CASE /\ net[k] = "open" /\ ~ConnectCancelled /\ transport # 0
           /\ status' = "connected"
           /\ call' = [call EXCEPT ![k] = "stream"] /\ on' = [on EXCEPT ![k] = transport]
           /\ UNCHANGED <<store, net, transport>>
  <2>1. ConnectionTyped'
    BY <1>1, <1>5 DEF ConnectionInv, ConnectionTyped, Stages, streamState
  <2>2. CallsInOrder'
    BY <1>1, <1>2, <1>5 DEF ConnectionInv, ConnectionTyped, CallsInOrder
  <2>3. ASSUME ~overlapped
        PROVE  EarlierOver' /\ TransportIsLast' /\ LastCall' /\ OneTimer' /\ controller # 0
    <3>1. EarlierOver' /\ TransportIsLast' /\ transport = controller /\ controller # 0
      BY <1>1, <1>2, <1>5, <2>3
      DEF ConnectionInv, ConnectionTyped, EarlierOver, TransportIsLast
    <3>2. LastCall'
      BY <1>1, <1>2, <1>5, <2>3, <3>1 DEF ConnectionInv, ConnectionTyped, LastCall
    <3>3. OneTimer'
      BY <1>1, <1>2, <1>5, <2>3 DEF ConnectionInv, OneTimer, streamState
    <3> QED
      BY <3>1, <3>2, <3>3
  <2> QED
    BY <1>1, <2>1, <2>2, <2>3 DEF ConnectionInv
<1>6. \/ /\ net[k] = "closed" /\ Catch(k) /\ UNCHANGED <<net, on, transport>>
      \/ /\ net[k] = "open" /\ controller \in aborted
         /\ net' = [net EXCEPT ![k] = "closed"] /\ transport' = 0
         /\ Catch(k) /\ UNCHANGED on
      \/ /\ net[k] = "open" /\ ~ConnectCancelled /\ transport = 0
         /\ Catch(k) /\ UNCHANGED <<net, on, transport>>
      \/ /\ net[k] = "open" /\ ~ConnectCancelled /\ transport # 0
         /\ status' = "connected"
         /\ call' = [call EXCEPT ![k] = "stream"] /\ on' = [on EXCEPT ![k] = transport]
         /\ UNCHANGED <<store, net, transport>>
  BY DEF Ready, ConnectCancelled
<1> QED
  BY <1>3, <1>4, <1>5, <1>6

LEMMA InitializeStreamKeeps ==
  ASSUME ConnectionInv, NEW k \in Calls, InitializeStream(k)
  PROVE  ConnectionInv'
<1> USE MaxConnectsAssumption DEF Calls
<1>1. /\ UnderWay(k) /\ call[k] = "stream" /\ net[on[k]] \in {"open", "closed"}
      /\ UNCHANGED <<loggedIn, net, on, transport, controller, aborted, intervals, heartbeat,
                     overlapped>>
      /\ sendWriter' \in {sendWriter, on[k]}
  BY DEF InitializeStream, UnderWay, managerState
<1>2. k <= controller /\ (~overlapped => k = controller)
  BY <1>1, LastMoves
<1>3. CASE Catch(k) /\ (net[on[k]] = "closed" \/ transport = 0 \/ status # "connected")
  <2>1. ConnectionTyped'
    BY <1>1, <1>3 DEF ConnectionInv, ConnectionTyped, Catch, Stages
  <2>2. CallsInOrder'
    BY <1>1, <1>2, <1>3 DEF ConnectionInv, ConnectionTyped, CallsInOrder, Catch
  <2>3. ASSUME ~overlapped
        PROVE  EarlierOver' /\ TransportIsLast' /\ LastCall' /\ OneTimer' /\ controller # 0
    <3>1. EarlierOver' /\ TransportIsLast' /\ controller # 0
      BY <1>1, <1>2, <1>3, <2>3
      DEF ConnectionInv, ConnectionTyped, EarlierOver, TransportIsLast, Catch
    <3>2. net[controller] = "closed"
      BY <1>1, <1>2, <1>3, <2>3, <3>1 DEF ConnectionInv, LastCall
    <3>3. LastCall'
      BY <1>1, <1>2, <1>3, <2>3, <3>2 DEF ConnectionInv, ConnectionTyped, LastCall, Catch
    <3>4. OneTimer'
      BY <1>1, <1>2, <1>3, <2>3 DEF ConnectionInv, OneTimer, Catch
    <3> QED
      BY <3>1, <3>3, <3>4
  <2> QED
    BY <1>1, <2>1, <2>2, <2>3 DEF ConnectionInv
<1>4. CASE call' = [call EXCEPT ![k] = "auth"] /\ UNCHANGED <<status, store>>
  <2>1. ConnectionTyped'
    BY <1>1, <1>4 DEF ConnectionInv, ConnectionTyped, Stages
  <2>2. CallsInOrder'
    BY <1>1, <1>2, <1>4 DEF ConnectionInv, ConnectionTyped, CallsInOrder
  <2>3. ASSUME ~overlapped
        PROVE  EarlierOver' /\ TransportIsLast' /\ LastCall' /\ OneTimer' /\ controller # 0
    <3>1. EarlierOver' /\ TransportIsLast' /\ controller # 0
      BY <1>1, <1>2, <1>4, <2>3
      DEF ConnectionInv, ConnectionTyped, EarlierOver, TransportIsLast
    <3>2. LastCall'
      BY <1>1, <1>2, <1>4, <2>3 DEF ConnectionInv, ConnectionTyped, LastCall
    <3>3. OneTimer'
      BY <1>1, <1>2, <1>4, <2>3 DEF ConnectionInv, OneTimer
    <3> QED
      BY <3>1, <3>2, <3>3
  <2> QED
    BY <1>1, <2>1, <2>2, <2>3 DEF ConnectionInv
<1> QED
  BY <1>3, <1>4 DEF InitializeStream

LEMMA AuthenticatedKeeps ==
  ASSUME ConnectionInv, NEW k \in Calls, Authenticated(k)
  PROVE  ConnectionInv'
<1> USE MaxConnectsAssumption DEF Calls
<1>1. /\ UnderWay(k) /\ call[k] = "auth"
      /\ UNCHANGED <<loggedIn, net, on, transport, controller, aborted, overlapped>>
  BY DEF Authenticated, UnderWay, managerState
<1>2. k <= controller /\ (~overlapped => k = controller)
  BY <1>1, LastMoves
<1>3. CASE /\ call' = [call EXCEPT ![k] = "done"]
           /\ intervals' = intervals + 1 /\ heartbeat' = TRUE
           /\ store' = "authenticated"
           /\ UNCHANGED <<status, sendWriter>>
  <2>1. ConnectionTyped'
    BY <1>1, <1>3 DEF ConnectionInv, ConnectionTyped, Stages
  <2>2. CallsInOrder'
    BY <1>1, <1>2, <1>3 DEF ConnectionInv, ConnectionTyped, CallsInOrder
  <2>3. ASSUME ~overlapped
        PROVE  EarlierOver' /\ TransportIsLast' /\ LastCall' /\ OneTimer' /\ controller # 0
    <3>1. EarlierOver' /\ TransportIsLast' /\ controller # 0
      BY <1>1, <1>2, <1>3, <2>3
      DEF ConnectionInv, ConnectionTyped, EarlierOver, TransportIsLast
    <3>2. LastCall'
      BY <1>1, <1>2, <1>3, <2>3 DEF ConnectionInv, ConnectionTyped, LastCall
    <3>3. OneTimer'
      BY <1>1, <1>2, <1>3, <2>3, <3>1 DEF ConnectionInv, ConnectionTyped, OneTimer
    <3> QED
      BY <3>1, <3>2, <3>3
  <2> QED
    BY <1>1, <2>1, <2>2, <2>3 DEF ConnectionInv
<1>4. CASE /\ net[on[k]] = "closed"
           /\ Catch(k) /\ sendWriter' = 0
           /\ UNCHANGED <<intervals, heartbeat>>
  <2>1. ConnectionTyped'
    BY <1>1, <1>4 DEF ConnectionInv, ConnectionTyped, Catch, Stages
  <2>2. CallsInOrder'
    BY <1>1, <1>2, <1>4 DEF ConnectionInv, ConnectionTyped, CallsInOrder, Catch
  <2>3. ASSUME ~overlapped
        PROVE  EarlierOver' /\ TransportIsLast' /\ LastCall' /\ OneTimer' /\ controller # 0
    <3>1. EarlierOver' /\ TransportIsLast' /\ controller # 0
      BY <1>1, <1>2, <1>4, <2>3
      DEF ConnectionInv, ConnectionTyped, EarlierOver, TransportIsLast, Catch
    <3>2. LastCall'
      BY <1>1, <1>2, <1>4, <2>3 DEF ConnectionInv, ConnectionTyped, LastCall, Catch
    <3>3. OneTimer'
      BY <1>1, <1>2, <1>4, <2>3 DEF ConnectionInv, OneTimer, Catch
    <3> QED
      BY <3>1, <3>2, <3>3
  <2> QED
    BY <1>1, <2>1, <2>2, <2>3 DEF ConnectionInv
<1> QED
  BY <1>3, <1>4 DEF Authenticated

LEMMA NetKeeps ==
  ASSUME ConnectionInv, NEW k \in Calls, NetAnswers(k) \/ NetLost(k)
  PROVE  ConnectionInv'
<1> USE MaxConnectsAssumption DEF Calls
<1>1. PICK s \in {"open", "closed"} :
        /\ net[k] \in {"connecting", "open"}
        /\ s = "open" => net[k] = "connecting"
        /\ net' = [net EXCEPT ![k] = s]
        /\ UNCHANGED <<loggedIn, store, status, call, on, transport, controller, aborted,
                       sendWriter, intervals, heartbeat, overlapped>>
  BY DEF NetAnswers, NetLost, NetBecomes, managerState, streamState
<1>2. ConnectionTyped' /\ CallsInOrder'
  BY <1>1 DEF ConnectionInv, ConnectionTyped, CallsInOrder, NetStates
<1>3. ASSUME ~overlapped
      PROVE  EarlierOver' /\ TransportIsLast' /\ LastCall' /\ OneTimer'
             /\ (controller = 0 => status = "disconnected")'
  <2>1. EarlierOver' /\ TransportIsLast' /\ OneTimer'
    BY <1>1, <1>3 DEF ConnectionInv, ConnectionTyped, EarlierOver, TransportIsLast, OneTimer
  <2>2. LastCall'
    BY <1>1, <1>3 DEF ConnectionInv, ConnectionTyped, LastCall
  <2> QED
    BY <1>1, <1>3, <2>1, <2>2 DEF ConnectionInv
<1> QED
  BY <1>1, <1>2, <1>3 DEF ConnectionInv

LEMMA ConnectionInvStep == ConnectionInv /\ [ConnectionNext]_clientConnVars => ConnectionInv'
<1> SUFFICES ASSUME ConnectionInv, [ConnectionNext]_clientConnVars PROVE ConnectionInv'
  OBVIOUS
<1>1. CASE HeartbeatFails \/ UNCHANGED clientConnVars
  BY <1>1 DEF HeartbeatFails, clientConnVars, managerState, ConnectionInv, ConnectionTyped,
    CallsInOrder, EarlierOver, TransportIsLast, LastCall, OneTimer
<1>2. CASE Login \/ Logout
  BY <1>2, LoginKeeps, LogoutKeeps
<1>3. ASSUME NEW k \in Calls, Connecting(k) \/ NetAnswers(k) \/ NetLost(k) PROVE ConnectionInv'
  BY <1>3, ReadyKeeps, InitializeStreamKeeps, AuthenticatedKeeps, NetKeeps DEF Connecting
<1> QED
  BY <1>1, <1>2, <1>3 DEF ConnectionNext

\* However logins, logouts, the awaits of connect and the network interleave, the
\* client has one session at most, which it knows and closes, and one heartbeat
\* timer, unless connects overlapped (WebTransportManager.ts).
THEOREM ClientOneSession == ConnectionSpec => []OneSession
<1> QED
  BY ConnectionInvOne, ConnectionInvInit, ConnectionInvStep, PTL DEF ConnectionSpec

-----------------------------------------------------------------------------
(* MCEdge: the three parts side by side. *)

\* The three, for the composition: a request is in one place, pushes keep their
\* order, and the client has one session.
THEOREM EdgeSound == EdgeSpec => [](RequestInOnePlace /\ PushesInOrder /\ OneSession)
<1>1. EdgeInit => TaskInv /\ PushInv /\ ConnectionInv
  BY TaskInvInit, PushInvInit, ConnectionInvInit DEF EdgeInit
<1>2. [EdgeNext]_edgeVars => [StreamNext]_streamVars /\ [ConnectionNext]_clientConnVars
  BY DEF EdgeNext, edgeVars
<1> QED
  BY <1>1, <1>2, TaskInvStep, PushInvStep, ConnectionInvStep, TaskInvPlaces, PushInvOrder,
     ConnectionInvOne, PTL
  DEF EdgeSpec
===============================================================================
