------------------------------ MODULE TimeWheel ------------------------------
(***************************************************************************)
(* The task scheduler of logic-go/internal/task: a time wheel whose tick   *)
(* loop hands the tasks of a slot to a pool of workers.                    *)
(*                                                                         *)
(* AddTask and RemoveTask read the current slot under one lock and change  *)
(* the slot they computed under another; Tick advances the wheel under the *)
(* first and clears the slot under the second.  Each is two steps here, so *)
(* a tick may come between.  A task that panics is recovered and is like   *)
(* one that ends.  IDs are unique, as the callers must make them.          *)
(***************************************************************************)
EXTENDS Integers, Sequences, FiniteSets, SequencesExt

CONSTANTS
  Tasks, Workers,
  SlotCount,     \* 60
  QueueSize,     \* 2 * workerCount, the capacity of taskChan
  Delays,        \* the delays callers ask for
  None           \* no task

ASSUME SlotAssumption == SlotCount \in Nat \ {0}
ASSUME QueueAssumption == QueueSize \in Nat \ {0}
ASSUME DelaysAssumption == Delays \subseteq Int
ASSUME NoneAssumption == None \notin Tasks
ASSUME ExitedAssumption == "exited" \notin Tasks   \* a name of no task

Slots == 0 .. SlotCount - 1

VARIABLES
  slots,     \* TimeWheel.slots, per slot the tasks in its map
  now,       \* TimeWheel.currentSlot
  call,      \* per task, where its caller is and the slot it has computed
  delay,     \* Task.Delay, after AddTask
  age,       \* ticks since AddTask's read, up to SlotCount, until the task is submitted
  waited,    \* ticks since it is in its slot, likewise
  loop,      \* tickLoop: at which point, with the tasks still to submit
  taskChan,  \* the pool's queue of tasks
  poolWorker,\* per worker its task, None, or "exited"
  runs,      \* per task, how often it was executed
  stopping   \* Scheduler.Stop: "no", "tick", "pool" (what it waits for), "done"

wheelVars == <<slots, now, call, delay, age, waited, loop, taskChan, poolWorker, runs, stopping>>
clientVars == <<loop, taskChan, poolWorker, runs, stopping>>

Effective(d) == IF d \in 1 .. SlotCount THEN d ELSE 1

\* Mutant: counts the current slot as the first.
Bug_Target(d) == (now + d - 1) % SlotCount

\* The slot AddTask and RemoveTask compute.
Target(d) == (now + d) % SlotCount

WheelInit ==
  /\ slots = [s \in Slots |-> {}] /\ now = 0
  /\ call = [t \in Tasks |-> [at |-> "new", slot |-> 0]]
  /\ delay = [t \in Tasks |-> 0] /\ age = delay /\ waited = delay /\ runs = delay
  /\ loop = [at |-> "wait", batch |-> {}]
  /\ taskChan = <<>>
  /\ poolWorker = [w \in Workers |-> None]
  /\ stopping = "no"

-----------------------------------------------------------------------------
(* Callers.  AddTask and RemoveTask hold runningMu for reading throughout.    *)

Goes(t, to, s) == call' = [call EXCEPT ![t] = [at |-> to, slot |-> s]]

AddTask(t, d) ==
  /\ stopping = "no" /\ call[t].at = "new"
  /\ Goes(t, "adding", Target(Effective(d)))
  /\ delay' = [delay EXCEPT ![t] = Effective(d)]
  /\ UNCHANGED <<slots, now, age, waited, clientVars>>

SlotAddTask(t) ==
  /\ call[t].at = "adding"
  /\ slots' = [slots EXCEPT ![call[t].slot] = @ \cup {t}]
  /\ Goes(t, "added", 0)
  /\ UNCHANGED <<now, delay, age, waited, clientVars>>

RemoveTask(t) ==
  /\ stopping = "no" /\ call[t].at = "added"
  /\ Goes(t, "removing", Target(delay[t]))
  /\ UNCHANGED <<slots, now, delay, age, waited, clientVars>>

SlotRemoveTask(t) ==
  /\ call[t].at = "removing"
  /\ slots' = [slots EXCEPT ![call[t].slot] = @ \ {t}]
  /\ Goes(t, IF t \in slots[call[t].slot] THEN "removed" ELSE "missed", 0)
  /\ UNCHANGED <<now, delay, age, waited, clientVars>>

-----------------------------------------------------------------------------
(* tickLoop *)

InSlots == UNION {slots[s] : s \in Slots}
Older(clock, those) ==
  [t \in Tasks |-> IF t \in those /\ clock[t] < SlotCount THEN clock[t] + 1 ELSE clock[t]]

AdvanceTick ==
  /\ loop.at = "wait"
  /\ now' = (now + 1) % SlotCount
  /\ loop' = [loop EXCEPT !.at = "clear"]
  /\ age' = Older(age, {t \in Tasks : call[t].at = "adding"} \cup InSlots)
  /\ waited' = Older(waited, InSlots)
  /\ UNCHANGED <<slots, call, delay, taskChan, poolWorker, runs, stopping>>

\* Mutant: the tasks are read, and stay in the slot.
Bug_GetAndClear ==
  /\ loop.at = "clear"
  /\ loop' = [at |-> "submit", batch |-> slots[now]]
  /\ UNCHANGED <<slots, now, call, delay, age, waited, taskChan, poolWorker, runs, stopping>>

GetAndClear ==
  /\ loop.at = "clear"
  /\ loop' = [at |-> "submit", batch |-> slots[now]]
  /\ slots' = [slots EXCEPT ![now] = {}]
  /\ UNCHANGED <<now, call, delay, age, waited, taskChan, poolWorker, runs, stopping>>

\* Ticks are counted no further than here.
Counted(clock) ==
  [t \in Tasks |-> IF t \in loop'.batch \cup InSlots \/ call[t].at = "adding" THEN clock[t] ELSE 0]

\* Mutant: a task is dropped when the channel is full.
Bug_Submit ==
  /\ loop.at = "submit"
  /\ \/ loop.batch = {} /\ loop' = [loop EXCEPT !.at = "wait"] /\ UNCHANGED taskChan
     \/ \E t \in loop.batch :
          /\ taskChan' = IF Len(taskChan) < QueueSize THEN Append(taskChan, t) ELSE taskChan
          /\ loop' = [loop EXCEPT !.batch = @ \ {t}]
  /\ UNCHANGED <<slots, now, call, delay, age, waited, poolWorker, runs, stopping>>

\* Submit waits while the channel is full: the pool is not cancelled before the
\* tick loop has ended.
Submit ==
  /\ loop.at = "submit"
  /\ \/ /\ loop.batch = {}
        /\ loop' = [loop EXCEPT !.at = "wait"]
        /\ UNCHANGED taskChan
     \/ \E t \in loop.batch :
          /\ Len(taskChan) < QueueSize
          /\ taskChan' = Append(taskChan, t)
          /\ loop' = [loop EXCEPT !.batch = @ \ {t}]
  /\ age' = Counted(age) /\ waited' = Counted(waited)
  /\ UNCHANGED <<slots, now, call, delay, poolWorker, runs, stopping>>

TickLoopExit ==
  /\ loop.at = "wait" /\ stopping # "no"
  /\ loop' = [loop EXCEPT !.at = "done"]
  /\ UNCHANGED <<slots, now, call, delay, age, waited, taskChan, poolWorker, runs, stopping>>

-----------------------------------------------------------------------------
(* Workers *)

TakeFromChan(w) ==
  /\ poolWorker[w] = None /\ taskChan # <<>>
  /\ poolWorker' = [poolWorker EXCEPT ![w] = Head(taskChan)]
  /\ taskChan' = Tail(taskChan)
  /\ UNCHANGED <<slots, now, call, delay, age, waited, loop, runs, stopping>>

ExecuteTask(w) ==
  /\ poolWorker[w] \in Tasks
  /\ runs' = [runs EXCEPT ![poolWorker[w]] = @ + 1]
  /\ poolWorker' = [poolWorker EXCEPT ![w] = None]
  /\ UNCHANGED <<slots, now, call, delay, age, waited, loop, taskChan, stopping>>

WorkerExit(w) ==
  /\ poolWorker[w] = None /\ stopping = "pool"
  /\ poolWorker' = [poolWorker EXCEPT ![w] = "exited"]
  /\ UNCHANGED <<slots, now, call, delay, age, waited, loop, taskChan, runs, stopping>>

-----------------------------------------------------------------------------
(* Stop *)

StopSteps(from, to) ==
  /\ stopping = from /\ stopping' = to
  /\ UNCHANGED <<slots, now, call, delay, age, waited, loop, taskChan, poolWorker, runs>>

\* running is cleared under the lock, so when no AddTask or RemoveTask is on.
StopScheduler ==
  /\ \A t \in Tasks : call[t].at \notin {"adding", "removing"}
  /\ StopSteps("no", "tick")

StopPool == loop.at = "done" /\ StopSteps("tick", "pool")
PoolStopped == (\A w \in Workers : poolWorker[w] = "exited") /\ StopSteps("pool", "done")

WheelNext ==
  \/ \E t \in Tasks : SlotAddTask(t) \/ RemoveTask(t) \/ SlotRemoveTask(t)
  \/ \E t \in Tasks, d \in Delays : AddTask(t, d)
  \/ AdvanceTick \/ GetAndClear \/ Submit \/ TickLoopExit
  \/ \E w \in Workers : TakeFromChan(w) \/ ExecuteTask(w) \/ WorkerExit(w)
  \/ StopScheduler \/ StopPool \/ PoolStopped

\* The ticker ticks, goroutines run on and tasks end; a select that keeps finding
\* the cancelled context takes it in the end.  Nobody has to stop or to remove.
WheelTicks == WF_wheelVars(AdvanceTick)
WheelRuns ==
  /\ WF_wheelVars(GetAndClear) /\ WF_wheelVars(Submit) /\ SF_wheelVars(TickLoopExit)
  /\ \A t \in Tasks : WF_wheelVars(SlotAddTask(t)) /\ WF_wheelVars(SlotRemoveTask(t))
  /\ \A w \in Workers : SF_wheelVars(TakeFromChan(w)) /\ WF_wheelVars(ExecuteTask(w))
                        /\ WF_wheelVars(WorkerExit(w))
  /\ WF_wheelVars(StopPool) /\ WF_wheelVars(PoolStopped)

WheelSpec == WheelInit /\ [][WheelNext]_wheelVars /\ WheelTicks /\ WheelRuns

-----------------------------------------------------------------------------
(* Properties *)

WheelTypeOK ==
  /\ slots \in [Slots -> SUBSET Tasks] /\ now \in Slots
  /\ \A t \in Tasks :
       /\ call[t].at \in {"new", "adding", "added", "removing", "removed", "missed"}
       /\ call[t].slot \in Slots
  /\ delay \in [Tasks -> 0 .. SlotCount]
  /\ age \in [Tasks -> 0 .. SlotCount] /\ waited \in [Tasks -> 0 .. SlotCount]
  /\ loop.at \in {"wait", "clear", "submit", "done"} /\ loop.batch \subseteq Tasks
  /\ taskChan \in Seq(Tasks) /\ Len(taskChan) <= QueueSize
  /\ poolWorker \in [Workers -> Tasks \cup {None, "exited"}]
  /\ runs \in [Tasks -> Nat]
  /\ stopping \in {"no", "tick", "pool", "done"}

\* Where a task is, and how often: in slots, in the batch, in taskChan, running.
Copies(t) ==
  Cardinality({s \in Slots : t \in slots[s]}) + (IF t \in loop.batch THEN 1 ELSE 0)
  + Cardinality({i \in DOMAIN taskChan : taskChan[i] = t})
  + Cardinality({w \in Workers : poolWorker[w] = t})

\* A task that was added once is in one place and is executed at most once, and
\* not at all if RemoveTask has said that it was removed, whatever ticks and Stop
\* run beside it.
ExecutedOnce ==
  \A t \in Tasks : Copies(t) + runs[t] <= IF call[t].at = "removed" THEN 0 ELSE 1

\* The tick loop takes no task before its delay has passed, wherever ticks fall
\* between AddTask's read and its insertion -- for delays below SlotCount; and a
\* task in its slot is due within one turn of the wheel: one whose slot had just
\* been passed is late by a turn, and never missed.
OnTime ==
  /\ \A t \in loop.batch : delay[t] < SlotCount => age[t] >= delay[t]
  /\ \A t \in InSlots : waited[t] = SlotCount => loop.at = "clear" /\ t \in slots[now]

\* A task that stays in the wheel is executed, also when workers are busy and the
\* channel is full -- or Stop, which then does come to an end, was quicker.
AddedRuns ==
  \A t \in Tasks : call[t].at = "added" ~>
    (runs[t] = 1 \/ call[t].at \in {"removing", "removed"} \/ stopping = "done")
=============================================================================
