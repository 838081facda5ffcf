------------------------- MODULE LogicServicesProofs --------------------------
(* Proofs about the services of a logic node that share no state: the task     *)
(* scheduler and the conversations; those about the batcher are in             *)
(* MessageBatcherProofs.                                                       *)
EXTENDS MCLogicServices, MessageBatcherProofs, FiniteSetTheorems, FunctionTheorems

-----------------------------------------------------------------------------
(* The task scheduler.  Places: the slots, the batch of the tick loop, the    *)
(* channel, the workers, and the tasks that have run.                         *)

CallStates == {"new", "adding", "added", "removing", "removed", "missed"}

WheelTyped ==
  /\ slots \in [Slots -> SUBSET Tasks] /\ now \in Slots
  /\ call \in [Tasks -> [at : CallStates, slot : Slots]]
  /\ delay \in [Tasks -> 0 .. SlotCount]
  /\ age \in [Tasks -> 0 .. SlotCount] /\ waited \in [Tasks -> 0 .. SlotCount]
  /\ loop \in [at : {"wait", "clear", "submit", "done"}, batch : SUBSET Tasks]
  /\ taskChan \in Seq(Tasks) /\ Len(taskChan) <= QueueSize
  /\ poolWorker \in [Workers -> Tasks \cup {None, "exited"}]
  /\ runs \in [Tasks -> Nat]
  /\ stopping \in {"no", "tick", "pool", "done"}

InChan == {taskChan[i] : i \in DOMAIN taskChan}
AtWork == {poolWorker[w] : w \in Workers} \cap Tasks
Ran == {t \in Tasks : runs[t] # 0}

\* Nothing is twice in one place.
OnceInSlots == \A t \in Tasks : \A r, s \in Slots : t \in slots[r] /\ t \in slots[s] => r = s
OnceInChan == \A i, j \in DOMAIN taskChan : taskChan[i] = taskChan[j] => i = j
OnceAtWork ==
  \A v, w \in Workers : poolWorker[v] \in Tasks /\ poolWorker[v] = poolWorker[w] => v = w
OnceRan == \A t \in Tasks : runs[t] <= 1

Apart(s, b, c, w, r) ==
  /\ s \cap b = {} /\ s \cap c = {} /\ s \cap w = {} /\ s \cap r = {}
  /\ b \cap c = {} /\ b \cap w = {} /\ b \cap r = {}
  /\ c \cap w = {} /\ c \cap r = {} /\ w \cap r = {}

\* Tasks that are not yet, or no longer, in the wheel.
Outside == {t \in Tasks : call[t].at \in {"new", "adding", "removed"}}

PlacesInv ==
  /\ OnceInSlots /\ OnceInChan /\ OnceAtWork /\ OnceRan
  /\ Apart(InSlots, loop.batch, InChan, AtWork, Ran)
  /\ Outside \cap (InSlots \cup loop.batch \cup InChan \cup AtWork \cup Ran) = {}

\* The ticks until slot s is cleared.
Left(s) ==
  IF s > now THEN s - now
  ELSE IF s = now /\ loop.at = "clear" THEN 0 ELSE SlotCount - now + s

\* While a task is younger than a turn, its slot is where its delay ends.
Due(t, s) == age[t] < SlotCount => now + delay[t] - s - age[t] \in {0 - SlotCount, 0, SlotCount}

ClockInv ==
  /\ \A t \in Tasks :
       /\ call[t].at = "new" => age[t] = 0
       /\ call[t].at \in {"new", "adding"} => waited[t] = 0
       /\ call[t].at = "adding" => delay[t] \in 1 .. SlotCount /\ Due(t, call[t].slot)
  /\ \A s \in Slots : \A t \in slots[s] :
       delay[t] \in 1 .. SlotCount /\ Due(t, s) /\ waited[t] + Left(s) <= SlotCount
  /\ \A t \in loop.batch : delay[t] < SlotCount => age[t] >= delay[t]

WheelInv == WheelTyped /\ PlacesInv /\ ClockInv

\* A set without two elements.
LEMMA AtMostOne ==
  ASSUME NEW S, \A a, b \in S : a = b
  PROVE  Cardinality(S) = IF S = {} THEN 0 ELSE 1
<1>1. CASE S = {}
  BY <1>1, FS_EmptySet
<1>2. CASE S # {}
  <2>1. PICK a : S = {a}
    BY <1>2
  <2> QED
    BY <2>1, FS_Singleton
<1> QED
  BY <1>1, <1>2

\* A task is in one place, so ExecutedOnce counts one at most.
LEMMA WheelInvOnce == WheelInv => ExecutedOnce
<1> SUFFICES ASSUME WheelInv, NEW t \in Tasks
             PROVE  Copies(t) + runs[t] <= IF call[t].at = "removed" THEN 0 ELSE 1
  BY DEF ExecutedOnce
<1> DEFINE S == {s \in Slots : t \in slots[s]}
           C == {i \in DOMAIN taskChan : taskChan[i] = t}
           W == {w \in Workers : poolWorker[w] = t}
<1>1. Cardinality(S) = IF t \in InSlots THEN 1 ELSE 0
  <2>1. \A a, b \in S : a = b
    BY DEF WheelInv, PlacesInv, OnceInSlots
  <2>2. S # {} <=> t \in InSlots
    BY DEF InSlots
  <2> QED
    BY <2>1, <2>2, AtMostOne
<1>2. Cardinality(C) = IF t \in InChan THEN 1 ELSE 0
  <2>1. \A a, b \in C : a = b
    BY DEF WheelInv, PlacesInv, OnceInChan
  <2>2. C # {} <=> t \in InChan
    BY DEF InChan
  <2> QED
    BY <2>1, <2>2, AtMostOne
<1>3. Cardinality(W) = IF t \in AtWork THEN 1 ELSE 0
  <2>1. \A a, b \in W : a = b
    BY DEF WheelInv, PlacesInv, OnceAtWork
  <2>2. W # {} <=> t \in AtWork
    BY DEF AtWork
  <2> QED
    BY <2>1, <2>2, AtMostOne
<1>4. runs[t] = IF t \in Ran THEN 1 ELSE 0
  BY DEF WheelInv, WheelTyped, PlacesInv, OnceRan, Ran
<1>5. /\ t \in InSlots => t \notin loop.batch /\ t \notin InChan /\ t \notin AtWork /\ t \notin Ran
      /\ t \in loop.batch => t \notin InChan /\ t \notin AtWork /\ t \notin Ran
      /\ t \in InChan => t \notin AtWork /\ t \notin Ran
      /\ t \in AtWork => t \notin Ran
  BY DEF WheelInv, PlacesInv, Apart
<1>6. call[t].at = "removed" => /\ t \notin InSlots /\ t \notin loop.batch /\ t \notin InChan
                                /\ t \notin AtWork /\ t \notin Ran
  BY DEF WheelInv, PlacesInv, Outside
<1>7. Copies(t) + runs[t] =
        (IF t \in InSlots THEN 1 ELSE 0) + (IF t \in loop.batch THEN 1 ELSE 0)
        + (IF t \in InChan THEN 1 ELSE 0) + (IF t \in AtWork THEN 1 ELSE 0)
        + (IF t \in Ran THEN 1 ELSE 0)
  <2> HIDE DEF S, C, W
  <2> QED
    BY <1>1, <1>2, <1>3, <1>4 DEF Copies, S, C, W
<1> DEFINE s == t \in InSlots  b == t \in loop.batch  c == t \in InChan  w == t \in AtWork
           r == t \in Ran
<1>8. (IF s THEN 1 ELSE 0) + (IF b THEN 1 ELSE 0) + (IF c THEN 1 ELSE 0)
        + (IF w THEN 1 ELSE 0) + (IF r THEN 1 ELSE 0) <= IF call[t].at = "removed" THEN 0 ELSE 1
  <2>1. /\ s => ~b /\ ~c /\ ~w /\ ~r
        /\ b => ~c /\ ~w /\ ~r
        /\ c => ~w /\ ~r
        /\ w => ~r
        /\ call[t].at = "removed" => ~s /\ ~b /\ ~c /\ ~w /\ ~r
    BY <1>5, <1>6
  <2> HIDE DEF s, b, c, w, r
  <2> QED
    BY <2>1
<1> QED
  BY <1>7, <1>8

\* Who is in its slot a whole turn is about to be taken from it.
LEMMA WheelInvOnTime == WheelInv => OnTime
<1> SUFFICES ASSUME WheelInv PROVE OnTime
  OBVIOUS
<1>1. ASSUME NEW t \in InSlots, waited[t] = SlotCount
      PROVE  loop.at = "clear" /\ t \in slots[now]
  <2>1. PICK s \in Slots : t \in slots[s]
    BY DEF InSlots
  <2>2. Left(s) <= 0
    <3>1. waited[t] + Left(s) <= SlotCount
      BY <2>1 DEF WheelInv, ClockInv
    <3>2. Left(s) \in Int
      BY <2>1, SlotAssumption DEF Left, WheelInv, WheelTyped, Slots
    <3> QED
      BY <1>1, <3>1, <3>2, SlotAssumption
  <2> QED
    BY <2>1, <2>2, SlotAssumption DEF Left, WheelInv, WheelTyped, Slots
<1> QED
  BY <1>1 DEF OnTime, WheelInv, ClockInv

LEMMA WheelInvInit == WheelInit => WheelInv
<1> SUFFICES ASSUME WheelInit PROVE WheelInv
  OBVIOUS
<1>1. 0 \in Slots /\ SlotCount \in Nat
  BY SlotAssumption DEF Slots
<1>2. taskChan \in Seq(Tasks) /\ Len(taskChan) = 0 /\ DOMAIN taskChan = {}
  <2>1. taskChan = <<>>
    BY DEF WheelInit
  <2> QED
    BY <2>1
<1>3. WheelTyped
  BY <1>1, <1>2, QueueAssumption DEF WheelInit, WheelTyped, CallStates
<1>4. InSlots = {} /\ loop.batch = {} /\ InChan = {} /\ AtWork = {} /\ Ran = {}
  BY <1>2, NoneAssumption DEF WheelInit, InSlots, InChan, AtWork, Ran
<1>5. PlacesInv
  <2>1. OnceInSlots /\ OnceRan
    BY DEF WheelInit, OnceInSlots, OnceRan
  <2>2. OnceInChan /\ OnceAtWork
    BY <1>2, NoneAssumption DEF WheelInit, OnceInChan, OnceAtWork
  <2> QED
    BY <1>4, <2>1, <2>2 DEF PlacesInv, Apart
<1>6. ClockInv
  <2>1. \A t \in Tasks : call[t].at = "new" /\ age[t] = 0 /\ waited[t] = 0
    BY DEF WheelInit
  <2>2. \A s \in Slots : slots[s] = {}
    BY DEF WheelInit
  <2> QED
    BY <1>4, <2>1, <2>2 DEF ClockInv
<1> QED
  BY <1>3, <1>5, <1>6 DEF WheelInv

-----------------------------------------------------------------------------
(* Callers *)

\* The slot that is computed lies the delay ahead.
LEMMA TargetIs ==
  ASSUME NEW x \in Slots, NEW d \in 1 .. SlotCount
  PROVE  (x + d) % SlotCount \in Slots /\ (x + d) - ((x + d) % SlotCount) \in {0, SlotCount}
  BY SlotAssumption DEF Slots

LEMMA AddTaskKeeps ==
  ASSUME WheelInv, NEW t \in Tasks, NEW d \in Delays, AddTask(t, d)
  PROVE  WheelInv'
<1> DEFINE e == Effective(d)
<1>1. e \in 1 .. SlotCount
  BY SlotAssumption, DelaysAssumption DEF Effective
<1>2. now \in Slots /\ SlotCount \in Nat \ {0}
  BY SlotAssumption DEF WheelInv, WheelTyped
<1> HIDE DEF e
<1>3. PICK q : q = Target(e)
  OBVIOUS
<1>8. q = (now + e) % SlotCount
  BY <1>3 DEF Target
<1>9. q \in Slots /\ now + e - q \in {0, SlotCount}
  <2>1. (now + e) % SlotCount \in Slots
    BY <1>1, <1>2, TargetIs
  <2>2. (now + e) - ((now + e) % SlotCount) \in {0, SlotCount}
    BY <1>1, <1>2, TargetIs
  <2>3. q \in Slots
    BY <2>1, <1>8
  <2>4. now + e - q \in {0, SlotCount}
    BY <1>1, <1>2, <1>8, <2>1, <2>2 DEF Slots
  <2> QED
    BY <2>3, <2>4
<1>4. /\ call[t].at = "new"
      /\ call' = [call EXCEPT ![t] = [at |-> "adding", slot |-> q]]
      /\ delay' = [delay EXCEPT ![t] = e]
      /\ UNCHANGED <<slots, now, age, waited, clientVars>>
  BY <1>3 DEF AddTask, Goes, e
<1>5. WheelTyped'
  <2>1. call' \in [Tasks -> [at : CallStates, slot : Slots]]
    BY <1>4, <1>9 DEF WheelInv, WheelTyped, CallStates
  <2>2. delay' \in [Tasks -> 0 .. SlotCount]
    <3>1. e \in 0 .. SlotCount
      BY <1>1, <1>2
    <3> QED
      BY <1>4, <3>1 DEF WheelInv, WheelTyped
  <2> QED
    BY <1>4, <2>1, <2>2 DEF WheelInv, WheelTyped, clientVars
<1>6. PlacesInv'
  <2>1. /\ InSlots' = InSlots /\ InChan' = InChan /\ AtWork' = AtWork /\ Ran' = Ran
        /\ loop' = loop /\ Outside' = Outside
    BY <1>4 DEF InSlots, InChan, AtWork, Ran, clientVars, Outside, WheelInv, WheelTyped, Slots
  <2> QED
    BY <2>1, <1>4 DEF WheelInv, PlacesInv, OnceInSlots, OnceInChan, OnceAtWork, OnceRan, Apart,
                      clientVars
<1>7. ClockInv'
  <2>1. \A s \in Slots : t \notin slots[s]
    BY <1>4 DEF WheelInv, PlacesInv, Outside, InSlots
  <2>2. t \notin loop.batch
    BY <1>4 DEF WheelInv, PlacesInv, Outside
  <2>3. /\ \A u \in Tasks : u # t => call'[u] = call[u] /\ delay'[u] = delay[u]
        /\ call'[t].at = "adding" /\ call'[t].slot = q /\ delay'[t] = e
        /\ age[t] = 0 /\ waited[t] = 0
    BY <1>4 DEF WheelInv, WheelTyped, ClockInv
  <2>4. Due(t, q)'
    BY <2>3, <1>1, <1>2, <1>9, <1>4 DEF Due, Slots
  <2>5. \A u \in Tasks : /\ call[u].at = "new" => age[u] = 0
                         /\ call[u].at \in {"new", "adding"} => waited[u] = 0
                         /\ call[u].at = "adding" => /\ delay[u] \in 1 .. SlotCount
                                                     /\ Due(u, call[u].slot)
    BY DEF WheelInv, ClockInv
  <2>6. \A u \in Tasks : /\ (call[u].at = "new" => age[u] = 0)'
                         /\ (call[u].at \in {"new", "adding"} => waited[u] = 0)'
                         /\ (call[u].at = "adding" => /\ delay[u] \in 1 .. SlotCount
                                                      /\ Due(u, call[u].slot))'
    BY <2>3, <2>4, <2>5, <1>1, <1>4 DEF Due
  <2>7. \A s \in Slots : \A u \in slots[s] :
          /\ delay'[u] = delay[u] /\ (Due(u, s)' <=> Due(u, s)) /\ Left(s)' = Left(s)
    BY <2>1, <2>3, <1>4 DEF WheelInv, WheelTyped, Due, Left, clientVars
  <2>8. \A s \in Slots : \A u \in slots[s] :
          delay[u] \in 1 .. SlotCount /\ Due(u, s) /\ waited[u] + Left(s) <= SlotCount
    BY DEF WheelInv, ClockInv
  <2>9. \A u \in loop.batch : delay[u] < SlotCount => age[u] >= delay[u]
    BY DEF WheelInv, ClockInv
  <2>10. \A u \in loop.batch : delay'[u] = delay[u]
    BY <2>2, <2>3 DEF WheelInv, WheelTyped
  <2> QED
    BY <2>6, <2>7, <2>8, <2>9, <2>10, <1>4 DEF ClockInv, clientVars
<1> QED
  BY <1>5, <1>6, <1>7 DEF WheelInv

\* Only the call of t moves, and no clock: what remains to show of ClockInv.
LEMMA OnlyTheCall ==
  ASSUME WheelInv, NEW t \in Tasks, NEW c \in [at : CallStates \ {"new", "adding"}, slot : Slots],
         call' = [call EXCEPT ![t] = c],
         UNCHANGED <<now, delay, age, waited, clientVars>>,
         \A s \in Slots : \A u \in slots'[s] :
           u \in slots[s] \/ (u = t /\ waited[t] = 0 /\ delay[t] \in 1 .. SlotCount /\ Due(t, s))
  PROVE  ClockInv'
<1>1. \A u \in Tasks : /\ (call[u].at = "new" => age[u] = 0)'
                       /\ (call[u].at \in {"new", "adding"} => waited[u] = 0)'
                       /\ (call[u].at = "adding" => /\ delay[u] \in 1 .. SlotCount
                                                    /\ Due(u, call[u].slot))'
  <2>1. \A u \in Tasks : call'[u] = call[u] \/ call'[u].at \notin {"new", "adding"}
    BY DEF WheelInv, WheelTyped, CallStates
  <2> QED
    BY <2>1 DEF WheelInv, ClockInv, Due
<1>2. ASSUME NEW s \in Slots, NEW u \in slots'[s]
      PROVE  (delay[u] \in 1 .. SlotCount /\ Due(u, s) /\ waited[u] + Left(s) <= SlotCount)'
  <2>1. (Due(u, s)' <=> Due(u, s)) /\ Left(s)' = Left(s)
    BY DEF Due, Left, clientVars
  <2>2. Left(s) \in 0 .. SlotCount
    BY SlotAssumption DEF Left, WheelInv, WheelTyped, Slots
  <2>3. CASE u \in slots[s]
    BY <2>1, <2>3 DEF WheelInv, ClockInv
  <2>4. CASE u = t /\ waited[t] = 0 /\ delay[t] \in 1 .. SlotCount /\ Due(t, s)
    BY <2>1, <2>2, <2>4, SlotAssumption
  <2> QED
    BY <2>3, <2>4
<1>3. (\A u \in loop.batch : delay[u] < SlotCount => age[u] >= delay[u])'
  BY DEF WheelInv, ClockInv, clientVars
<1> QED
  BY <1>1, <1>2, <1>3 DEF ClockInv

LEMMA SlotAddTaskKeeps ==
  ASSUME WheelInv, NEW t \in Tasks, SlotAddTask(t)
  PROVE  WheelInv'
<1> DEFINE q == call[t].slot
<1>1. /\ call[t].at = "adding" /\ q \in Slots /\ 0 \in Slots
      /\ slots' = [slots EXCEPT ![q] = @ \cup {t}]
      /\ call' = [call EXCEPT ![t] = [at |-> "added", slot |-> 0]]
      /\ UNCHANGED <<now, delay, age, waited, clientVars>>
  BY SlotAssumption DEF SlotAddTask, Goes, WheelInv, WheelTyped, Slots
<1>2. t \in Outside /\ Due(t, q) /\ waited[t] = 0 /\ delay[t] \in 1 .. SlotCount
  BY <1>1 DEF Outside, WheelInv, ClockInv
<1> HIDE DEF q
<1>3. WheelTyped'
  BY <1>1 DEF WheelInv, WheelTyped, CallStates, clientVars
<1>4. PlacesInv'
  <2>1. \A s \in Slots : t \notin slots[s] /\ slots'[s] = IF s = q THEN slots[s] \cup {t} ELSE slots[s]
    <3>1. t \notin InSlots
      BY <1>2 DEF WheelInv, PlacesInv
    <3> QED
      BY <1>1, <3>1 DEF WheelInv, WheelTyped, InSlots
  <2>2. InSlots' = InSlots \cup {t}
    BY <1>1, <2>1 DEF InSlots
  <2>3. Outside' = Outside \ {t}
    BY <1>1 DEF Outside, WheelInv, WheelTyped
  <2>4. InChan' = InChan /\ AtWork' = AtWork /\ Ran' = Ran /\ loop' = loop
    BY <1>1 DEF InChan, AtWork, Ran, clientVars
  <2>5. OnceInSlots'
    BY <2>1 DEF WheelInv, PlacesInv, OnceInSlots
  <2>6. OnceInChan' /\ OnceAtWork' /\ OnceRan'
    BY <1>1 DEF WheelInv, PlacesInv, OnceInChan, OnceAtWork, OnceRan, clientVars
  <2>7. Apart(InSlots, loop.batch, InChan, AtWork, Ran)
        /\ Outside \cap (InSlots \cup loop.batch \cup InChan \cup AtWork \cup Ran) = {}
    BY DEF WheelInv, PlacesInv
  <2> QED
    BY <1>2, <2>2, <2>3, <2>4, <2>5, <2>6, <2>7 DEF PlacesInv, Apart
<1>5. ClockInv'
  <2>1. [at |-> "added", slot |-> 0] \in [at : CallStates \ {"new", "adding"}, slot : Slots]
    BY <1>1 DEF CallStates
  <2>2. \A s \in Slots : \A u \in slots'[s] :
           u \in slots[s] \/ (u = t /\ waited[t] = 0 /\ delay[t] \in 1 .. SlotCount /\ Due(t, s))
    BY <1>1, <1>2 DEF WheelInv, WheelTyped
  <2> QED
    BY <1>1, <2>1, <2>2, OnlyTheCall
<1> QED
  BY <1>3, <1>4, <1>5 DEF WheelInv

LEMMA RemoveTaskKeeps ==
  ASSUME WheelInv, NEW t \in Tasks, RemoveTask(t)
  PROVE  WheelInv'
<1>1. PICK q : q = Target(delay[t])
  OBVIOUS
<1>2. q \in Slots
  <2>1. (now + delay[t]) % SlotCount \in 0 .. SlotCount - 1
    BY SlotAssumption DEF WheelInv, WheelTyped, Slots
  <2> QED
    BY <1>1, <2>1 DEF Target, Slots
<1>3. /\ call[t].at = "added"
      /\ call' = [call EXCEPT ![t] = [at |-> "removing", slot |-> q]]
      /\ UNCHANGED <<slots, now, delay, age, waited, clientVars>>
  BY <1>1 DEF RemoveTask, Goes
<1>4. WheelTyped'
  BY <1>2, <1>3 DEF WheelInv, WheelTyped, CallStates, clientVars
<1>5. PlacesInv'
  <2>1. /\ InSlots' = InSlots /\ InChan' = InChan /\ AtWork' = AtWork /\ Ran' = Ran
        /\ loop' = loop /\ Outside' = Outside
    BY <1>3 DEF InSlots, InChan, AtWork, Ran, clientVars, Outside, WheelInv, WheelTyped
  <2> QED
    BY <2>1, <1>3 DEF WheelInv, PlacesInv, OnceInSlots, OnceInChan, OnceAtWork, OnceRan, Apart,
                      clientVars
<1>6. ClockInv'
  <2>1. [at |-> "removing", slot |-> q] \in [at : CallStates \ {"new", "adding"}, slot : Slots]
    BY <1>2 DEF CallStates
  <2> QED
    BY <1>3, <2>1, OnlyTheCall
<1> QED
  BY <1>4, <1>5, <1>6 DEF WheelInv

\* A task that is found is nowhere else, so it is gone.
LEMMA SlotRemoveTaskKeeps ==
  ASSUME WheelInv, NEW t \in Tasks, SlotRemoveTask(t)
  PROVE  WheelInv'
<1> DEFINE q == call[t].slot
           to == IF t \in slots[q] THEN "removed" ELSE "missed"
<1>1. /\ call[t].at = "removing" /\ q \in Slots /\ 0 \in Slots
      /\ slots' = [slots EXCEPT ![q] = @ \ {t}]
      /\ call' = [call EXCEPT ![t] = [at |-> to, slot |-> 0]]
      /\ UNCHANGED <<now, delay, age, waited, clientVars>>
  BY SlotAssumption DEF SlotRemoveTask, Goes, WheelInv, WheelTyped, Slots
<1>2. to \in {"removed", "missed"} /\ (to = "removed" => t \in slots[q])
  OBVIOUS
<1> HIDE DEF q, to
<1>3. WheelTyped'
  BY <1>1, <1>2 DEF WheelInv, WheelTyped, CallStates, clientVars
<1>4. \A s \in Slots : slots'[s] \subseteq slots[s]
  BY <1>1 DEF WheelInv, WheelTyped
<1>5. PlacesInv'
  <2>1. InSlots' \subseteq InSlots
    BY <1>4 DEF InSlots
  <2>2. /\ InChan' = InChan /\ AtWork' = AtWork /\ Ran' = Ran /\ loop' = loop
    BY <1>1 DEF InChan, AtWork, Ran, clientVars
  <2>3. to = "removed" => t \in InSlots /\ t \notin InSlots'
    <3> SUFFICES ASSUME to = "removed" PROVE t \in InSlots /\ t \notin InSlots'
      OBVIOUS
    <3>1. t \in InSlots
      BY <1>1, <1>2 DEF InSlots
    <3>2. \A s \in Slots : t \in slots[s] => s = q
      BY <1>1, <1>2 DEF WheelInv, PlacesInv, OnceInSlots
    <3>3. \A s \in Slots : t \notin slots'[s]
      BY <1>1, <3>2 DEF WheelInv, WheelTyped
    <3> QED
      BY <3>1, <3>3 DEF InSlots
  <2>4. Outside' \subseteq Outside \cup (IF to = "removed" THEN {t} ELSE {})
    BY <1>1, <1>2 DEF Outside, WheelInv, WheelTyped
  <2>5. OnceInSlots'
    BY <1>4 DEF WheelInv, PlacesInv, OnceInSlots
  <2>6. OnceInChan' /\ OnceAtWork' /\ OnceRan'
    BY <1>1 DEF WheelInv, PlacesInv, OnceInChan, OnceAtWork, OnceRan, clientVars
  <2>7. Apart(InSlots, loop.batch, InChan, AtWork, Ran)
        /\ Outside \cap (InSlots \cup loop.batch \cup InChan \cup AtWork \cup Ran) = {}
    BY DEF WheelInv, PlacesInv
  <2>8. Apart(InSlots, loop.batch, InChan, AtWork, Ran)'
    BY <2>1, <2>2, <2>7 DEF Apart
  <2>9. (Outside \cap (InSlots \cup loop.batch \cup InChan \cup AtWork \cup Ran))' = {}
    <3>1. CASE to = "removed"
      BY <3>1, <2>1, <2>2, <2>3, <2>4, <2>7 DEF Apart
    <3>2. CASE to # "removed"
      BY <3>2, <2>1, <2>2, <2>4, <2>7
    <3> QED
      BY <3>1, <3>2
  <2> QED
    BY <2>5, <2>6, <2>8, <2>9 DEF PlacesInv
<1>6. ClockInv'
  <2>1. [at |-> to, slot |-> 0] \in [at : CallStates \ {"new", "adding"}, slot : Slots]
    BY <1>1, <1>2 DEF CallStates
  <2>2. PICK c \in [at : CallStates \ {"new", "adding"}, slot : Slots] :
          call' = [call EXCEPT ![t] = c]
    BY <1>1, <2>1
  <2> QED
    BY <1>1, <1>4, <2>2, OnlyTheCall
<1> QED
  BY <1>3, <1>5, <1>6 DEF WheelInv

-----------------------------------------------------------------------------
(* tickLoop *)

LEMMA OlderIs ==
  ASSUME NEW clock \in [Tasks -> 0 .. SlotCount], NEW T
  PROVE  /\ Older(clock, T) \in [Tasks -> 0 .. SlotCount]
         /\ \A t \in Tasks : /\ t \notin T => Older(clock, T)[t] = clock[t]
                             /\ clock[t] = SlotCount => Older(clock, T)[t] = SlotCount
                             /\ t \in T /\ clock[t] < SlotCount
                                  => Older(clock, T)[t] = clock[t] + 1
<1> QED
  BY SlotAssumption DEF Older

\* A turn of the wheel: now moves by one, or from the last slot to the first.
LEMMA AdvanceTickKeeps ==
  ASSUME WheelInv, AdvanceTick
  PROVE  WheelInv'
<1> DEFINE A == {t \in Tasks : call[t].at = "adding"} \cup InSlots
<1>1. /\ loop.at = "wait" /\ loop' = [loop EXCEPT !.at = "clear"]
      /\ age' = Older(age, A) /\ waited' = Older(waited, InSlots)
      /\ UNCHANGED <<slots, call, delay, taskChan, poolWorker, runs, stopping>>
  BY DEF AdvanceTick
<1>2. now \in Slots /\ now' = IF now = SlotCount - 1 THEN 0 ELSE now + 1
  <2>1. now \in Slots /\ now' = (now + 1) % SlotCount
    BY DEF AdvanceTick, WheelInv, WheelTyped
  <2> QED
    BY <2>1, SlotAssumption DEF Slots
<1>3. age \in [Tasks -> 0 .. SlotCount] /\ waited \in [Tasks -> 0 .. SlotCount]
  BY DEF WheelInv, WheelTyped
<1> HIDE DEF A
<1>4. WheelTyped'
  <2>1. age' \in [Tasks -> 0 .. SlotCount] /\ waited' \in [Tasks -> 0 .. SlotCount]
    BY <1>1, <1>3, OlderIs
  <2>2. now' \in Slots
    BY <1>2, SlotAssumption DEF Slots
  <2> QED
    BY <1>1, <2>1, <2>2 DEF WheelInv, WheelTyped
<1>5. PlacesInv'
  <2>1. /\ InSlots' = InSlots /\ InChan' = InChan /\ AtWork' = AtWork /\ Ran' = Ran
        /\ loop'.batch = loop.batch /\ Outside' = Outside
    BY <1>1 DEF InSlots, InChan, AtWork, Ran, Outside, WheelInv, WheelTyped
  <2> QED
    BY <2>1, <1>1 DEF WheelInv, PlacesInv, OnceInSlots, OnceInChan, OnceAtWork, OnceRan, Apart
<1>6. ASSUME NEW t \in A \cap Tasks, NEW s \in Slots, Due(t, s), delay[t] \in 1 .. SlotCount
      PROVE  Due(t, s)'
  <2> SUFFICES ASSUME age'[t] < SlotCount
               PROVE  now' + delay[t] - s - age'[t] \in {0 - SlotCount, 0, SlotCount}
    BY <1>1 DEF Due
  <2>1. age[t] < SlotCount /\ age'[t] = age[t] + 1
    <3>1. t \in Tasks /\ t \in A /\ age[t] \in 0 .. SlotCount
      BY <1>3
    <3>2. age[t] # SlotCount
      BY <1>1, <1>3, <3>1, OlderIs, SlotAssumption
    <3> QED
      BY <1>1, <1>3, <3>1, <3>2, OlderIs, SlotAssumption
  <2>2. now + delay[t] - s - age[t] \in {0 - SlotCount, 0, SlotCount}
    BY <1>6, <2>1 DEF Due
  <2>3. age[t] \in 0 .. SlotCount /\ s \in 0 .. SlotCount - 1 /\ now \in 0 .. SlotCount - 1
    BY <1>2, <1>3 DEF Slots
  <2> QED
    BY <1>2, <1>6, <2>1, <2>2, <2>3, SlotAssumption
<1>7. ClockInv'
  <2>1. \A t \in Tasks : call[t].at \in {"new", "adding"} => t \notin InSlots
    BY DEF WheelInv, PlacesInv, Outside
  <2>2. ASSUME NEW t \in Tasks
        PROVE  /\ (call[t].at = "new" => age[t] = 0)'
               /\ (call[t].at \in {"new", "adding"} => waited[t] = 0)'
               /\ (call[t].at = "adding" => delay[t] \in 1 .. SlotCount /\ Due(t, call[t].slot))'
    <3>1. call[t].at = "new" => age'[t] = age[t]
      BY <1>1, <1>3, <2>1, OlderIs DEF A
    <3>2. call[t].at \in {"new", "adding"} => waited'[t] = waited[t]
      BY <1>1, <1>3, <2>1, OlderIs
    <3>3. PICK q \in Slots : q = call[t].slot
      BY DEF WheelInv, WheelTyped
    <3>4. call[t].at = "adding" => Due(t, q)' /\ delay[t] \in 1 .. SlotCount
      BY <1>6, <3>3 DEF WheelInv, ClockInv, A
    <3>5. call[t].at = "adding" => Due(t, call[t].slot)'
      BY <1>1, <3>3, <3>4 DEF Due
    <3> QED
      BY <1>1, <3>1, <3>2, <3>4, <3>5 DEF WheelInv, ClockInv
  <2>3. ASSUME NEW s \in Slots, NEW t \in slots[s]
        PROVE  (delay[t] \in 1 .. SlotCount /\ Due(t, s) /\ waited[t] + Left(s) <= SlotCount)'
    <3>1. t \in A \cap Tasks /\ t \in InSlots
      BY <2>3 DEF A, InSlots, WheelInv, WheelTyped
    <3>2. delay[t] \in 1 .. SlotCount /\ Due(t, s) /\ waited[t] + Left(s) <= SlotCount
      BY DEF WheelInv, ClockInv
    <3>3. Left(s) \in 1 .. SlotCount /\ Left(s)' = Left(s) - 1
      <4>1. now \in 0 .. SlotCount - 1 /\ s \in 0 .. SlotCount - 1
        BY <1>2 DEF Slots
      <4>2. loop'.at = "clear"
        BY <1>1 DEF WheelInv, WheelTyped
      <4> QED
        BY <4>1, <4>2, <1>1, <1>2, SlotAssumption DEF Left
    <3>4. waited'[t] = waited[t] + 1
      BY <1>1, <1>3, <3>1, <3>2, <3>3, OlderIs, SlotAssumption
    <3>5. Due(t, s)'
      BY <1>6, <3>1, <3>2
    <3> QED
      BY <1>1, <1>3, <3>1, <3>2, <3>3, <3>4, <3>5
  <2>4. ASSUME NEW t \in loop.batch, delay[t] < SlotCount
        PROVE  age'[t] >= delay[t]
    <3>1. t \in Tasks /\ age[t] >= delay[t] /\ t \notin A
      BY <2>4 DEF WheelInv, WheelTyped, ClockInv, PlacesInv, Apart, Outside, A
    <3>3. age'[t] = age[t]
      BY <1>1, <1>3, <3>1, OlderIs
    <3>2. age[t] \in Int /\ age'[t] \in Int /\ delay[t] \in Int
      BY <1>3, <1>4, <3>1 DEF WheelInv, WheelTyped
    <3> QED
      BY <3>1, <3>2, <3>3
  <2>5. slots' = slots /\ loop'.batch = loop.batch /\ delay' = delay
    BY <1>1 DEF WheelInv, WheelTyped
  <2> QED
    BY <2>2, <2>3, <2>4, <2>5 DEF ClockInv
<1> QED
  BY <1>4, <1>5, <1>7 DEF WheelInv

\* A task is taken when its slot comes up: then its delay has passed.
LEMMA GetAndClearKeeps ==
  ASSUME WheelInv, GetAndClear
  PROVE  WheelInv'
<1>1. /\ loop.at = "clear" /\ now \in Slots
      /\ loop' = [at |-> "submit", batch |-> slots[now]]
      /\ slots' = [slots EXCEPT ![now] = {}]
      /\ UNCHANGED <<now, call, delay, age, waited, taskChan, poolWorker, runs, stopping>>
  BY DEF GetAndClear, WheelInv, WheelTyped
<1>2. \A s \in Slots : slots'[s] = IF s = now THEN {} ELSE slots[s]
  BY <1>1 DEF WheelInv, WheelTyped
<1>3. WheelTyped'
  BY <1>1 DEF WheelInv, WheelTyped
<1>4. PlacesInv'
  <2>1. InSlots' \subseteq InSlots /\ loop'.batch \subseteq InSlots
    BY <1>1, <1>2 DEF InSlots
  <2>2. InSlots' \cap loop'.batch = {}
    BY <1>1, <1>2 DEF InSlots, WheelInv, WheelTyped, PlacesInv, OnceInSlots
  <2>3. InChan' = InChan /\ AtWork' = AtWork /\ Ran' = Ran /\ Outside' = Outside
    BY <1>1 DEF InChan, AtWork, Ran, Outside
  <2>4. OnceInSlots'
    BY <1>2 DEF WheelInv, PlacesInv, OnceInSlots
  <2>5. OnceInChan' /\ OnceAtWork' /\ OnceRan'
    BY <1>1 DEF WheelInv, PlacesInv, OnceInChan, OnceAtWork, OnceRan
  <2>6. Apart(InSlots, loop.batch, InChan, AtWork, Ran)
        /\ Outside \cap (InSlots \cup loop.batch \cup InChan \cup AtWork \cup Ran) = {}
    BY DEF WheelInv, PlacesInv
  <2> QED
    BY <2>1, <2>2, <2>3, <2>4, <2>5, <2>6 DEF PlacesInv, Apart
<1>5. ClockInv'
  <2>1. ASSUME NEW t \in Tasks
        PROVE  /\ (call[t].at = "new" => age[t] = 0)'
               /\ (call[t].at \in {"new", "adding"} => waited[t] = 0)'
               /\ (call[t].at = "adding" => delay[t] \in 1 .. SlotCount /\ Due(t, call[t].slot))'
    BY <1>1 DEF WheelInv, ClockInv, Due
  <2>2. ASSUME NEW s \in Slots, NEW t \in slots'[s]
        PROVE  (delay[t] \in 1 .. SlotCount /\ Due(t, s) /\ waited[t] + Left(s) <= SlotCount)'
    <3>1. t \in slots[s] /\ s # now
      BY <1>2, <2>2
    <3>2. (Due(t, s)' <=> Due(t, s)) /\ Left(s)' = Left(s)
      BY <1>1, <3>1 DEF Due, Left
    <3> QED
      BY <1>1, <3>1, <3>2 DEF WheelInv, ClockInv
  <2>3. ASSUME NEW t \in slots[now], delay[t] < SlotCount
        PROVE  age[t] >= delay[t]
    <3>1. delay[t] \in 1 .. SlotCount /\ Due(t, now) /\ age[t] \in 0 .. SlotCount
      BY <1>1, <2>3 DEF WheelInv, WheelTyped, ClockInv
    <3>2. now \in 0 .. SlotCount - 1
      BY <1>1 DEF Slots
    <3> QED
      BY <2>3, <3>1, <3>2, SlotAssumption DEF Due
  <2> QED
    BY <1>1, <2>1, <2>2, <2>3 DEF ClockInv
<1> QED
  BY <1>3, <1>4, <1>5 DEF WheelInv

LEMMA WorkersSame ==
  ASSUME UNCHANGED <<poolWorker, runs>>
  PROVE  AtWork' = AtWork /\ Ran' = Ran /\ OnceAtWork' = OnceAtWork /\ OnceRan' = OnceRan
  BY DEF AtWork, Ran, OnceAtWork, OnceRan

\* What a batch or the channel holds does not move the clocks of the others.
LEMMA CountedKeeps ==
  ASSUME WheelInv, UNCHANGED <<slots, now, call, delay>>,
         loop.at = "submit", loop'.at \in {"submit", "wait"}, loop'.batch \subseteq loop.batch,
         age' = Counted(age), waited' = Counted(waited)
  PROVE  ClockInv' /\ age' \in [Tasks -> 0 .. SlotCount] /\ waited' \in [Tasks -> 0 .. SlotCount]
<1>1. age \in [Tasks -> 0 .. SlotCount] /\ waited \in [Tasks -> 0 .. SlotCount]
  BY DEF WheelInv, WheelTyped
<1>2. /\ age' \in [Tasks -> 0 .. SlotCount] /\ waited' \in [Tasks -> 0 .. SlotCount]
      /\ \A t \in Tasks : /\ age'[t] \in {0, age[t]} /\ waited'[t] \in {0, waited[t]}
                          /\ t \in loop'.batch \cup InSlots \/ call[t].at = "adding"
                               => age'[t] = age[t]
  BY <1>1, SlotAssumption DEF Counted
<1>3. ASSUME NEW t \in Tasks
      PROVE  /\ (call[t].at = "new" => age[t] = 0)'
             /\ (call[t].at \in {"new", "adding"} => waited[t] = 0)'
             /\ (call[t].at = "adding" => delay[t] \in 1 .. SlotCount /\ Due(t, call[t].slot))'
  BY <1>2 DEF WheelInv, ClockInv, Due
<1>4. ASSUME NEW s \in Slots, NEW t \in slots[s]
      PROVE  (delay[t] \in 1 .. SlotCount /\ Due(t, s) /\ waited[t] + Left(s) <= SlotCount)'
  <2>1. t \in Tasks /\ t \in InSlots
    BY DEF InSlots, WheelInv, WheelTyped
  <2>2. age'[t] = age[t] /\ waited'[t] \in {0, waited[t]}
    BY <1>2, <2>1
  <2>3. (Due(t, s)' <=> Due(t, s)) /\ Left(s)' = Left(s)
    BY <2>2 DEF Due, Left
  <2>4. Left(s) \in 0 .. SlotCount
    BY SlotAssumption DEF Left, WheelInv, WheelTyped, Slots
  <2>5. delay[t] \in 1 .. SlotCount /\ Due(t, s) /\ waited[t] + Left(s) <= SlotCount
    BY DEF WheelInv, ClockInv
  <2> QED
    BY <2>2, <2>3, <2>4, <2>5, SlotAssumption
<1>5. ASSUME NEW t \in loop'.batch, delay[t] < SlotCount
      PROVE  age'[t] >= delay[t]
  BY <1>2, <1>5 DEF WheelInv, WheelTyped, ClockInv
<1> QED
  BY <1>2, <1>3, <1>4, <1>5 DEF ClockInv

LEMMA SubmitKeeps ==
  ASSUME WheelInv, Submit
  PROVE  WheelInv'
<1>1. /\ loop.at = "submit" /\ age' = Counted(age) /\ waited' = Counted(waited)
      /\ UNCHANGED <<slots, now, call, delay, poolWorker, runs, stopping>>
  BY DEF Submit
<1>2. InSlots' = InSlots /\ OnceInSlots' = OnceInSlots /\ Outside' = Outside
  BY <1>1 DEF InSlots, OnceInSlots, Outside
<1>3. AtWork' = AtWork /\ Ran' = Ran /\ OnceAtWork' = OnceAtWork /\ OnceRan' = OnceRan
  BY <1>1, WorkersSame
<1>4. CASE loop.batch = {} /\ loop' = [loop EXCEPT !.at = "wait"] /\ UNCHANGED taskChan
  <2>1. loop' = [at |-> "wait", batch |-> {}]
    BY <1>4 DEF WheelInv, WheelTyped
  <2>2. /\ ClockInv' /\ age' \in [Tasks -> 0 .. SlotCount]
        /\ waited' \in [Tasks -> 0 .. SlotCount]
    BY <1>1, <1>4, <2>1, CountedKeeps
  <2>3. WheelTyped'
    BY <1>1, <1>4, <2>1, <2>2 DEF WheelInv, WheelTyped
  <2>4. InChan' = InChan /\ OnceInChan' = OnceInChan
    BY <1>4 DEF InChan, OnceInChan
  <2>5. PlacesInv'
    BY <1>2, <1>3, <1>4, <2>1, <2>4 DEF WheelInv, PlacesInv, Apart
  <2> QED
    BY <2>2, <2>3, <2>5 DEF WheelInv
<1>5. ASSUME NEW t \in loop.batch, Len(taskChan) < QueueSize,
             taskChan' = Append(taskChan, t), loop' = [loop EXCEPT !.batch = @ \ {t}]
      PROVE  WheelInv'
  <2>1. loop' = [at |-> "submit", batch |-> loop.batch \ {t}] /\ t \in Tasks
    BY <1>1, <1>5 DEF WheelInv, WheelTyped
  <2>2. taskChan \in Seq(Tasks) /\ Len(taskChan) \in Nat
    BY DEF WheelInv, WheelTyped
  <2>3. /\ Append(taskChan, t) \in Seq(Tasks) /\ Len(Append(taskChan, t)) = Len(taskChan) + 1
        /\ DOMAIN taskChan = 1 .. Len(taskChan)
        /\ DOMAIN Append(taskChan, t) = 1 .. Len(taskChan) + 1
        /\ \A i \in 1 .. Len(taskChan) : Append(taskChan, t)[i] = taskChan[i]
        /\ Append(taskChan, t)[Len(taskChan) + 1] = t
    BY <2>1, <2>2
  <2>4. /\ ClockInv' /\ age' \in [Tasks -> 0 .. SlotCount]
        /\ waited' \in [Tasks -> 0 .. SlotCount]
    BY <1>1, <2>1, CountedKeeps
  <2>5. WheelTyped'
    <3>1. taskChan' \in Seq(Tasks) /\ Len(taskChan') <= QueueSize
      BY <1>5, <2>2, <2>3, QueueAssumption
    <3>2. loop' \in [at : {"wait", "clear", "submit", "done"}, batch : SUBSET Tasks]
      BY <2>1 DEF WheelInv, WheelTyped
    <3> QED
      BY <1>1, <2>4, <3>1, <3>2 DEF WheelInv, WheelTyped
  <2>6. InChan' = InChan \cup {t}
    BY <1>5, <2>2, <2>3 DEF InChan
  <2>7. t \notin InChan
    BY DEF WheelInv, PlacesInv, Apart
  <2>8. OnceInChan'
    <3>1. \A i \in 1 .. Len(taskChan) : taskChan[i] # t
      BY <2>3, <2>7 DEF InChan
    <3> QED
      BY <1>5, <2>2, <2>3, <3>1 DEF WheelInv, PlacesInv, OnceInChan
  <2>9. PlacesInv'
    BY <1>2, <1>3, <2>1, <2>6, <2>7, <2>8 DEF WheelInv, PlacesInv, Apart
  <2> QED
    BY <2>4, <2>5, <2>9 DEF WheelInv
<1> QED
  BY <1>4, <1>5 DEF Submit

LEMMA TickLoopExitKeeps ==
  ASSUME WheelInv, TickLoopExit
  PROVE  WheelInv'
<1>1. /\ loop.at = "wait" /\ loop' = [at |-> "done", batch |-> loop.batch]
      /\ UNCHANGED <<slots, now, call, delay, age, waited, taskChan, poolWorker, runs, stopping>>
  BY DEF TickLoopExit, WheelInv, WheelTyped
<1>2. WheelTyped'
  BY <1>1 DEF WheelInv, WheelTyped
<1>3. PlacesInv'
  <2>1. /\ InSlots' = InSlots /\ InChan' = InChan /\ AtWork' = AtWork /\ Ran' = Ran
        /\ loop'.batch = loop.batch /\ Outside' = Outside
    BY <1>1 DEF InSlots, InChan, AtWork, Ran, Outside
  <2> QED
    BY <2>1, <1>1 DEF WheelInv, PlacesInv, OnceInSlots, OnceInChan, OnceAtWork, OnceRan, Apart
<1>4. ClockInv'
  <2>1. \A s \in Slots : Left(s)' = Left(s)
    BY <1>1 DEF Left
  <2>2. \A s \in Slots : \A t \in Tasks : Due(t, s)' <=> Due(t, s)
    BY <1>1 DEF Due
  <2>3. \A s \in Slots : slots[s] \subseteq Tasks
    BY DEF WheelInv, WheelTyped
  <2>4. \A t \in Tasks : call[t].slot \in Slots /\ (Due(t, call[t].slot)' <=> Due(t, call[t].slot))
    BY <1>1 DEF Due, WheelInv, WheelTyped
  <2> QED
    BY <1>1, <2>1, <2>2, <2>3, <2>4 DEF WheelInv, ClockInv
<1> QED
  BY <1>2, <1>3, <1>4 DEF WheelInv

-----------------------------------------------------------------------------
(* Workers and Stop *)

\* The clocks know nothing of the channel and the workers.
LEMMA ClocksSame ==
  ASSUME ClockInv, UNCHANGED <<slots, now, call, delay, age, waited, loop>>
  PROVE  ClockInv'
  BY DEF ClockInv, Due, Left

LEMMA TakeFromChanKeeps ==
  ASSUME WheelInv, NEW w \in Workers, TakeFromChan(w)
  PROVE  WheelInv'
<1>1. taskChan \in Seq(Tasks) /\ taskChan # <<>> /\ Len(taskChan) \in Nat
  BY DEF TakeFromChan, WheelInv, WheelTyped
<1>2. PICK t \in Tasks : t = Head(taskChan)
  BY <1>1
<1>3. /\ Tail(taskChan) \in Seq(Tasks) /\ Len(taskChan) >= 1
      /\ Len(Tail(taskChan)) = Len(taskChan) - 1
      /\ DOMAIN Tail(taskChan) = 1 .. Len(taskChan) - 1 /\ DOMAIN taskChan = 1 .. Len(taskChan)
      /\ \A i \in 1 .. Len(taskChan) - 1 : Tail(taskChan)[i] = taskChan[i + 1]
      /\ taskChan[1] = t
  BY <1>1, <1>2
<1>4. /\ poolWorker[w] = None /\ poolWorker' = [poolWorker EXCEPT ![w] = t]
      /\ taskChan' = Tail(taskChan)
      /\ UNCHANGED <<slots, now, call, delay, age, waited, loop, runs, stopping>>
  BY <1>2 DEF TakeFromChan
<1>5. WheelTyped'
  <2>1. taskChan' \in Seq(Tasks) /\ Len(taskChan') <= QueueSize
    BY <1>1, <1>3, <1>4, QueueAssumption DEF WheelInv, WheelTyped
  <2> QED
    BY <1>4, <2>1 DEF WheelInv, WheelTyped
<1>6. ClockInv'
  BY <1>4, ClocksSame DEF WheelInv
<1>7. PlacesInv'
  <2>1. InSlots' = InSlots /\ OnceInSlots' = OnceInSlots /\ Outside' = Outside
        /\ Ran' = Ran /\ OnceRan' = OnceRan /\ loop' = loop
    BY <1>4 DEF InSlots, OnceInSlots, Outside, Ran, OnceRan
  <2>2. \A i, j \in DOMAIN taskChan : taskChan[i] = taskChan[j] => i = j
    BY DEF WheelInv, PlacesInv, OnceInChan
  <2>3. InChan' = InChan \ {t} /\ t \in InChan
    <3>1. \A i \in 1 .. Len(taskChan) - 1 : i + 1 \in DOMAIN taskChan /\ taskChan[i + 1] # t
      BY <1>1, <1>3, <2>2
    <3>2. \A i \in 1 .. Len(taskChan) : i = 1 \/ i - 1 \in 1 .. Len(taskChan) - 1
      BY <1>1
    <3>3. \A x \in InChan' : x \in InChan \ {t}
      BY <1>3, <1>4, <3>1 DEF InChan
    <3>4. \A x \in InChan \ {t} : x \in InChan'
      <4>1. ASSUME NEW i \in 1 .. Len(taskChan), taskChan[i] # t
            PROVE  taskChan[i] \in InChan'
        <5>1. i - 1 \in 1 .. Len(taskChan) - 1 /\ (i - 1) + 1 = i
          BY <1>1, <1>3, <3>2, <4>1
        <5>2. Tail(taskChan)[i - 1] = taskChan[i]
          BY <1>3, <5>1
        <5> QED
          BY <1>3, <1>4, <5>1, <5>2 DEF InChan
      <4> QED
        BY <1>3, <4>1 DEF InChan
    <3>5. t \in InChan
      BY <1>1, <1>3 DEF InChan
    <3> QED
      BY <3>3, <3>4, <3>5
  <2>4. OnceInChan'
    <3>1. ASSUME NEW i \in 1 .. Len(taskChan) - 1, NEW j \in 1 .. Len(taskChan) - 1,
                 Tail(taskChan)[i] = Tail(taskChan)[j]
          PROVE  i = j
      <4>1. i + 1 \in DOMAIN taskChan /\ j + 1 \in DOMAIN taskChan
            /\ taskChan[i + 1] = taskChan[j + 1]
        BY <1>1, <1>3, <3>1
      <4> QED
        BY <2>2, <4>1
    <3> QED
      BY <1>3, <1>4, <3>1 DEF OnceInChan
  <2>5. AtWork' = AtWork \cup {t} /\ t \notin AtWork
    <3>1. t \notin AtWork
      BY <2>3 DEF WheelInv, PlacesInv, Apart
    <3>2. \A v \in Workers : poolWorker'[v] = IF v = w THEN t ELSE poolWorker[v]
      BY <1>4 DEF WheelInv, WheelTyped
    <3> QED
      BY <1>4, <3>1, <3>2, NoneAssumption DEF AtWork
  <2>6. OnceAtWork'
    <3>1. \A v \in Workers : poolWorker'[v] = IF v = w THEN t ELSE poolWorker[v]
      BY <1>4 DEF WheelInv, WheelTyped
    <3>2. \A v \in Workers : poolWorker[v] # t
      BY <2>5 DEF AtWork
    <3> QED
      BY <3>1, <3>2 DEF OnceAtWork, WheelInv, PlacesInv
  <2>7. Apart(InSlots, loop.batch, InChan, AtWork, Ran)
        /\ Outside \cap (InSlots \cup loop.batch \cup InChan \cup AtWork \cup Ran) = {}
    BY DEF WheelInv, PlacesInv
  <2> QED
    BY <2>1, <2>3, <2>4, <2>5, <2>6, <2>7 DEF PlacesInv, Apart, WheelInv
<1> QED
  BY <1>5, <1>6, <1>7 DEF WheelInv

LEMMA ExecuteTaskKeeps ==
  ASSUME WheelInv, NEW w \in Workers, ExecuteTask(w)
  PROVE  WheelInv'
<1>1. PICK t \in Tasks : t = poolWorker[w]
  BY DEF ExecuteTask
<1>2. /\ runs' = [runs EXCEPT ![t] = @ + 1] /\ poolWorker' = [poolWorker EXCEPT ![w] = None]
      /\ UNCHANGED <<slots, now, call, delay, age, waited, loop, taskChan, stopping>>
  BY <1>1 DEF ExecuteTask
<1>3. \A u \in Tasks : runs'[u] = IF u = t THEN runs[u] + 1 ELSE runs[u]
  BY <1>2 DEF WheelInv, WheelTyped
<1>4. \A v \in Workers : poolWorker'[v] = IF v = w THEN None ELSE poolWorker[v]
  BY <1>2 DEF WheelInv, WheelTyped
<1>5. WheelTyped'
  <2>1. runs' \in [Tasks -> Nat]
    BY <1>2 DEF WheelInv, WheelTyped
  <2>2. poolWorker' \in [Workers -> Tasks \cup {None, "exited"}]
    BY <1>2 DEF WheelInv, WheelTyped
  <2> QED
    BY <1>2, <2>1, <2>2 DEF WheelInv, WheelTyped
<1>6. ClockInv'
  BY <1>2, ClocksSame DEF WheelInv
<1>7. PlacesInv'
  <2>1. InSlots' = InSlots /\ OnceInSlots' = OnceInSlots /\ Outside' = Outside
        /\ InChan' = InChan /\ OnceInChan' = OnceInChan /\ loop' = loop
    BY <1>2 DEF InSlots, OnceInSlots, Outside, InChan, OnceInChan
  <2>2. t \in AtWork /\ AtWork' = AtWork \ {t}
    <3>1. \A v \in Workers : poolWorker[v] = t => v = w
      BY <1>1 DEF WheelInv, PlacesInv, OnceAtWork
    <3> QED
      BY <1>1, <1>4, <3>1, NoneAssumption DEF AtWork
  <2>3. t \notin Ran
    BY <2>2 DEF WheelInv, PlacesInv, Apart
  <2>4. Ran' = Ran \cup {t} /\ OnceRan'
    <3>1. runs[t] = 0
      BY <2>3 DEF Ran
    <3>2. \A u \in Tasks : runs[u] \in Nat /\ runs[u] <= 1
      BY DEF WheelInv, WheelTyped, PlacesInv, OnceRan
    <3> QED
      BY <1>3, <3>1, <3>2 DEF Ran, OnceRan
  <2>5. OnceAtWork'
    BY <1>4, NoneAssumption DEF OnceAtWork, WheelInv, PlacesInv
  <2>6. Apart(InSlots, loop.batch, InChan, AtWork, Ran)
        /\ Outside \cap (InSlots \cup loop.batch \cup InChan \cup AtWork \cup Ran) = {}
    BY DEF WheelInv, PlacesInv
  <2> QED
    BY <2>1, <2>2, <2>3, <2>4, <2>5, <2>6 DEF PlacesInv, Apart, WheelInv
<1> QED
  BY <1>5, <1>6, <1>7 DEF WheelInv

LEMMA WorkerExitKeeps ==
  ASSUME WheelInv, NEW w \in Workers, WorkerExit(w)
  PROVE  WheelInv'
<1>1. /\ poolWorker[w] = None /\ poolWorker' = [poolWorker EXCEPT ![w] = "exited"]
      /\ UNCHANGED <<slots, now, call, delay, age, waited, loop, taskChan, runs, stopping>>
  BY DEF WorkerExit
<1>2. \A v \in Workers : poolWorker'[v] = IF v = w THEN "exited" ELSE poolWorker[v]
  BY <1>1 DEF WheelInv, WheelTyped
<1>3. WheelTyped'
  BY <1>1 DEF WheelInv, WheelTyped
<1>4. ClockInv'
  BY <1>1, ClocksSame DEF WheelInv
<1>5. PlacesInv'
  <2>1. InSlots' = InSlots /\ InChan' = InChan /\ Ran' = Ran /\ loop' = loop /\ Outside' = Outside
    BY <1>1 DEF InSlots, InChan, Ran, Outside
  <2>2. AtWork' = AtWork /\ OnceAtWork'
    BY <1>1, <1>2, NoneAssumption, ExitedAssumption
    DEF AtWork, OnceAtWork, WheelInv, PlacesInv
  <2> QED
    BY <2>1, <2>2, <1>1 DEF WheelInv, PlacesInv, OnceInSlots, OnceInChan, OnceRan, Apart
<1> QED
  BY <1>3, <1>4, <1>5 DEF WheelInv

LEMMA StopKeeps ==
  ASSUME WheelInv, stopping' \in {"no", "tick", "pool", "done"},
         UNCHANGED <<slots, now, call, delay, age, waited, loop, taskChan, poolWorker, runs>>
  PROVE  WheelInv'
<1>1. WheelTyped'
  BY DEF WheelInv, WheelTyped
<1>2. ClockInv'
  BY ClocksSame DEF WheelInv
<1>3. /\ InSlots' = InSlots /\ InChan' = InChan /\ AtWork' = AtWork /\ Ran' = Ran
      /\ loop' = loop /\ Outside' = Outside
  BY DEF InSlots, InChan, AtWork, Ran, Outside
<1>4. PlacesInv'
  BY <1>3 DEF WheelInv, PlacesInv, OnceInSlots, OnceInChan, OnceAtWork, OnceRan, Apart
<1> QED
  BY <1>1, <1>2, <1>4 DEF WheelInv

LEMMA WheelInvStep == WheelInv /\ [WheelNext]_wheelVars => WheelInv'
<1> SUFFICES ASSUME WheelInv, [WheelNext]_wheelVars PROVE WheelInv'
  OBVIOUS
<1>1. ASSUME NEW t \in Tasks, SlotAddTask(t) \/ RemoveTask(t) \/ SlotRemoveTask(t)
      PROVE  WheelInv'
  BY <1>1, SlotAddTaskKeeps, RemoveTaskKeeps, SlotRemoveTaskKeeps
<1>2. ASSUME NEW t \in Tasks, NEW d \in Delays, AddTask(t, d) PROVE WheelInv'
  BY <1>2, AddTaskKeeps
<1>3. CASE AdvanceTick \/ GetAndClear \/ Submit \/ TickLoopExit
  BY <1>3, AdvanceTickKeeps, GetAndClearKeeps, SubmitKeeps, TickLoopExitKeeps
<1>4. ASSUME NEW w \in Workers, TakeFromChan(w) \/ ExecuteTask(w) \/ WorkerExit(w)
      PROVE  WheelInv'
  BY <1>4, TakeFromChanKeeps, ExecuteTaskKeeps, WorkerExitKeeps
<1>5. CASE StopScheduler \/ StopPool \/ PoolStopped
  BY <1>5, StopKeeps DEF StopScheduler, StopPool, PoolStopped, StopSteps
<1>6. CASE UNCHANGED wheelVars
  BY <1>6, StopKeeps DEF wheelVars, WheelInv, WheelTyped
<1> QED
  BY <1>1, <1>2, <1>3, <1>4, <1>5, <1>6 DEF WheelNext

LEMMA WheelInvTypes == WheelInv => WheelTypeOK
<1> SUFFICES ASSUME WheelInv PROVE WheelTypeOK
  OBVIOUS
<1>1. \A t \in Tasks : call[t].at \in CallStates /\ call[t].slot \in Slots
  BY DEF WheelInv, WheelTyped
<1> QED
  BY <1>1 DEF WheelInv, WheelTyped, WheelTypeOK, CallStates

\* The scheduler keeps to its types: its queue to its capacity, its slots and
\* clocks to the wheel (task/time_wheel.go, task/worker_pool.go).
THEOREM WheelTypes == WheelSpec => []WheelTypeOK
<1> QED
  BY WheelInvTypes, WheelInvInit, WheelInvStep, PTL DEF WheelSpec

\* A task that was added once is in one place and is executed at most once, and
\* never after RemoveTask has said that it was removed, for every number of
\* tasks, workers and slots (task/scheduler.go).
THEOREM WheelExecutedOnce == WheelSpec => []ExecutedOnce
<1> QED
  BY WheelInvOnce, WheelInvInit, WheelInvStep, PTL DEF WheelSpec

\* No task is taken before its delay has passed, and none is missed: it is taken
\* within a turn of the wheel (task/time_wheel.go Tick).
THEOREM WheelOnTime == WheelSpec => []OnTime
<1> QED
  BY WheelInvOnTime, WheelInvInit, WheelInvStep, PTL DEF WheelSpec

-----------------------------------------------------------------------------
(* The conversations *)

Cmds == [op : {"HSet", "HIncrBy", "ZAdd"}, user : Users, peer : Peers]

\* The commands of pipelines that are not yet carried out.
Undone(left) == UNION {{left[k][i] : i \in DOMAIN left[k]} : k \in DOMAIN left}

\* Pipelines with something left to do, none of it twice.
GoodPipes(left) ==
  /\ left \in Seq(Seq(Cmds))
  /\ \A k \in DOMAIN left : left[k] # <<>>
  /\ \A k, l \in DOMAIN left : \A i \in DOMAIN left[k] : \A j \in DOMAIN left[l] :
       left[k][i] = left[l][j] => k = l /\ i = j

\* A goroutine counts a message for nobody in both of its pipelines.
GoodJob(j) ==
  /\ j \in [msg : ConvMsgs, left : Seq(Seq(Cmds)), sent : Seq(Seq(Cmds)), after : Seq(Seq(Cmds))]
  /\ GoodPipes(j.left) /\ GoodPipes(j.sent) /\ GoodPipes(j.after)
  /\ Undone(j.left) \subseteq Undone(j.sent)
  /\ \A c \in Undone(j.sent) \cap Undone(j.after) : c.op # "HIncrBy"

\* What it has still to do, and all that it may have to.
ToDo(j) == Undone(j.left) \cup Undone(j.after)
AllOf(j) == Undone(j.sent) \cup Undone(j.after)

ConvTyped ==
  /\ script \in Scripts
  /\ at \in [ConvMsgs -> {"queued", "acked", "members", "routed", "failed"}]
  /\ members \in [Groups -> SUBSET Users]
  /\ found \in [ConvMsgs -> SUBSET Users] /\ routed \in [ConvMsgs -> SUBSET Users]
  /\ fresh \in [Users -> SUBSET ConvMsgs]
  /\ synced \subseteq ConvMsgs
  /\ conv \in [Users -> [Peers -> [last : Nat, unread : Nat]]]
  /\ index \in [Users -> SUBSET Peers]
  /\ breaks \in Nat /\ lost \in BOOLEAN

\* It counts its message for those it was routed to.
CountsRouted(j) ==
  \A c \in AllOf(j) :
    c.op = "HIncrBy" => c.user \in routed[j.msg] /\ c.peer = Thread(c.user, j.msg)

JobsInv ==
  /\ \A j \in jobs : GoodJob(j) /\ at[j.msg] = "routed" /\ CountsRouted(j)
  /\ \A j, k \in jobs : j.msg = k.msg => j = k
  /\ \A m \in ConvMsgs : at[m] # "routed" => routed[m] = {}
  /\ \A m \in ConvMsgs : at[m] = "members" => IsGroup(m)
  /\ \A u \in Users : fresh[u] \subseteq {m \in ConvMsgs : u \in routed[m]}
  /\ IsFiniteSet({m \in ConvMsgs : routed[m] # {}})

\* The messages whose HIncrBy is to come, and those not marked as read.
Uncounted(u, p) == {m \in ConvMsgs : \E j \in jobs : j.msg = m /\ HIncrBy(u, p) \in ToDo(j)}
FreshIn(u, p) == {m \in fresh[u] : Thread(u, m) = p}

CountInv ==
  \A u \in Users, p \in Peers :
    LET c == conv[u][p].unread + Cardinality(Uncounted(u, p))
    IN /\ c <= Cardinality(RoutedIn(u, p)) + breaks
       /\ ~lost => Cardinality(FreshIn(u, p)) <= c

IndexInv ==
  ~lost =>
    \A u \in Users, p \in Peers :
      RoutedIn(u, p) # {} => p \in index[u] \/ \E j \in jobs : ZAdd(u, p) \in ToDo(j)

ConvInv == ConvTyped /\ JobsInv /\ CountInv /\ IndexInv

LEMMA UndoneIs ==
  ASSUME NEW left, NEW x
  PROVE  x \in Undone(left) <=> \E k \in DOMAIN left : \E i \in DOMAIN left[k] : x = left[k][i]
  BY DEF Undone

LEMMA CmdsAre ==
  ASSUME NEW u, NEW p
  PROVE  /\ HSet(u, p).op = "HSet" /\ HSet(u, p).user = u /\ HSet(u, p).peer = p
         /\ HIncrBy(u, p).op = "HIncrBy" /\ HIncrBy(u, p).user = u /\ HIncrBy(u, p).peer = p
         /\ ZAdd(u, p).op = "ZAdd" /\ ZAdd(u, p).user = u /\ ZAdd(u, p).peer = p
  BY DEF HSet, HIncrBy, ZAdd

\* Without the first command.
LEMMA AfterFirstIs ==
  ASSUME NEW left, GoodPipes(left), left # <<>>
  PROVE  /\ Head(Head(left)) \in Undone(left) /\ Head(Head(left)) \in Cmds
         /\ GoodPipes(AfterFirst(left))
         /\ Undone(AfterFirst(left)) = Undone(left) \ {Head(Head(left))}
<1>0. left \in Seq(Seq(Cmds))
  BY Zenon DEF GoodPipes
<1> PICK n \in Nat : n = Len(left)
  BY <1>0
<1>1. /\ left \in Seq(Seq(Cmds)) /\ n >= 1 /\ DOMAIN left = 1 .. n
      /\ Head(left) = left[1] /\ left[1] \in Seq(Cmds) /\ left[1] # <<>>
      /\ \A k \in 1 .. n : left[k] \in Seq(Cmds) /\ left[k] # <<>>
  <2>1. /\ left \in Seq(Seq(Cmds)) /\ n >= 1 /\ DOMAIN left = 1 .. n
        /\ Head(left) = left[1]
    BY <1>0
  <2>2. \A k \in 1 .. n : left[k] \in Seq(Cmds)
    BY <1>0
  <2>3. \A k \in 1 .. n : left[k] # <<>>
    BY <2>1, Zenon DEF GoodPipes
  <2> QED
    BY <2>1, <2>2, <2>3
<1> PICK first : first = left[1]
  OBVIOUS
<1> PICK c : c = Head(Head(left))
  OBVIOUS
<1> PICK p \in Nat : p = Len(first)
  BY <1>1
<1>2. /\ first \in Seq(Cmds) /\ p >= 1 /\ DOMAIN first = 1 .. p /\ c = first[1] /\ c \in Cmds
      /\ Tail(first) \in Seq(Cmds) /\ Len(Tail(first)) = p - 1
      /\ DOMAIN Tail(first) = 1 .. p - 1
      /\ \A i \in 1 .. p - 1 : Tail(first)[i] = first[i + 1]
  BY <1>1
<1>3. \A k, l \in 1 .. n : \A i \in DOMAIN left[k] : \A j \in DOMAIN left[l] :
        left[k][i] = left[l][j] => k = l /\ i = j
  BY <1>1 DEF GoodPipes
<1>4. c \in Undone(left)
  <2>1. 1 \in DOMAIN left /\ 1 \in DOMAIN left[1] /\ c = left[1][1]
    BY <1>1, <1>2
  <2> QED
    BY <2>1 DEF Undone
<1>5. CASE p = 1
  <2> PICK rest : rest = Tail(left)
    OBVIOUS
  <2>0. AfterFirst(left) = rest
    BY <1>1, <1>5 DEF AfterFirst
  <2>1. /\ AfterFirst(left) = rest
        /\ rest \in Seq(Seq(Cmds)) /\ DOMAIN rest = 1 .. n - 1
        /\ \A k \in 1 .. n - 1 : rest[k] = left[k + 1]
    BY <1>1, <2>0
  <2>2. GoodPipes(rest)
    <3>1. ASSUME NEW k \in 1 .. n - 1, NEW l \in 1 .. n - 1, NEW i \in DOMAIN rest[k],
                 NEW j \in DOMAIN rest[l], rest[k][i] = rest[l][j]
          PROVE  k = l /\ i = j
      <4>1. k + 1 \in 1 .. n /\ l + 1 \in 1 .. n /\ rest[k] = left[k + 1] /\ rest[l] = left[l + 1]
        BY <2>1
      <4>2. k + 1 = l + 1 /\ i = j
        BY <1>3, <3>1, <4>1
      <4> QED
        BY <4>2
    <3>2. \A k \in 1 .. n - 1 : rest[k] # <<>>
      <4>1. SUFFICES ASSUME NEW k \in 1 .. n - 1  PROVE  rest[k] # <<>>
        OBVIOUS
      <4>2. k + 1 \in 1 .. n /\ rest[k] = left[k + 1]
        BY <2>1
      <4>3. left[k + 1] # <<>>
        BY <1>1, <4>2 DEF GoodPipes
      <4> QED
        BY <4>2, <4>3
    <3> QED
      BY <2>1, <3>1, <3>2 DEF GoodPipes
  <2>3. \A x : x \in Undone(rest) <=> x \in Undone(left) /\ x # c
    <3>1. ASSUME NEW k \in 1 .. n - 1, NEW i \in DOMAIN rest[k]
          PROVE  rest[k][i] \in Undone(left) /\ rest[k][i] # c
      <4>1. k + 1 \in 1 .. n /\ rest[k] = left[k + 1] /\ k + 1 # 1
        BY <2>1
      <4>2. rest[k][i] \in Undone(left)
        BY <1>1, <4>1 DEF Undone
      <4>3. 1 \in DOMAIN left[1] /\ c = left[1][1] /\ 1 \in 1 .. n
        BY <1>1, <1>2
      <4> QED
        BY <1>3, <4>1, <4>2, <4>3
    <3>2. ASSUME NEW k \in 1 .. n, NEW i \in DOMAIN left[k], left[k][i] # c
          PROVE  left[k][i] \in Undone(rest)
      <4>1. k # 1
        BY <1>2, <1>5, <3>2
      <4>2. k - 1 \in 1 .. n - 1 /\ rest[k - 1] = left[(k - 1) + 1] /\ (k - 1) + 1 = k
        BY <2>1, <4>1
      <4> QED
        BY <2>1, <4>2 DEF Undone
    <3>3. ASSUME NEW x \in Undone(rest)
          PROVE  x \in Undone(left) /\ x # c
      <4>1. PICK k \in DOMAIN rest : \E i \in DOMAIN rest[k] : x = rest[k][i]
        BY <3>3 DEF Undone
      <4> QED
        BY <2>1, <3>1, <4>1
    <3>4. ASSUME NEW x \in Undone(left), x # c
          PROVE  x \in Undone(rest)
      <4>1. PICK k \in DOMAIN left : \E i \in DOMAIN left[k] : x = left[k][i]
        BY UndoneIs
      <4> QED
        BY <1>1, <3>2, <3>4, <4>1
    <3> QED
      BY <3>3, <3>4
  <2>4. Undone(rest) = Undone(left) \ {c}
    BY <2>3
  <2> QED
    BY <1>2, <1>4, <2>1, <2>2, <2>4
<1>6. CASE p # 1
  <2> PICK rest : rest = [left EXCEPT ![1] = Tail(@)]
    OBVIOUS
  <2>1. /\ AfterFirst(left) = rest
        /\ rest \in Seq(Seq(Cmds)) /\ DOMAIN rest = 1 .. n
        /\ rest[1] = Tail(first) /\ \A k \in 1 .. n : k # 1 => rest[k] = left[k]
    BY <1>1, <1>2, <1>6 DEF AfterFirst
  <2>2. DOMAIN rest[1] = 1 .. p - 1 /\ \A i \in 1 .. p - 1 : rest[1][i] = left[1][i + 1]
    BY <1>2, <2>1
  <2>3. ASSUME NEW k \in 1 .. n, NEW i \in DOMAIN rest[k]
        PROVE  LET d == IF k = 1 THEN i + 1 ELSE i
               IN d \in DOMAIN left[k] /\ rest[k][i] = left[k][d] /\ ~(k = 1 /\ d = 1)
    <3>1. CASE k = 1
      <4>1. i \in 1 .. p - 1 /\ i + 1 \in 1 .. p /\ i + 1 # 1
        BY <2>2, <3>1
      <4> QED
        BY <1>2, <2>2, <3>1, <4>1
    <3>2. CASE k # 1
      BY <2>1, <3>2
    <3> QED
      BY <3>1, <3>2
  <2>4. GoodPipes(rest)
    <3>1. ASSUME NEW k \in 1 .. n, NEW l \in 1 .. n, NEW i \in DOMAIN rest[k],
                 NEW j \in DOMAIN rest[l], rest[k][i] = rest[l][j]
          PROVE  k = l /\ i = j
      <4>1. k = l
        BY <1>3, <2>3, <3>1
      <4>2. CASE k = 1
        <5>1. i \in 1 .. p - 1 /\ j \in 1 .. p - 1
          BY <2>2, <4>1, <4>2
        <5>2. i + 1 = j + 1
          BY <1>3, <2>3, <3>1, <4>1, <4>2
        <5> QED
          BY <4>1, <5>1, <5>2
      <4>3. CASE k # 1
        BY <1>3, <2>3, <3>1, <4>1, <4>3
      <4> QED
        BY <4>2, <4>3
    <3>2. \A k \in 1 .. n : rest[k] # <<>>
      <4>1. rest[1] # <<>>
        <5>1. Len(Tail(first)) # 0
          BY <1>2, <1>6
        <5>2. Len(<<>>) = 0
          OBVIOUS
        <5> QED
          BY <2>1, <5>1, <5>2
      <4> QED
        BY <1>1, <2>1, <4>1
    <3>3. rest \in Seq(Seq(Cmds)) /\ DOMAIN rest = 1 .. n
      BY <2>1
    <3>4. \A k, l \in DOMAIN rest : \A i \in DOMAIN rest[k] : \A j \in DOMAIN rest[l] :
            rest[k][i] = rest[l][j] => k = l /\ i = j
      BY <3>1, <3>3
    <3>5. \A k \in DOMAIN rest : rest[k] # <<>>
      BY <3>2, <3>3, Zenon
    <3> QED
      BY <3>3, <3>4, <3>5, Zenon DEF GoodPipes
  <2>5. \A x : x \in Undone(rest) <=> x \in Undone(left) /\ x # c
    <3>1. ASSUME NEW k \in 1 .. n, NEW i \in DOMAIN rest[k]
          PROVE  rest[k][i] \in Undone(left) /\ rest[k][i] # c
      <4>1. PICK d \in DOMAIN left[k] : rest[k][i] = left[k][d] /\ ~(k = 1 /\ d = 1)
        BY <2>3
      <4>2. 1 \in DOMAIN left[1] /\ c = left[1][1] /\ 1 \in 1 .. n
        BY <1>1, <1>2
      <4>3. left[k][d] \in Undone(left)
        BY <1>1, UndoneIs
      <4> QED
        BY <1>3, <4>1, <4>2, <4>3
    <3>2. ASSUME NEW k \in 1 .. n, NEW i \in DOMAIN left[k], left[k][i] # c
          PROVE  left[k][i] \in Undone(rest)
      <4>1. CASE k = 1
        <5>1. i \in 1 .. p /\ i # 1
          BY <1>2, <3>2, <4>1
        <5>2. i - 1 \in 1 .. p - 1 /\ (i - 1) + 1 = i
          BY <5>1
        <5>3. rest[1][i - 1] = left[1][i] /\ i - 1 \in DOMAIN rest[1]
          BY <2>2, <5>2
        <5> QED
          BY <2>1, <4>1, <5>3, UndoneIs
      <4>2. CASE k # 1
        <5>1. rest[k] = left[k] /\ k \in DOMAIN rest /\ i \in DOMAIN rest[k]
          BY <2>1, <3>2, <4>2
        <5>2. rest[k][i] \in Undone(rest)
          BY <5>1, UndoneIs
        <5> QED
          BY <5>1, <5>2
      <4> QED
        BY <4>1, <4>2
    <3>3. ASSUME NEW x \in Undone(rest)
          PROVE  x \in Undone(left) /\ x # c
      <4>1. PICK k \in DOMAIN rest : \E i \in DOMAIN rest[k] : x = rest[k][i]
        BY <3>3 DEF Undone
      <4> QED
        BY <2>1, <3>1, <4>1
    <3>4. ASSUME NEW x \in Undone(left), x # c
          PROVE  x \in Undone(rest)
      <4>1. PICK k \in DOMAIN left : \E i \in DOMAIN left[k] : x = left[k][i]
        BY UndoneIs
      <4> QED
        BY <1>1, <3>2, <3>4, <4>1
    <3> QED
      BY <3>3, <3>4
  <2>6. Undone(rest) = Undone(left) \ {c}
    BY <2>5
  <2> QED
    BY <1>2, <1>4, <2>1, <2>4, <2>6
<1> QED
  BY <1>5, <1>6

LEMMA NoPipes == GoodPipes(<<>>) /\ Undone(<<>>) = {}
<1>1. <<>> \in Seq(Seq(Cmds)) /\ DOMAIN <<>> = {}
  OBVIOUS
<1> QED
  BY <1>1 DEF GoodPipes, Undone

-----------------------------------------------------------------------------
(* The pipelines of a message *)

LEMMA PartiesAre ==
  ASSUME ConvTyped, NEW m \in ConvMsgs
  PROVE  /\ From(m) \in Users /\ To(m) \in Peers
         /\ ~IsGroup(m) => To(m) \in Users
         /\ \A u \in Users : Thread(u, m) \in Peers
  BY PartiesAssumption DEF ConvTyped, From, To, IsGroup, Peers, Thread

\* The commands for a user, in order.
LEMMA ForUser ==
  ASSUME NEW u \in Users, NEW p \in Peers
  PROVE  LET s == UpdateConversationForSender(u, p)
             r == UpdateConversationForReceiver(u, p)
         IN /\ s \in Seq(Cmds) /\ DOMAIN s = 1 .. 2 /\ s[1] = HSet(u, p) /\ s[2] = ZAdd(u, p)
            /\ r \in Seq(Cmds) /\ DOMAIN r = 1 .. 3
            /\ r[1] = HSet(u, p) /\ r[2] = HIncrBy(u, p) /\ r[3] = ZAdd(u, p)
<1>1. HSet(u, p) \in Cmds /\ HIncrBy(u, p) \in Cmds /\ ZAdd(u, p) \in Cmds
  BY DEF HSet, HIncrBy, ZAdd, Cmds
<1> QED
  BY <1>1 DEF UpdateConversationForSender, UpdateConversationForReceiver

\* Pipelines for different users, each the sender's or a receiver's.
Pipes(n, who, peer, S) ==
  [k \in 1 .. n |-> IF k \in S THEN UpdateConversationForSender(who[k], peer[k])
                               ELSE UpdateConversationForReceiver(who[k], peer[k])]

PipesGood(left, n, who, peer, S) ==
  /\ GoodPipes(left)
  /\ \A c \in Undone(left) : c.op = "HIncrBy" =>
       \E k \in (1 .. n) \ S : c.user = who[k] /\ c.peer = peer[k]
  /\ \A k \in 1 .. n : /\ ZAdd(who[k], peer[k]) \in Undone(left)
                       /\ k \notin S => HIncrBy(who[k], peer[k]) \in Undone(left)

LEMMA PipesForUsers ==
  ASSUME NEW n \in Nat, NEW who \in [1 .. n -> Users], NEW peer \in [1 .. n -> Peers], NEW S,
         \A k, l \in 1 .. n : who[k] = who[l] => k = l
  PROVE  PipesGood(Pipes(n, who, peer, S), n, who, peer, S)
<1> PICK left : left = Pipes(n, who, peer, S)
  OBVIOUS
<1>0. /\ DOMAIN left = 1 .. n /\ left = [k \in 1 .. n |-> left[k]]
      /\ \A k \in 1 .. n :
           left[k] = IF k \in S THEN UpdateConversationForSender(who[k], peer[k])
                                ELSE UpdateConversationForReceiver(who[k], peer[k])
  BY DEF Pipes
<1>1. \A k \in 1 .. n :
        /\ left[k] \in Seq(Cmds)
        /\ k \in S => /\ DOMAIN left[k] = 1 .. 2
                      /\ left[k][1] = HSet(who[k], peer[k]) /\ left[k][2] = ZAdd(who[k], peer[k])
        /\ k \notin S => /\ DOMAIN left[k] = 1 .. 3
                         /\ left[k][1] = HSet(who[k], peer[k])
                         /\ left[k][2] = HIncrBy(who[k], peer[k])
                         /\ left[k][3] = ZAdd(who[k], peer[k])
  BY <1>0, ForUser
<1>2. \A k \in 1 .. n : \A i \in DOMAIN left[k] :
        /\ i \in 1 .. 3 /\ left[k][i].user = who[k] /\ left[k][i].peer = peer[k]
        /\ left[k][i].op = IF i = 1 THEN "HSet"
                           ELSE IF i = 2 /\ k \notin S THEN "HIncrBy" ELSE "ZAdd"
  <2> SUFFICES ASSUME NEW k \in 1 .. n, NEW i \in DOMAIN left[k]
               PROVE  /\ i \in 1 .. 3 /\ left[k][i].user = who[k] /\ left[k][i].peer = peer[k]
                      /\ left[k][i].op = IF i = 1 THEN "HSet"
                                         ELSE IF i = 2 /\ k \notin S THEN "HIncrBy" ELSE "ZAdd"
    OBVIOUS
  <2>1. CASE k \in S
    <3>1. i = 1 \/ i = 2
      BY <1>1, <2>1
    <3> QED
      BY <1>1, <2>1, <3>1, CmdsAre
  <2>2. CASE k \notin S
    <3>1. i = 1 \/ i = 2 \/ i = 3
      BY <1>1, <2>2
    <3> QED
      BY <1>1, <2>2, <3>1, CmdsAre
  <2> QED
    BY <2>1, <2>2
<1>3. left \in Seq(Seq(Cmds))
  BY <1>0, <1>1
<1>4. \A k \in 1 .. n : left[k] # <<>>
  <2>1. DOMAIN <<>> = {}
    OBVIOUS
  <2>2. \A k \in 1 .. n : 1 \in DOMAIN left[k]
    BY <1>1
  <2> QED
    BY <2>1, <2>2
<1>5. ASSUME NEW k \in 1 .. n, NEW l \in 1 .. n, NEW i \in DOMAIN left[k], NEW j \in DOMAIN left[l],
             left[k][i] = left[l][j]
      PROVE  k = l /\ i = j
  <2>1. k = l
    BY <1>2, <1>5
  <2>2. i \in 1 .. 3 /\ j \in 1 .. 3
    BY <1>2
  <2>3. i \in DOMAIN left[k] /\ j \in DOMAIN left[k] /\ left[k][i].op = left[k][j].op
    BY <1>5, <2>1
  <2>4. CASE k \in S
    <3>1. i \in 1 .. 2 /\ j \in 1 .. 2
      BY <1>1, <2>3, <2>4
    <3> QED
      BY <1>2, <2>1, <2>3, <2>4, <3>1
  <2>5. CASE k \notin S
    BY <1>2, <2>1, <2>2, <2>3, <2>5
  <2> QED
    BY <2>4, <2>5
<1>6. GoodPipes(left)
  BY <1>0, <1>3, <1>4, <1>5 DEF GoodPipes
<1>7. \A c \in Undone(left) : c.op = "HIncrBy" =>
        \E k \in (1 .. n) \ S : c.user = who[k] /\ c.peer = peer[k]
  <2> SUFFICES ASSUME NEW k \in 1 .. n, NEW i \in DOMAIN left[k], left[k][i].op = "HIncrBy"
               PROVE  \E l \in (1 .. n) \ S : left[k][i].user = who[l] /\ left[k][i].peer = peer[l]
    BY <1>0 DEF Undone
  <2>1. k \notin S
    BY <1>2
  <2> QED
    BY <1>2, <2>1
<1>8. ASSUME NEW k \in 1 .. n
      PROVE  /\ ZAdd(who[k], peer[k]) \in Undone(left)
             /\ k \notin S => HIncrBy(who[k], peer[k]) \in Undone(left)
  <2>1. CASE k \in S
    <3>1. 2 \in DOMAIN left[k]
      BY <1>1, <2>1
    <3> QED
      BY <1>0, <1>1, <2>1, <3>1 DEF Undone
  <2>2. CASE k \notin S
    <3>1. 2 \in DOMAIN left[k] /\ 3 \in DOMAIN left[k]
      BY <1>1, <2>2
    <3> QED
      BY <1>0, <1>1, <2>2, <3>1 DEF Undone
  <2> QED
    BY <2>1, <2>2
<1> QED
  BY <1>6, <1>7, <1>8 DEF PipesGood

\* A pipeline for one user.
LEMMA OneUser ==
  ASSUME NEW u \in Users, NEW p \in Peers
  PROVE  LET s == <<UpdateConversationForSender(u, p)>>
             r == <<UpdateConversationForReceiver(u, p)>>
         IN /\ GoodPipes(s) /\ ZAdd(u, p) \in Undone(s) /\ \A c \in Undone(s) : c.op # "HIncrBy"
            /\ GoodPipes(r) /\ ZAdd(u, p) \in Undone(r) /\ HIncrBy(u, p) \in Undone(r)
            /\ \A c \in Undone(r) : c.op = "HIncrBy" => c.user = u /\ c.peer = p
<1> PICK n \in Nat : n = 1
  OBVIOUS
<1> DEFINE who == [k \in 1 .. n |-> u]
           peer == [k \in 1 .. n |-> p]
<1>1. /\ who \in [1 .. n -> Users] /\ peer \in [1 .. n -> Peers] /\ who[1] = u /\ peer[1] = p
      /\ \A k \in 1 .. n : k = 1 /\ who[k] = u /\ peer[k] = p
  OBVIOUS
<1> HIDE DEF who, peer
<1>2. <<UpdateConversationForSender(u, p)>> = Pipes(n, who, peer, {1})
  BY <1>1 DEF Pipes
<1>3. <<UpdateConversationForReceiver(u, p)>> = Pipes(n, who, peer, {})
  BY <1>1 DEF Pipes
<1>4. \A S : PipesGood(Pipes(n, who, peer, S), n, who, peer, S)
  BY <1>1, PipesForUsers
<1> QED
  BY <1>1, <1>2, <1>3, <1>4 DEF PipesGood

\* The goroutine of a message counts it for everybody it is routed to, who are R.
Delivers(j, m, R) ==
  /\ GoodJob(j) /\ j.msg = m
  /\ \A c \in AllOf(j) : c.op = "HIncrBy" => c.user \in R /\ c.peer = Thread(c.user, m)
  /\ \A u \in R : HIncrBy(u, Thread(u, m)) \in ToDo(j) /\ ZAdd(u, Thread(u, m)) \in ToDo(j)

LEMMA GoroutineIs ==
  ASSUME NEW m \in ConvMsgs, NEW s, NEW a, GoodPipes(s), GoodPipes(a),
         \A c \in Undone(s) \cap Undone(a) : c.op # "HIncrBy"
  PROVE  LET j == Goroutine(m, s, a)
         IN /\ GoodJob(j) /\ j.msg = m /\ j.after = a
            /\ ToDo(j) = Undone(s) \cup Undone(a) /\ AllOf(j) = Undone(s) \cup Undone(a)
<1> PICK j : j = Goroutine(m, s, a)
  OBVIOUS
<1>1. s \in Seq(Seq(Cmds)) /\ a \in Seq(Seq(Cmds))
  BY Zenon DEF GoodPipes
<1>2. /\ j \in [msg : ConvMsgs, left : Seq(Seq(Cmds)), sent : Seq(Seq(Cmds)), after : Seq(Seq(Cmds))]
      /\ j.msg = m /\ j.left = s /\ j.sent = s /\ j.after = a
  BY <1>1 DEF Goroutine
<1> QED
  BY <1>2 DEF GoodJob, ToDo, AllOf

\* The goroutine of a last pipeline.
LEMMA LastGoroutine ==
  ASSUME NEW m \in ConvMsgs, NEW s, GoodPipes(s)
  PROVE  LET j == Goroutine(m, s, <<>>)
         IN /\ GoodJob(j) /\ j.msg = m /\ ToDo(j) = Undone(s) /\ AllOf(j) = Undone(s)
<1> PICK a : a = <<>>
  OBVIOUS
<1>1. GoodPipes(a) /\ Undone(a) = {}
  BY NoPipes
<1>2. \A c \in Undone(s) \cap Undone(a) : c.op # "HIncrBy"
  BY <1>1
<1>3. LET j == Goroutine(m, s, a)
      IN /\ GoodJob(j) /\ j.msg = m
         /\ ToDo(j) = Undone(s) \cup Undone(a) /\ AllOf(j) = Undone(s) \cup Undone(a)
  BY <1>1, <1>2, GoroutineIs
<1> QED
  BY <1>1, <1>3

LEMMA PeerDelivers ==
  ASSUME ConvTyped, NEW m \in ConvMsgs, ~IsGroup(m)
  PROVE  Delivers(PeerUpdate(m), m, {To(m)})
<1>1. /\ From(m) \in Users /\ To(m) \in Users /\ From(m) \in Peers /\ To(m) \in Peers
      /\ Thread(To(m), m) = From(m)
  BY PartiesAre DEF Peers, Thread
<1> PICK s : s = <<UpdateConversationForSender(From(m), To(m))>>
  OBVIOUS
<1> PICK r : r = <<UpdateConversationForReceiver(To(m), From(m))>>
  OBVIOUS
<1>2. /\ GoodPipes(s) /\ \A c \in Undone(s) : c.op # "HIncrBy"
      /\ GoodPipes(r) /\ \A c \in Undone(r) : c.op = "HIncrBy" => c.user = To(m) /\ c.peer = From(m)
      /\ ZAdd(To(m), From(m)) \in Undone(r) /\ HIncrBy(To(m), From(m)) \in Undone(r)
  BY <1>1, OneUser
<1> PICK j : j = PeerUpdate(m)
  OBVIOUS
<1>3. /\ GoodJob(j) /\ j.msg = m
      /\ ToDo(j) = Undone(s) \cup Undone(r) /\ AllOf(j) = Undone(s) \cup Undone(r)
  BY <1>2, GoroutineIs DEF PeerUpdate
<1> QED
  BY <1>1, <1>2, <1>3 DEF Delivers

LEMMA GroupDelivers ==
  ASSUME ConvTyped, NEW m \in ConvMsgs, IsGroup(m), NEW S \in SUBSET Users,
         NEW order \in Orders(S)
  PROVE  Delivers(GroupUpdate(m, order), m, S \ {From(m)})
<1> PICK from : from = From(m)
  OBVIOUS
<1> PICK g : g = To(m)
  OBVIOUS
<1> PICK left : left = [i \in DOMAIN order |->
                          IF order[i] = from THEN UpdateConversationForSender(order[i], g)
                                             ELSE UpdateConversationForReceiver(order[i], g)]
  OBVIOUS
<1> PICK n : n = Cardinality(S)
  OBVIOUS
<1>1. /\ order \in [1 .. n -> S] /\ \A k, l \in 1 .. n : order[k] = order[l] => k = l
      /\ \A u \in S : \E k \in 1 .. n : order[k] = u
  BY DEF Orders, Bijection, Injection, Surjection, IsInjective
<1>2. g \in Peers /\ \A u \in Users : Thread(u, m) = g
  BY PartiesAre DEF Thread
<1> DEFINE peer == [k \in 1 .. n |-> g]
           T == {k \in 1 .. n : order[k] = from}
<1>3. order \in [1 .. n -> Users] /\ peer \in [1 .. n -> Peers] /\ \A k \in 1 .. n : peer[k] = g
  BY <1>1, <1>2
<1> HIDE DEF peer
<1>4. left = Pipes(n, order, peer, T)
  <2>1. /\ DOMAIN left = 1 .. n /\ left = [k \in 1 .. n |-> left[k]]
        /\ \A k \in 1 .. n :
             left[k] = IF k \in T THEN UpdateConversationForSender(order[k], peer[k])
                                  ELSE UpdateConversationForReceiver(order[k], peer[k])
    BY <1>1, <1>3
  <2> QED
    BY <2>1 DEF Pipes
<1> HIDE DEF T
<1>5. PipesGood(left, n, order, peer, T)
  <2>1. n \in Nat
    BY UsersAssumption, FS_Subset, FS_CardinalityType
  <2>2. PipesGood(Pipes(n, order, peer, T), n, order, peer, T)
    BY <1>1, <1>3, <2>1, PipesForUsers
  <2> QED
    BY <1>4, <2>2
<1>6. \A c \in Undone(left) :
        c.op = "HIncrBy" => c.user \in S \ {from} /\ c.peer = Thread(c.user, m)
  BY <1>1, <1>2, <1>3, <1>5 DEF T, PipesGood
<1>7. \A u \in S \ {from} : HIncrBy(u, g) \in Undone(left) /\ ZAdd(u, g) \in Undone(left)
  BY <1>1, <1>3, <1>5 DEF T, PipesGood
<1> PICK j : j = GroupUpdate(m, order)
  OBVIOUS
<1>8. GoodJob(j) /\ j.msg = m /\ ToDo(j) = Undone(left) /\ AllOf(j) = Undone(left)
  <2>1. GoodPipes(left)
    BY <1>5 DEF PipesGood
  <2>2. j = Goroutine(m, left, <<>>)
    BY DEF GroupUpdate
  <2>3. /\ GoodJob(Goroutine(m, left, <<>>)) /\ Goroutine(m, left, <<>>).msg = m
        /\ ToDo(Goroutine(m, left, <<>>)) = Undone(left)
        /\ AllOf(Goroutine(m, left, <<>>)) = Undone(left)
    BY <2>1, LastGoroutine
  <2> QED
    BY <2>2, <2>3
<1> QED
  BY <1>2, <1>6, <1>7, <1>8 DEF Delivers

-----------------------------------------------------------------------------
(* Steps *)

\* What is not yet counted was routed, and so was what is not read; all are finite.
LEMMA UncountedRouted ==
  ASSUME JobsInv, NEW u \in Users, NEW p
  PROVE  /\ IsFiniteSet(RoutedIn(u, p)) /\ Cardinality(RoutedIn(u, p)) \in Nat
         /\ IsFiniteSet(Uncounted(u, p)) /\ Cardinality(Uncounted(u, p)) \in Nat
         /\ IsFiniteSet(FreshIn(u, p)) /\ Cardinality(FreshIn(u, p)) \in Nat
         /\ FreshIn(u, p) \subseteq RoutedIn(u, p)
<1>1. IsFiniteSet(RoutedIn(u, p))
  <2>1. RoutedIn(u, p) \subseteq {m \in ConvMsgs : routed[m] # {}}
    BY DEF RoutedIn
  <2> QED
    BY <2>1, FS_Subset DEF JobsInv
<1>2. Uncounted(u, p) \subseteq RoutedIn(u, p)
  <2> SUFFICES ASSUME NEW j \in jobs, HIncrBy(u, p) \in ToDo(j), j.msg \in ConvMsgs
               PROVE  j.msg \in RoutedIn(u, p)
    BY DEF Uncounted
  <2>1. GoodJob(j) /\ CountsRouted(j)
    BY DEF JobsInv
  <2>2. HIncrBy(u, p) \in AllOf(j)
    BY <2>1 DEF GoodJob, ToDo, AllOf
  <2>3. u \in routed[j.msg] /\ p = Thread(u, j.msg)
    BY <2>1, <2>2, CmdsAre DEF CountsRouted
  <2> QED
    BY <2>3 DEF RoutedIn
<1>3. FreshIn(u, p) \subseteq RoutedIn(u, p)
  BY DEF FreshIn, RoutedIn, JobsInv
<1> QED
  BY <1>1, <1>2, <1>3, FS_Subset, FS_CardinalityType

\* A goroutine goes on as another one of the same message, or ends.
JobTo(j, K) ==
  /\ \A k \in K : GoodJob(k) /\ k.msg = j.msg /\ AllOf(k) \subseteq AllOf(j)
  /\ \A k, l \in K : k = l
  /\ jobs' = (jobs \ {j}) \cup K
  /\ UNCHANGED handlerVars

Counts(j, K) ==
  /\ \A u, p : RoutedIn(u, p)' = RoutedIn(u, p) /\ FreshIn(u, p)' = FreshIn(u, p)
  /\ \A u, p : Uncounted(u, p)' = IF \E k \in K : HIncrBy(u, p) \in ToDo(k)
                                  THEN Uncounted(u, p) \cup {j.msg}
                                  ELSE Uncounted(u, p) \ {j.msg}
  /\ \A u, p : HIncrBy(u, p) \in ToDo(j) <=> j.msg \in Uncounted(u, p)

LEMMA JobMoves ==
  ASSUME JobsInv, NEW j \in jobs, NEW K, JobTo(j, K)
  PROVE  JobsInv' /\ Counts(j, K)
<1> USE DEF JobTo, handlerVars
<1>1. GoodJob(j) /\ CountsRouted(j) /\ at[j.msg] = "routed" /\ j.msg \in ConvMsgs
      /\ \A i \in jobs : i.msg = j.msg => i = j
  BY DEF JobsInv, GoodJob
<1>2. \A i : i \in jobs' <=> i \in K \/ (i \in jobs /\ i # j)
  OBVIOUS
<1>3. \A u, m : Thread(u, m)' = Thread(u, m)
  BY DEF Thread, IsGroup, To, From
<1>4. JobsInv'
  <2>1. ASSUME NEW i \in jobs'
        PROVE  GoodJob(i) /\ at'[i.msg] = "routed" /\ CountsRouted(i)'
    <3>1. CASE i \in K
      BY <1>1, <1>3, <3>1 DEF CountsRouted
    <3>2. CASE i \in jobs
      BY <1>3, <3>2 DEF JobsInv, CountsRouted
    <3> QED
      BY <1>2, <3>1, <3>2
  <2>2. \A i, l \in jobs' : i.msg = l.msg => i = l
    BY <1>1, <1>2 DEF JobsInv
  <2>3. /\ \A m \in ConvMsgs : at'[m] # "routed" => routed'[m] = {}
        /\ \A m \in ConvMsgs : at'[m] = "members" => IsGroup(m)'
        /\ \A u \in Users : fresh'[u] \subseteq {m \in ConvMsgs : u \in routed'[m]}
        /\ IsFiniteSet({m \in ConvMsgs : routed'[m] # {}})
    BY DEF JobsInv, IsGroup, To
  <2> QED
    BY <2>1, <2>2, <2>3 DEF JobsInv
<1>5. \A u, p : RoutedIn(u, p)' = RoutedIn(u, p) /\ FreshIn(u, p)' = FreshIn(u, p)
  BY <1>3 DEF RoutedIn, FreshIn
<1>6. \A u, p : HIncrBy(u, p) \in ToDo(j) <=> j.msg \in Uncounted(u, p)
  BY <1>1 DEF Uncounted
<1>7. ASSUME NEW u, NEW p
      PROVE  Uncounted(u, p)' = IF \E k \in K : HIncrBy(u, p) \in ToDo(k)
                                THEN Uncounted(u, p) \cup {j.msg}
                                ELSE Uncounted(u, p) \ {j.msg}
  <2>1. ASSUME NEW m \in ConvMsgs, m # j.msg
        PROVE  m \in Uncounted(u, p)' <=> m \in Uncounted(u, p)
    BY <1>2, <2>1 DEF Uncounted
  <2>2. j.msg \in Uncounted(u, p)' <=> \E k \in K : HIncrBy(u, p) \in ToDo(k)
    BY <1>1, <1>2 DEF Uncounted
  <2>3. Uncounted(u, p)' \subseteq ConvMsgs /\ Uncounted(u, p) \subseteq ConvMsgs
    BY DEF Uncounted
  <2> QED
    BY <1>1, <2>1, <2>2, <2>3
<1> QED
  BY <1>4, <1>5, <1>6, <1>7 DEF Counts

\* So what is to be counted changes by one message at most.
LEMMA CountMoves ==
  ASSUME JobsInv, NEW j, NEW K, Counts(j, K), NEW u \in Users, NEW p
  PROVE  LET a == Cardinality(Uncounted(u, p))
             b == Cardinality(Uncounted(u, p)')
             before == HIncrBy(u, p) \in ToDo(j)
             then == \E k \in K : HIncrBy(u, p) \in ToDo(k)
         IN /\ a \in Nat /\ b \in Nat
            /\ b = IF before /\ ~then THEN a - 1 ELSE IF ~before /\ then THEN a + 1 ELSE a
<1>1. IsFiniteSet(Uncounted(u, p)) /\ Cardinality(Uncounted(u, p)) \in Nat
  BY UncountedRouted
<1>2. /\ Uncounted(u, p)' = IF \E k \in K : HIncrBy(u, p) \in ToDo(k)
                            THEN Uncounted(u, p) \cup {j.msg} ELSE Uncounted(u, p) \ {j.msg}
      /\ HIncrBy(u, p) \in ToDo(j) <=> j.msg \in Uncounted(u, p)
  BY DEF Counts
<1>3. /\ IsFiniteSet(Uncounted(u, p) \cup {j.msg}) /\ IsFiniteSet(Uncounted(u, p) \ {j.msg})
      /\ Cardinality(Uncounted(u, p) \cup {j.msg}) =
           IF j.msg \in Uncounted(u, p) THEN Cardinality(Uncounted(u, p))
                                        ELSE Cardinality(Uncounted(u, p)) + 1
      /\ Cardinality(Uncounted(u, p) \ {j.msg}) =
           IF j.msg \in Uncounted(u, p) THEN Cardinality(Uncounted(u, p)) - 1
                                        ELSE Cardinality(Uncounted(u, p))
  BY <1>1, FS_AddElement, FS_RemoveElement
<1>4. Cardinality(Uncounted(u, p)') \in Nat
  BY <1>2, <1>3, FS_CardinalityType
<1> QED
  BY <1>1, <1>2, <1>3, <1>4

LEMMA CommandKeeps ==
  ASSUME ConvInv, NEW j \in jobs, Command(j)
  PROVE  ConvInv'
<1> PICK c : c = Head(Head(j.left))
  OBVIOUS
<1> PICK left : left = AfterFirst(j.left)
  OBVIOUS
<1> PICK k : k = [j EXCEPT !.left = left]
  OBVIOUS
<1>0. GoodJob(j) /\ GoodPipes(j.left) /\ j.left # <<>>
  BY DEF ConvInv, JobsInv, Command, GoodJob
<1>1. /\ c \in Undone(j.left) /\ c \in Cmds /\ GoodPipes(left)
      /\ Undone(left) = Undone(j.left) \ {c}
  BY <1>0, AfterFirstIs
<1>2. /\ conv' = CASE c.op = "HSet" -> [conv EXCEPT ![c.user][c.peer].last = j.msg]
                   [] c.op = "HIncrBy" -> [conv EXCEPT ![c.user][c.peer].unread = @ + 1]
                   [] OTHER -> conv
      /\ index' = IF c.op = "ZAdd" THEN [index EXCEPT ![c.user] = @ \cup {c.peer}] ELSE index
      /\ jobs' = (jobs \ {j}) \cup {k}
      /\ UNCHANGED <<handlerVars, breaks, lost>>
  BY DEF Command
<1>3. /\ k.msg = j.msg /\ k.left = left /\ k.sent = j.sent /\ k.after = j.after
      /\ GoodJob(k) /\ AllOf(k) = AllOf(j)
      /\ \A x : x \in ToDo(k) => x \in ToDo(j)
      /\ \A x : x \in ToDo(j) /\ x # c => x \in ToDo(k)
      /\ c \in ToDo(j) /\ (c.op = "HIncrBy" => c \notin ToDo(k))
  <2>1. left \in Seq(Seq(Cmds))
    BY <1>1, Zenon DEF GoodPipes
  <2>2. /\ k.msg = j.msg /\ k.left = left /\ k.sent = j.sent /\ k.after = j.after
        /\ k \in [msg : ConvMsgs, left : Seq(Seq(Cmds)), sent : Seq(Seq(Cmds)), after : Seq(Seq(Cmds))]
    BY <1>0, <2>1 DEF GoodJob
  <2>3. GoodJob(k)
    BY <1>0, <1>1, <2>2 DEF GoodJob
  <2>4. c.op = "HIncrBy" => c \notin Undone(j.after)
    BY <1>0, <1>1 DEF GoodJob
  <2> QED
    BY <1>1, <2>2, <2>3, <2>4 DEF ToDo, AllOf
<1>4. /\ c.op \in {"HSet", "HIncrBy", "ZAdd"} /\ c.user \in Users /\ c.peer \in Peers
      /\ \A u, p : HIncrBy(u, p) = c <=> c.op = "HIncrBy" /\ u = c.user /\ p = c.peer
      /\ \A u, p : ZAdd(u, p) = c <=> c.op = "ZAdd" /\ u = c.user /\ p = c.peer
  BY <1>1 DEF Cmds, HIncrBy, ZAdd
<1>5. JobsInv' /\ Counts(j, {k})
  <2>1. JobTo(j, {k})
    BY <1>2, <1>3 DEF JobTo
  <2> QED
    BY <2>1, JobMoves DEF ConvInv
<1> PICK x \in Users : x = c.user
  BY <1>4
<1> PICK y \in Peers : y = c.peer
  BY <1>4
<1>6. /\ conv \in [Users -> [Peers -> [last : Nat, unread : Nat]]]
      /\ j.msg \in Nat
  BY <1>0, MsgsAssumption DEF ConvInv, ConvTyped, GoodJob
<1>7. /\ conv' \in [Users -> [Peers -> [last : Nat, unread : Nat]]]
      /\ \A u \in Users, p \in Peers :
           conv'[u][p].unread = IF c.op = "HIncrBy" /\ u = x /\ p = y THEN conv[u][p].unread + 1
                                ELSE conv[u][p].unread
  <2>1. CASE c.op = "HSet"
    <3> PICK r : r = [conv[x][y] EXCEPT !.last = j.msg]
      OBVIOUS
    <3>1. r \in [last : Nat, unread : Nat] /\ r.unread = conv[x][y].unread
      <4>1. conv[x][y] \in [last : Nat, unread : Nat]
        BY <1>6
      <4> QED
        BY <1>6, <4>1
    <3>2. conv' = [conv EXCEPT ![x] = [conv[x] EXCEPT ![y] = r]]
      BY <1>2, <2>1
    <3> QED
      BY <1>6, <2>1, <3>1, <3>2
  <2>2. CASE c.op = "HIncrBy"
    <3> PICK n \in Nat : n = conv[x][y].unread + 1
      BY <1>6
    <3> PICK r : r = [conv[x][y] EXCEPT !.unread = n]
      OBVIOUS
    <3>1. r \in [last : Nat, unread : Nat] /\ r.unread = conv[x][y].unread + 1
      <4>1. conv[x][y] \in [last : Nat, unread : Nat]
        BY <1>6
      <4> QED
        BY <4>1
    <3>2. conv' = [conv EXCEPT ![x] = [conv[x] EXCEPT ![y] = r]]
      BY <1>2, <2>2
    <3> QED
      BY <1>6, <2>2, <3>1, <3>2
  <2>3. CASE c.op = "ZAdd"
    <3>1. conv' = conv
      BY <1>2, <2>3
    <3> QED
      BY <1>6, <2>3, <3>1
  <2> QED
    BY <1>4, <2>1, <2>2, <2>3
<1>8. index' \in [Users -> SUBSET Peers] /\ \A u \in Users : index[u] \subseteq index'[u]
  BY <1>2, <1>4 DEF ConvInv, ConvTyped
<1>9. ConvTyped'
  BY <1>2, <1>7, <1>8 DEF ConvInv, ConvTyped, handlerVars
<1>10. CountInv'
  <2> SUFFICES ASSUME NEW u \in Users, NEW p \in Peers
               PROVE  LET n == conv'[u][p].unread + Cardinality(Uncounted(u, p)')
                      IN /\ n <= Cardinality(RoutedIn(u, p)') + breaks'
                         /\ ~lost' => Cardinality(FreshIn(u, p)') <= n
    BY DEF CountInv
  <2>1. conv'[u][p].unread + Cardinality(Uncounted(u, p)')
          = conv[u][p].unread + Cardinality(Uncounted(u, p))
    <3> PICK a : a = Cardinality(Uncounted(u, p))
      OBVIOUS
    <3> PICK b : b = Cardinality(Uncounted(u, p)')
      OBVIOUS
    <3>1. /\ a \in Nat /\ b \in Nat
          /\ LET before == HIncrBy(u, p) \in ToDo(j)
                 then == \E i \in {k} : HIncrBy(u, p) \in ToDo(i)
             IN b = IF before /\ ~then THEN a - 1 ELSE IF ~before /\ then THEN a + 1 ELSE a
      BY <1>5, CountMoves DEF ConvInv
    <3>2. conv[u][p].unread \in Nat
      BY <1>6
    <3>3. CASE HIncrBy(u, p) = c
      <4>1. b = a - 1
        BY <1>3, <1>4, <3>1, <3>3
      <4>2. conv'[u][p].unread = conv[u][p].unread + 1
        BY <1>4, <1>7, <3>3
      <4> QED
        BY <3>1, <3>2, <4>1, <4>2
    <3>4. CASE HIncrBy(u, p) # c
      <4>1. b = a
        BY <1>3, <3>1, <3>4
      <4>2. conv'[u][p].unread = conv[u][p].unread
        BY <1>4, <1>7, <3>4
      <4> QED
        BY <4>1, <4>2
    <3> QED
      BY <3>3, <3>4
  <2>2. RoutedIn(u, p)' = RoutedIn(u, p) /\ FreshIn(u, p)' = FreshIn(u, p)
    BY <1>5 DEF Counts
  <2> QED
    BY <1>2, <2>1, <2>2 DEF ConvInv, CountInv
<1>11. IndexInv'
  <2> SUFFICES ASSUME ~lost, NEW u \in Users, NEW p \in Peers, RoutedIn(u, p) # {}
               PROVE  p \in index'[u] \/ \E i \in jobs' : ZAdd(u, p) \in ToDo(i)
    BY <1>2, <1>5 DEF IndexInv, Counts
  <2>1. p \in index[u] \/ \E i \in jobs : ZAdd(u, p) \in ToDo(i)
    BY DEF ConvInv, IndexInv
  <2>2. CASE ZAdd(u, p) = c
    BY <1>2, <1>4, <2>2 DEF ConvInv, ConvTyped
  <2>3. CASE ZAdd(u, p) # c
    <3>1. ASSUME NEW i \in jobs, ZAdd(u, p) \in ToDo(i)
          PROVE  \E l \in jobs' : ZAdd(u, p) \in ToDo(l)
      <4>1. CASE i = j
        BY <1>2, <1>3, <2>3, <3>1, <4>1
      <4>2. CASE i # j
        BY <1>2, <3>1, <4>2
      <4> QED
        BY <4>1, <4>2
    <3> QED
      BY <1>8, <2>1, <3>1
  <2> QED
    BY <2>2, <2>3
<1> QED
  BY <1>5, <1>9, <1>10, <1>11 DEF ConvInv

\* The goroutine after a pipeline, if any.
After(j) == IF j.after = <<>> THEN {} ELSE {Goroutine(j.msg, j.after, <<>>)}

LEMMA AfterIs ==
  ASSUME NEW j, GoodJob(j)
  PROVE  /\ \A k \in After(j) : GoodJob(k) /\ k.msg = j.msg /\ AllOf(k) \subseteq AllOf(j)
         /\ \A k, l \in After(j) : k = l
         /\ \A x : (\E k \in After(j) : x \in ToDo(k)) <=> x \in Undone(j.after)
<1>1. j.msg \in ConvMsgs /\ GoodPipes(j.after)
  BY DEF GoodJob
<1>2. CASE j.after = <<>>
  BY <1>2, NoPipes DEF After
<1>3. CASE j.after # <<>>
  <2> PICK k : k = Goroutine(j.msg, j.after, <<>>)
    OBVIOUS
  <2>1. GoodJob(k) /\ k.msg = j.msg /\ ToDo(k) = Undone(j.after) /\ AllOf(k) = Undone(j.after)
    BY <1>1, LastGoroutine
  <2>2. After(j) = {k}
    BY <1>3 DEF After
  <2> QED
    BY <2>1, <2>2 DEF AllOf
<1> QED
  BY <1>2, <1>3

\* With all answers in nothing is left undone.
LEMMA ReplyKeeps ==
  ASSUME ConvInv, NEW j \in jobs, Reply(j)
  PROVE  ConvInv'
<1>1. /\ j.left = <<>> /\ jobs' = (jobs \ {j}) \cup After(j)
      /\ UNCHANGED <<handlerVars, redisVars, breaks, lost>>
  BY DEF Reply, Returns, After
<1>2. GoodJob(j) /\ ToDo(j) = Undone(j.after)
  <2>1. Undone(j.left) = {}
    BY <1>1, NoPipes
  <2> QED
    BY <2>1 DEF ToDo, ConvInv, JobsInv
<1>3. JobsInv' /\ Counts(j, After(j))
  <2>1. JobTo(j, After(j))
    BY <1>1, <1>2, AfterIs DEF JobTo
  <2> QED
    BY <2>1, JobMoves DEF ConvInv
<1>4. ConvTyped'
  BY <1>1 DEF ConvInv, ConvTyped, handlerVars, redisVars
<1>5. CountInv'
  <2> SUFFICES ASSUME NEW u \in Users, NEW p \in Peers
               PROVE  Cardinality(Uncounted(u, p)') = Cardinality(Uncounted(u, p))
    BY <1>1, <1>3 DEF CountInv, ConvInv, Counts, redisVars
  <2>1. HIncrBy(u, p) \in ToDo(j) <=> \E k \in After(j) : HIncrBy(u, p) \in ToDo(k)
    BY <1>2, AfterIs
  <2> QED
    BY <1>3, <2>1, CountMoves DEF ConvInv
<1>6. IndexInv'
  <2> SUFFICES ASSUME ~lost, NEW u \in Users, NEW p \in Peers, RoutedIn(u, p) # {}
               PROVE  p \in index[u] \/ \E i \in jobs' : ZAdd(u, p) \in ToDo(i)
    BY <1>1, <1>3 DEF IndexInv, Counts, redisVars
  <2>1. p \in index[u] \/ \E i \in jobs : ZAdd(u, p) \in ToDo(i)
    BY DEF ConvInv, IndexInv
  <2>2. ZAdd(u, p) \in ToDo(j) => \E i \in After(j) : ZAdd(u, p) \in ToDo(i)
    BY <1>2, AfterIs
  <2> QED
    BY <1>1, <2>1, <2>2
<1> QED
  BY <1>3, <1>4, <1>5, <1>6 DEF ConvInv

\* A pipeline that is sent again may count its message once more.
LEMMA ResendKeeps ==
  ASSUME ConvInv, NEW j \in jobs, Resend(j)
  PROVE  ConvInv'
<1> PICK k : k = [j EXCEPT !.left = j.sent]
  OBVIOUS
<1>1. /\ jobs' = (jobs \ {j}) \cup {k} /\ breaks' = breaks + 1
      /\ UNCHANGED <<handlerVars, redisVars, lost>>
  BY DEF Resend, Break
<1>2. /\ GoodJob(k) /\ k.msg = j.msg /\ AllOf(k) = AllOf(j) /\ ToDo(j) \subseteq ToDo(k)
  <2>1. GoodJob(j)
    BY DEF ConvInv, JobsInv
  <2>2. /\ k.msg = j.msg /\ k.left = j.sent /\ k.sent = j.sent /\ k.after = j.after
        /\ k \in [msg : ConvMsgs, left : Seq(Seq(Cmds)), sent : Seq(Seq(Cmds)), after : Seq(Seq(Cmds))]
    BY <2>1 DEF GoodJob
  <2> QED
    BY <2>1, <2>2 DEF GoodJob, AllOf, ToDo
<1>3. JobsInv' /\ Counts(j, {k})
  <2>1. JobTo(j, {k})
    BY <1>1, <1>2 DEF JobTo
  <2> QED
    BY <2>1, JobMoves DEF ConvInv
<1>4. ConvTyped'
  BY <1>1 DEF ConvInv, ConvTyped, handlerVars, redisVars
<1>5. CountInv'
  <2> SUFFICES ASSUME NEW u \in Users, NEW p \in Peers
               PROVE  LET n == conv[u][p].unread + Cardinality(Uncounted(u, p)')
                      IN /\ n <= Cardinality(RoutedIn(u, p)) + (breaks + 1)
                         /\ ~lost => Cardinality(FreshIn(u, p)) <= n
    BY <1>1, <1>3 DEF CountInv, Counts, redisVars
  <2> PICK a : a = Cardinality(Uncounted(u, p))
    OBVIOUS
  <2> PICK b : b = Cardinality(Uncounted(u, p)')
    OBVIOUS
  <2>1. /\ a \in Nat /\ b \in Nat
        /\ LET before == HIncrBy(u, p) \in ToDo(j)
               then == \E i \in {k} : HIncrBy(u, p) \in ToDo(i)
           IN b = IF before /\ ~then THEN a - 1 ELSE IF ~before /\ then THEN a + 1 ELSE a
    BY <1>3, CountMoves DEF ConvInv
  <2>2. a <= b /\ b <= a + 1
    BY <1>2, <2>1
  <2>3. /\ conv[u][p].unread \in Nat /\ Cardinality(RoutedIn(u, p)) \in Nat /\ breaks \in Nat
        /\ Cardinality(FreshIn(u, p)) \in Nat
        /\ conv[u][p].unread + a <= Cardinality(RoutedIn(u, p)) + breaks
        /\ ~lost => Cardinality(FreshIn(u, p)) <= conv[u][p].unread + a
    BY UncountedRouted DEF ConvInv, ConvTyped, CountInv
  <2> QED
    BY <2>1, <2>2, <2>3
<1>6. IndexInv'
  <2> SUFFICES ASSUME ~lost, NEW u \in Users, NEW p \in Peers, RoutedIn(u, p) # {}
               PROVE  p \in index[u] \/ \E i \in jobs' : ZAdd(u, p) \in ToDo(i)
    BY <1>1, <1>3 DEF IndexInv, Counts, redisVars
  <2>1. p \in index[u] \/ \E i \in jobs : ZAdd(u, p) \in ToDo(i)
    BY DEF ConvInv, IndexInv
  <2> QED
    BY <1>1, <1>2, <2>1
<1> QED
  BY <1>3, <1>4, <1>5, <1>6 DEF ConvInv

\* What a pipeline that is given up leaves undone is never counted.
LEMMA GiveUpKeeps ==
  ASSUME ConvInv, NEW j \in jobs, GiveUp(j)
  PROVE  ConvInv'
<1>1. /\ jobs' = (jobs \ {j}) \cup After(j) /\ breaks' = breaks + 1 /\ lost' = TRUE
      /\ UNCHANGED <<handlerVars, redisVars>>
  BY DEF GiveUp, Break, Returns, After
<1>2. GoodJob(j) /\ Undone(j.after) \subseteq ToDo(j)
  BY DEF ToDo, ConvInv, JobsInv
<1>3. JobsInv' /\ Counts(j, After(j))
  <2>1. JobTo(j, After(j))
    BY <1>1, <1>2, AfterIs DEF JobTo
  <2> QED
    BY <2>1, JobMoves DEF ConvInv
<1>4. ConvTyped' /\ IndexInv'
  BY <1>1 DEF ConvInv, ConvTyped, IndexInv, handlerVars, redisVars
<1>5. CountInv'
  <2> SUFFICES ASSUME NEW u \in Users, NEW p \in Peers
               PROVE  conv[u][p].unread + Cardinality(Uncounted(u, p)')
                        <= Cardinality(RoutedIn(u, p)) + (breaks + 1)
    BY <1>1, <1>3 DEF CountInv, Counts, redisVars
  <2> PICK a : a = Cardinality(Uncounted(u, p))
    OBVIOUS
  <2> PICK b : b = Cardinality(Uncounted(u, p)')
    OBVIOUS
  <2>1. /\ a \in Nat /\ b \in Nat
        /\ LET before == HIncrBy(u, p) \in ToDo(j)
               then == \E i \in After(j) : HIncrBy(u, p) \in ToDo(i)
           IN b = IF before /\ ~then THEN a - 1 ELSE IF ~before /\ then THEN a + 1 ELSE a
    BY <1>3, CountMoves DEF ConvInv
  <2>2. b <= a
    BY <1>2, <2>1, AfterIs
  <2>3. /\ conv[u][p].unread \in Nat /\ Cardinality(RoutedIn(u, p)) \in Nat /\ breaks \in Nat
        /\ conv[u][p].unread + a <= Cardinality(RoutedIn(u, p)) + breaks
    BY UncountedRouted DEF ConvInv, ConvTyped, CountInv
  <2> QED
    BY <2>1, <2>2, <2>3
<1> QED
  BY <1>3, <1>4, <1>5 DEF ConvInv

\* A message is routed to the users R, and its goroutine starts.
RoutedTo(m, job, R) ==
  /\ at[m] \in {"acked", "members"}
  /\ R \subseteq Users /\ Delivers(job, m, R)
  /\ RouteTo(m, R)
  /\ jobs' = jobs \cup {job}
  /\ UNCHANGED <<script, members, found, redisVars, breaks, lost>>

LEMMA RoutingKeeps ==
  ASSUME ConvInv, NEW m \in ConvMsgs, NEW job, NEW R, RoutedTo(m, job, R)
  PROVE  ConvInv'
<1>1. /\ at[m] # "routed" /\ at' = [at EXCEPT ![m] = "routed"]
      /\ R \subseteq Users /\ Delivers(job, m, R)
      /\ routed' = [routed EXCEPT ![m] = R]
      /\ fresh' = [u \in Users |-> IF u \in R THEN fresh[u] \cup {m} ELSE fresh[u]]
      /\ synced' = synced \cup {m}
      /\ jobs' = jobs \cup {job}
      /\ UNCHANGED <<script, members, found, conv, index, breaks, lost>>
  BY DEF RoutedTo, RouteTo, Moves, SyncToSenderOtherDevices, redisVars
<1>2. \A u, x : Thread(u, x)' = Thread(u, x)
  BY <1>1 DEF Thread, IsGroup, To, From
<1>3. /\ routed[m] = {} /\ \A j \in jobs : j.msg # m /\ j.msg \in ConvMsgs
      /\ at \in [ConvMsgs -> {"queued", "acked", "members", "routed", "failed"}]
      /\ routed \in [ConvMsgs -> SUBSET Users]
      /\ \A u \in Users : m \notin fresh[u]
  <2>1. ASSUME NEW j \in jobs PROVE j.msg # m /\ j.msg \in ConvMsgs
    BY <1>1 DEF ConvInv, JobsInv, GoodJob
  <2>2. routed[m] = {}
    BY <1>1 DEF ConvInv, JobsInv
  <2> QED
    BY <2>1, <2>2 DEF ConvInv, ConvTyped, JobsInv
<1>4. GoodJob(job) /\ job.msg = m
  BY <1>1 DEF Delivers
<1>5. ConvTyped'
  BY <1>1, <1>3 DEF ConvInv, ConvTyped
<1>6. /\ at'[m] = "routed" /\ routed'[m] = R
      /\ \A x \in ConvMsgs : x # m => at'[x] = at[x] /\ routed'[x] = routed[x]
  BY <1>1, <1>3
<1>7. JobsInv'
  <2>1. ASSUME NEW i \in jobs'
        PROVE  GoodJob(i) /\ at'[i.msg] = "routed" /\ CountsRouted(i)'
    <3>1. CASE i = job
      <4>1. \A c \in AllOf(job) : c.op = "HIncrBy" => c.user \in R /\ c.peer = Thread(c.user, m)
        BY <1>1 DEF Delivers
      <4> QED
        BY <1>2, <1>4, <1>6, <3>1, <4>1 DEF CountsRouted
    <3>2. CASE i \in jobs
      <4>1. i.msg # m /\ i.msg \in ConvMsgs
        BY <1>3, <3>2
      <4>2. GoodJob(i) /\ at[i.msg] = "routed" /\ CountsRouted(i)
        BY <3>2 DEF ConvInv, JobsInv
      <4> QED
        BY <1>2, <1>6, <4>1, <4>2 DEF CountsRouted
    <3> QED
      BY <1>1, <3>1, <3>2
  <2>2. \A i, l \in jobs' : i.msg = l.msg => i = l
    BY <1>1, <1>3, <1>4 DEF ConvInv, JobsInv
  <2>3. \A x \in ConvMsgs : at'[x] # "routed" => routed'[x] = {}
    BY <1>6 DEF ConvInv, JobsInv
  <2>4. IsFiniteSet({x \in ConvMsgs : routed'[x] # {}})
    <3>1. IsFiniteSet({x \in ConvMsgs : routed[x] # {}} \cup {m})
      BY FS_AddElement DEF ConvInv, JobsInv
    <3>2. {x \in ConvMsgs : routed'[x] # {}} \subseteq {x \in ConvMsgs : routed[x] # {}} \cup {m}
      BY <1>6
    <3> QED
      BY <3>1, <3>2, FS_Subset
  <2>5. \A x \in ConvMsgs : at'[x] = "members" => IsGroup(x)'
    BY <1>1, <1>6 DEF ConvInv, JobsInv, IsGroup, To
  <2>6. ASSUME NEW u \in Users, NEW x \in fresh'[u]
        PROVE  x \in ConvMsgs /\ u \in routed'[x]
    <3>1. CASE x = m
      BY <1>1, <1>3, <1>6, <2>6, <3>1
    <3>2. CASE x # m
      <4>1. x \in fresh[u]
        BY <1>1, <2>6, <3>2
      <4> QED
        BY <1>6, <3>2, <4>1 DEF ConvInv, JobsInv
    <3> QED
      BY <3>1, <3>2
  <2> QED
    BY <2>1, <2>2, <2>3, <2>4, <2>5, <2>6 DEF JobsInv
<1>8. ASSUME NEW u \in Users, NEW p \in Peers
      PROVE  LET here == u \in R /\ p = Thread(u, m)
             IN /\ RoutedIn(u, p)' = IF here THEN RoutedIn(u, p) \cup {m} ELSE RoutedIn(u, p)
                /\ Uncounted(u, p)' = IF here THEN Uncounted(u, p) \cup {m} ELSE Uncounted(u, p)
                /\ FreshIn(u, p)' = IF here THEN FreshIn(u, p) \cup {m} ELSE FreshIn(u, p)
                /\ m \notin RoutedIn(u, p) /\ m \notin Uncounted(u, p) /\ m \notin FreshIn(u, p)
  <2>1. /\ \A x \in ConvMsgs : x # m => (x \in RoutedIn(u, p)' <=> x \in RoutedIn(u, p))
        /\ m \in RoutedIn(u, p)' <=> u \in R /\ p = Thread(u, m)
        /\ m \notin RoutedIn(u, p)
        /\ RoutedIn(u, p) \subseteq ConvMsgs /\ RoutedIn(u, p)' \subseteq ConvMsgs
    BY <1>2, <1>3, <1>6 DEF RoutedIn
  <2>2. HIncrBy(u, p) \in ToDo(job) <=> u \in R /\ p = Thread(u, m)
    <3>1. ToDo(job) \subseteq AllOf(job)
      BY <1>4 DEF GoodJob, ToDo, AllOf
    <3> QED
      BY <1>1, <3>1, CmdsAre DEF Delivers
  <2>3. /\ \A x \in ConvMsgs : x # m => (x \in Uncounted(u, p)' <=> x \in Uncounted(u, p))
        /\ m \in Uncounted(u, p)' <=> HIncrBy(u, p) \in ToDo(job)
        /\ m \notin Uncounted(u, p)
        /\ Uncounted(u, p) \subseteq ConvMsgs /\ Uncounted(u, p)' \subseteq ConvMsgs
    BY <1>1, <1>3, <1>4 DEF Uncounted
  <2>4. /\ FreshIn(u, p)' = {x \in fresh'[u] : Thread(u, x) = p}
        /\ FreshIn(u, p) = {x \in fresh[u] : Thread(u, x) = p}
        /\ fresh'[u] = IF u \in R THEN fresh[u] \cup {m} ELSE fresh[u]
    BY <1>1, <1>2 DEF FreshIn
  <2>5. m \notin FreshIn(u, p)
    BY <1>3, <2>4
  <2>6. FreshIn(u, p)' = IF u \in R /\ p = Thread(u, m) THEN FreshIn(u, p) \cup {m} ELSE FreshIn(u, p)
    BY <2>4
  <2>7. RoutedIn(u, p)' = IF u \in R /\ p = Thread(u, m) THEN RoutedIn(u, p) \cup {m}
                                                       ELSE RoutedIn(u, p)
    BY <2>1
  <2>8. Uncounted(u, p)' = IF u \in R /\ p = Thread(u, m) THEN Uncounted(u, p) \cup {m}
                                                        ELSE Uncounted(u, p)
    BY <2>2, <2>3
  <2> QED
    BY <2>1, <2>3, <2>5, <2>6, <2>7, <2>8
<1>9. CountInv'
  <2> SUFFICES ASSUME NEW u \in Users, NEW p \in Peers
               PROVE  LET n == conv[u][p].unread + Cardinality(Uncounted(u, p)')
                      IN /\ n <= Cardinality(RoutedIn(u, p)') + breaks
                         /\ ~lost => Cardinality(FreshIn(u, p)') <= n
    BY <1>1 DEF CountInv
  <2>1. /\ IsFiniteSet(Uncounted(u, p)) /\ Cardinality(Uncounted(u, p)) \in Nat
        /\ IsFiniteSet(RoutedIn(u, p)) /\ Cardinality(RoutedIn(u, p)) \in Nat
        /\ IsFiniteSet(FreshIn(u, p)) /\ Cardinality(FreshIn(u, p)) \in Nat
        /\ conv[u][p].unread \in Nat /\ breaks \in Nat
    BY UncountedRouted DEF ConvInv, ConvTyped
  <2>2. LET n == conv[u][p].unread + Cardinality(Uncounted(u, p))
        IN /\ n <= Cardinality(RoutedIn(u, p)) + breaks
           /\ ~lost => Cardinality(FreshIn(u, p)) <= n
    BY DEF ConvInv, CountInv
  <2>3. CASE u \in R /\ p = Thread(u, m)
    <3>1. /\ Cardinality(Uncounted(u, p)') = Cardinality(Uncounted(u, p)) + 1
          /\ Cardinality(RoutedIn(u, p)') = Cardinality(RoutedIn(u, p)) + 1
          /\ Cardinality(FreshIn(u, p)') = Cardinality(FreshIn(u, p)) + 1
      BY <1>8, <2>1, <2>3, FS_AddElement
    <3> QED
      BY <2>1, <2>2, <3>1
  <2>4. CASE ~(u \in R /\ p = Thread(u, m))
    BY <1>8, <2>2, <2>4
  <2> QED
    BY <2>3, <2>4
<1>10. IndexInv'
  <2> SUFFICES ASSUME ~lost, NEW u \in Users, NEW p \in Peers, RoutedIn(u, p)' # {}
               PROVE  p \in index[u] \/ \E i \in jobs' : ZAdd(u, p) \in ToDo(i)
    BY <1>1 DEF IndexInv
  <2>1. CASE u \in R /\ p = Thread(u, m)
    <3>1. ZAdd(u, p) \in ToDo(job)
      BY <1>1, <2>1 DEF Delivers
    <3> QED
      BY <1>1, <3>1
  <2>2. CASE ~(u \in R /\ p = Thread(u, m))
    BY <1>1, <1>8, <2>2 DEF ConvInv, IndexInv
  <2> QED
    BY <2>1, <2>2
<1> QED
  BY <1>5, <1>7, <1>9, <1>10 DEF ConvInv

LEMMA RouteKeeps ==
  ASSUME ConvInv, NEW m \in ConvMsgs, RoutePeer(m) \/ RouteGroup(m)
  PROVE  ConvInv'
<1>1. CASE RoutePeer(m)
  <2>1. Delivers(PeerUpdate(m), m, {To(m)}) /\ {To(m)} \subseteq Users
    BY <1>1, PeerDelivers, PartiesAre DEF RoutePeer, ConvInv
  <2>2. RoutedTo(m, PeerUpdate(m), {To(m)})
    BY <1>1, <2>1 DEF RoutePeer, RoutedTo
  <2> QED
    BY <2>2, RoutingKeeps
<1>2. CASE RouteGroup(m)
  <2>1. PICK order \in Orders(found[m]) : jobs' = jobs \cup {GroupUpdate(m, order)}
    BY <1>2 DEF RouteGroup
  <2>2. IsGroup(m) /\ found[m] \in SUBSET Users
    BY <1>2 DEF RouteGroup, ConvInv, ConvTyped, JobsInv
  <2>3. Delivers(GroupUpdate(m, order), m, found[m] \ {From(m)})
    BY <2>2, GroupDelivers DEF ConvInv
  <2>4. RoutedTo(m, GroupUpdate(m, order), found[m] \ {From(m)})
    BY <1>2, <2>1, <2>2, <2>3 DEF RouteGroup, RoutedTo
  <2> QED
    BY <2>4, RoutingKeeps
<1> QED
  BY <1>1, <1>2

\* The other steps of a handler.
LEMMA HandlingKeeps ==
  ASSUME ConvInv, NEW m \in ConvMsgs,
         Accept(m) \/ GetGroupMembers(m) \/ GetGroupMembersFails(m)
  PROVE  ConvInv'
<1>1. /\ UNCHANGED <<script, members, routed, fresh, synced, jobs, conv, index, breaks, lost>>
      /\ found' \in [ConvMsgs -> SUBSET Users]
  <2>1. members \in [Groups -> SUBSET Users] /\ (IsGroup(m) => To(m) \in Groups)
    BY DEF ConvInv, ConvTyped, IsGroup
  <2> QED
    BY <2>1 DEF Accept, GetGroupMembers, GetGroupMembersFails, ConvInv, ConvTyped, redisVars
<1>2. PICK to \in {"acked", "members", "failed"} :
        /\ at' = [at EXCEPT ![m] = to] /\ at[m] # "routed"
        /\ to = "members" => IsGroup(m)
  <2>1. CASE Accept(m)
    BY <2>1 DEF Accept, Moves
  <2>2. CASE GetGroupMembers(m)
    BY <2>2 DEF GetGroupMembers, Moves
  <2>3. CASE GetGroupMembersFails(m)
    BY <2>3 DEF GetGroupMembersFails, Moves
  <2> QED
    BY <2>1, <2>2, <2>3
<1>3. \A u, x : Thread(u, x)' = Thread(u, x)
  BY <1>1 DEF Thread, IsGroup, To, From
<1>4. \A x \in ConvMsgs : at'[x] = IF x = m THEN to ELSE at[x]
  BY <1>2 DEF ConvInv, ConvTyped
<1>5. ConvTyped'
  BY <1>1, <1>2 DEF ConvInv, ConvTyped
<1>6. JobsInv'
  <2>1. ASSUME NEW j \in jobs
        PROVE  GoodJob(j) /\ at'[j.msg] = "routed" /\ CountsRouted(j)'
    <3>1. j.msg \in ConvMsgs /\ at[j.msg] = "routed" /\ GoodJob(j) /\ CountsRouted(j)
      BY DEF ConvInv, JobsInv, GoodJob
    <3> QED
      BY <1>1, <1>2, <1>3, <1>4, <3>1 DEF CountsRouted
  <2>2. \A x \in ConvMsgs : at'[x] # "routed" => routed'[x] = {}
    BY <1>1, <1>2, <1>4 DEF ConvInv, JobsInv
  <2>3. \A x \in ConvMsgs : at'[x] = "members" => IsGroup(x)'
    BY <1>1, <1>2, <1>4 DEF ConvInv, JobsInv, IsGroup, To
  <2>4. /\ \A j, k \in jobs' : j.msg = k.msg => j = k
        /\ \A u \in Users : fresh'[u] \subseteq {x \in ConvMsgs : u \in routed'[x]}
        /\ IsFiniteSet({x \in ConvMsgs : routed'[x] # {}})
    BY <1>1 DEF ConvInv, JobsInv
  <2> QED
    BY <1>1, <2>1, <2>2, <2>3, <2>4 DEF JobsInv
<1>7. \A u, p : /\ RoutedIn(u, p)' = RoutedIn(u, p) /\ Uncounted(u, p)' = Uncounted(u, p)
                /\ FreshIn(u, p)' = FreshIn(u, p)
  BY <1>1, <1>3 DEF RoutedIn, Uncounted, FreshIn
<1>8. CountInv' /\ IndexInv'
  BY <1>1, <1>7 DEF ConvInv, CountInv, IndexInv
<1> QED
  BY <1>5, <1>6, <1>8 DEF ConvInv

\* Readers and members.
LEMMA MarkReadKeeps ==
  ASSUME ConvInv, NEW x \in Users, NEW y \in Peers, MarkRead(x, y)
  PROVE  ConvInv'
<1>1. /\ conv' = [conv EXCEPT ![x][y].unread = 0]
      /\ fresh' = [fresh EXCEPT ![x] = {m \in @ : Thread(x, m) # y}]
      /\ UNCHANGED <<script, at, members, found, routed, synced, jobs, index, breaks, lost>>
  BY DEF MarkRead
<1>2. /\ conv' \in [Users -> [Peers -> [last : Nat, unread : Nat]]]
      /\ \A u \in Users, p \in Peers :
           conv'[u][p].unread = IF u = x /\ p = y THEN 0 ELSE conv[u][p].unread
  <2>1. conv \in [Users -> [Peers -> [last : Nat, unread : Nat]]]
    BY DEF ConvInv, ConvTyped
  <2> PICK q : q = conv[x][y]
    OBVIOUS
  <2> PICK r : r = [q EXCEPT !.unread = 0]
    OBVIOUS
  <2>2. q \in [last : Nat, unread : Nat]
    BY <2>1
  <2>3. r \in [last : Nat, unread : Nat] /\ r.unread = 0
    BY <2>2
  <2>4. conv' = [conv EXCEPT ![x] = [conv[x] EXCEPT ![y] = r]]
    BY <1>1
  <2> QED
    BY <2>1, <2>3, <2>4
<1>3. /\ fresh' \in [Users -> SUBSET ConvMsgs]
      /\ \A u \in Users : fresh'[u] = IF u = x THEN {m \in fresh[u] : Thread(u, m) # y} ELSE fresh[u]
  BY <1>1 DEF ConvInv, ConvTyped
<1>4. ConvTyped'
  BY <1>1, <1>2, <1>3 DEF ConvInv, ConvTyped
<1>5. \A u, m : Thread(u, m)' = Thread(u, m)
  BY <1>1 DEF Thread, IsGroup, To, From
<1>6. JobsInv'
  <2>1. \A j \in jobs' : GoodJob(j) /\ at'[j.msg] = "routed" /\ CountsRouted(j)'
    BY <1>1, <1>5 DEF ConvInv, JobsInv, CountsRouted
  <2>2. \A u \in Users : fresh'[u] \subseteq {m \in ConvMsgs : u \in routed'[m]}
    BY <1>1, <1>3 DEF ConvInv, JobsInv
  <2> QED
    BY <1>1, <2>1, <2>2 DEF ConvInv, JobsInv, IsGroup, To
<1>7. \A u, p : RoutedIn(u, p)' = RoutedIn(u, p) /\ Uncounted(u, p)' = Uncounted(u, p)
  BY <1>1, <1>5 DEF RoutedIn, Uncounted
<1>8. CountInv'
  <2> SUFFICES ASSUME NEW u \in Users, NEW p \in Peers
               PROVE  LET n == conv'[u][p].unread + Cardinality(Uncounted(u, p))
                      IN /\ n <= Cardinality(RoutedIn(u, p)) + breaks
                         /\ ~lost => Cardinality(FreshIn(u, p)') <= n
    BY <1>1, <1>7 DEF CountInv
  <2>1. /\ Cardinality(Uncounted(u, p)) \in Nat /\ Cardinality(RoutedIn(u, p)) \in Nat
        /\ conv[u][p].unread \in Nat /\ breaks \in Nat
    BY UncountedRouted DEF ConvInv, ConvTyped
  <2>2. LET n == conv[u][p].unread + Cardinality(Uncounted(u, p))
        IN /\ n <= Cardinality(RoutedIn(u, p)) + breaks
           /\ ~lost => Cardinality(FreshIn(u, p)) <= n
    BY DEF ConvInv, CountInv
  <2>3. CASE u = x /\ p = y
    <3>1. FreshIn(u, p)' = {}
      BY <1>3, <1>5, <2>3 DEF FreshIn
    <3>2. Cardinality(FreshIn(u, p)') = 0
      BY <3>1, FS_EmptySet
    <3> QED
      BY <1>2, <2>1, <2>2, <2>3, <3>2
  <2>4. CASE ~(u = x /\ p = y)
    <3>1. FreshIn(u, p)' = FreshIn(u, p)
      BY <1>3, <1>5, <2>4 DEF FreshIn
    <3> QED
      BY <1>2, <2>2, <2>4, <3>1
  <2> QED
    BY <2>3, <2>4
<1>9. IndexInv'
  BY <1>1, <1>7 DEF ConvInv, IndexInv
<1> QED
  BY <1>4, <1>6, <1>8, <1>9 DEF ConvInv

LEMMA ConvUnchanged ==
  ASSUME ConvInv, members' \in [Groups -> SUBSET Users],
         UNCHANGED <<script, at, found, routed, fresh, synced, jobs, conv, index, breaks, lost>>
  PROVE  ConvInv'
<1>1. ConvTyped'
  BY DEF ConvInv, ConvTyped
<1>2. \A u, m : Thread(u, m)' = Thread(u, m)
  BY DEF Thread, IsGroup, To, From
<1>3. JobsInv'
  <2>1. \A j \in jobs' : GoodJob(j) /\ at'[j.msg] = "routed" /\ CountsRouted(j)'
    BY <1>2 DEF ConvInv, JobsInv, CountsRouted
  <2> QED
    BY <2>1 DEF ConvInv, JobsInv, IsGroup, To
<1>4. \A u, p : /\ RoutedIn(u, p)' = RoutedIn(u, p) /\ Uncounted(u, p)' = Uncounted(u, p)
                /\ FreshIn(u, p)' = FreshIn(u, p)
  BY <1>2 DEF RoutedIn, Uncounted, FreshIn
<1>5. CountInv' /\ IndexInv'
  BY <1>4 DEF ConvInv, CountInv, IndexInv
<1> QED
  BY <1>1, <1>3, <1>5 DEF ConvInv

LEMMA ConvInvStep == ConvInv /\ [ConvNext]_convVars => ConvInv'
<1> SUFFICES ASSUME ConvInv, [ConvNext]_convVars PROVE ConvInv'
  OBVIOUS
<1>1. ASSUME NEW m \in ConvMsgs, Handler(m) PROVE ConvInv'
  BY <1>1, RouteKeeps, HandlingKeeps DEF Handler
<1>2. ASSUME NEW j \in jobs, Job(j) \/ Resend(j) \/ GiveUp(j) PROVE ConvInv'
  BY <1>2, CommandKeeps, ReplyKeeps, ResendKeeps, GiveUpKeeps DEF Job
<1>3. ASSUME NEW u \in Users, NEW p \in Peers, MarkRead(u, p) PROVE ConvInv'
  BY <1>3, MarkReadKeeps
<1>4. ASSUME NEW u \in Users, NEW g \in Groups, LeaveGroup(u, g) PROVE ConvInv'
  <2>1. members' \in [Groups -> SUBSET Users]
    BY <1>4 DEF LeaveGroup, ConvInv, ConvTyped
  <2> QED
    BY <1>4, <2>1, ConvUnchanged DEF LeaveGroup, redisVars
<1>5. CASE UNCHANGED convVars
  BY <1>5, ConvUnchanged DEF convVars, handlerVars, redisVars, ConvInv, ConvTyped
<1> QED
  BY <1>1, <1>2, <1>3, <1>4, <1>5 DEF ConvNext

LEMMA ConvInvInit == ConvInit => ConvInv
<1> SUFFICES ASSUME ConvInit PROVE ConvInv
  OBVIOUS
<1>1. ConvTyped
  BY DEF ConvInit, ConvTyped
<1>2. /\ \A m \in ConvMsgs : routed[m] = {} /\ at[m] = "queued"
      /\ jobs = {} /\ \A u \in Users : fresh[u] = {} /\ \A p \in Peers : conv[u][p].unread = 0
      /\ breaks = 0
  BY DEF ConvInit
<1>3. {m \in ConvMsgs : routed[m] # {}} = {}
  BY <1>2
<1>4. JobsInv
  BY <1>2, <1>3, FS_EmptySet DEF JobsInv
<1>5. \A u \in Users, p \in Peers : RoutedIn(u, p) = {} /\ Uncounted(u, p) = {} /\ FreshIn(u, p) = {}
  BY <1>2 DEF RoutedIn, Uncounted, FreshIn
<1>6. CountInv
  <2>1. \A u \in Users, p \in Peers :
          /\ conv[u][p].unread = 0 /\ Cardinality(FreshIn(u, p)) = 0
          /\ Cardinality(Uncounted(u, p)) = 0 /\ Cardinality(RoutedIn(u, p)) = 0
    BY <1>2, <1>5, FS_EmptySet
  <2> QED
    BY <1>2, <2>1 DEF CountInv
<1>7. IndexInv
  BY <1>5 DEF IndexInv
<1> QED
  BY <1>1, <1>4, <1>6, <1>7 DEF ConvInv

LEMMA ConvInvTypes == ConvInv => ConvTypeOK
  BY DEF ConvInv, ConvTyped, ConvTypeOK

\* A set no larger than n fits below n.
LEMMA FitsIn ==
  ASSUME NEW S, IsFiniteSet(S), NEW n \in Nat, Cardinality(S) <= n
  PROVE  \E f : f \in Injection(S, 1 .. n)
<1>1. ExistsBijection(S, 1 .. Cardinality(S)) /\ Cardinality(S) \in Nat
  BY FS_CardinalityType, Fun_ExistsBijSymmetric
<1>2. PICK f : f \in Bijection(S, 1 .. Cardinality(S))
  BY <1>1 DEF ExistsBijection
<1>3. f \in [S -> 1 .. n]
  BY <1>1, <1>2 DEF Bijection, Injection
<1> QED
  BY <1>2, <1>3 DEF Bijection, Injection

\* The total stands for a finite set, in which every fresh message has its place.
LEMMA ConvInvUnread == ConvInv => UnreadIsRouted
<1> SUFFICES ASSUME ConvInv PROVE UnreadIsRouted
  OBVIOUS
<1>1. ASSUME NEW u \in Users, NEW p \in Peers
      PROVE  conv[u][p].unread <= Cardinality(RoutedIn(u, p)) + breaks
  <2>1. /\ conv[u][p].unread \in Nat /\ breaks \in Nat
        /\ Cardinality(Uncounted(u, p)) \in Nat /\ Cardinality(RoutedIn(u, p)) \in Nat
        /\ conv[u][p].unread + Cardinality(Uncounted(u, p)) <= Cardinality(RoutedIn(u, p)) + breaks
    BY UncountedRouted DEF ConvInv, ConvTyped, CountInv
  <2> QED
    BY <2>1
<1>2. ASSUME jobs = {}, ~lost, NEW u \in Users
      PROVE  GetTotalUnreadCount(u) >= Cardinality(fresh[u])
  <2> DEFINE cell(p) == {p} \X (1 .. conv[u][p].unread)
             X == UNION {cell(p) : p \in index[u]}
  <2>1. index[u] \subseteq Peers /\ fresh[u] \subseteq ConvMsgs
    BY DEF ConvInv, ConvTyped
  <2>2. \A p \in Peers : conv[u][p].unread \in Nat
    BY DEF ConvInv, ConvTyped
  <2>3. IsFiniteSet(X)
    <3>1. IsFiniteSet(index[u])
      BY <2>1, UsersAssumption, FS_Union, FS_Subset DEF Peers
    <3> DEFINE f == [p \in index[u] |-> cell(p)]
    <3>2. f \in Surjection(index[u], {cell(p) : p \in index[u]})
      BY DEF Surjection
    <3>3. IsFiniteSet({cell(p) : p \in index[u]})
      BY <3>1, <3>2, FS_Surjection
    <3>4. ASSUME NEW p \in index[u] PROVE IsFiniteSet(cell(p))
      <4>1. IsFiniteSet(1 .. conv[u][p].unread)
        BY <2>1, <2>2, FS_Interval
      <4> QED
        BY <4>1, FS_Singleton, FS_Product
    <3> QED
      BY <3>3, <3>4, FS_UNION
  <2>4. ASSUME NEW p \in Peers
        PROVE  \E f : f \in Injection(FreshIn(u, p), 1 .. conv[u][p].unread)
    <3>1. Uncounted(u, p) = {}
      BY <1>2 DEF Uncounted
    <3>2. Cardinality(Uncounted(u, p)) = 0
      BY <3>1, FS_EmptySet
    <3>3. Cardinality(FreshIn(u, p)) <= conv[u][p].unread + Cardinality(Uncounted(u, p))
      BY <1>2 DEF ConvInv, CountInv
    <3>4. IsFiniteSet(FreshIn(u, p)) /\ Cardinality(FreshIn(u, p)) <= conv[u][p].unread
      BY <2>2, <3>2, <3>3, UncountedRouted DEF ConvInv
    <3> QED
      BY <2>2, <3>4, FitsIn
  <2>5. \A m \in fresh[u] : Thread(u, m) \in index[u] /\ m \in FreshIn(u, Thread(u, m))
    <3> SUFFICES ASSUME NEW m \in fresh[u]
                 PROVE  Thread(u, m) \in index[u] /\ m \in FreshIn(u, Thread(u, m))
      OBVIOUS
    <3>1. Thread(u, m) \in Peers /\ m \in FreshIn(u, Thread(u, m))
      BY <2>1, PartiesAre DEF ConvInv, FreshIn
    <3>2. RoutedIn(u, Thread(u, m)) # {}
      BY <3>1, UncountedRouted DEF ConvInv
    <3> QED
      BY <1>2, <3>1, <3>2 DEF ConvInv, IndexInv
  <2> DEFINE b == [p \in index[u] |-> CHOOSE f : f \in Injection(FreshIn(u, p), 1 .. conv[u][p].unread)]
             F == [m \in fresh[u] |-> <<Thread(u, m), b[Thread(u, m)][m]>>]
  <2>6. \A p \in index[u] : b[p] \in Injection(FreshIn(u, p), 1 .. conv[u][p].unread)
    BY <2>1, <2>4
  <2> HIDE DEF b
  <2>7. F \in [fresh[u] -> X]
    <3> SUFFICES ASSUME NEW m \in fresh[u]
                 PROVE  <<Thread(u, m), b[Thread(u, m)][m]>> \in X
      OBVIOUS
    <3>1. b[Thread(u, m)][m] \in 1 .. conv[u][Thread(u, m)].unread
      BY <2>5, <2>6 DEF Injection
    <3>2. <<Thread(u, m), b[Thread(u, m)][m]>> \in cell(Thread(u, m))
      BY <3>1
    <3> QED
      BY <2>5, <3>2
  <2>8. ASSUME NEW m \in fresh[u], NEW n \in fresh[u], F[m] = F[n] PROVE m = n
    <3>1. Thread(u, m) = Thread(u, n) /\ b[Thread(u, m)][m] = b[Thread(u, n)][n]
      BY <2>8
    <3> QED
      BY <2>5, <2>6, <3>1 DEF Injection, IsInjective
  <2> HIDE DEF F, X
  <2>9. F \in Injection(fresh[u], X)
    BY <2>7, <2>8 DEF Injection, IsInjective
  <2>10. Cardinality(fresh[u]) <= Cardinality(X) /\ IsFiniteSet(fresh[u])
    BY <2>3, <2>9, FS_Injection
  <2>11. Cardinality(fresh[u]) \in Nat /\ Cardinality(X) \in Nat
    BY <2>3, <2>10, FS_CardinalityType
  <2>12. GetTotalUnreadCount(u) = Cardinality(X)
    BY DEF GetTotalUnreadCount, X
  <2> QED
    BY <2>10, <2>11, <2>12
<1> QED
  BY <1>1, <1>2 DEF UnreadIsRouted

\* The conversations keep to their types; an unread count never falls below zero.
THEOREM ConversationTypes == ConvSpec => []ConvTypeOK
<1> QED
  BY ConvInvTypes, ConvInvInit, ConvInvStep, PTL DEF ConvSpec

\* Nobody is told of more unread messages than were routed to them, but for one more
\* with every pipeline that was sent again, and with no update under way and none given
\* up, the total counts all that they have not marked as read -- for every number of
\* users, groups, messages and broken connections (service/conversation.go).
THEOREM ConversationUnread == ConvSpec => []UnreadIsRouted
<1> QED
  BY ConvInvUnread, ConvInvInit, ConvInvStep, PTL DEF ConvSpec

-----------------------------------------------------------------------------
(* The three services side by side *)

LEMMA ServicesSteps ==
  /\ ServicesInit => BatcherInit /\ WheelInit /\ ConvInit
  /\ [ServicesNext]_servicesVars =>
       [BatcherNext]_batcherVars /\ [WheelNext]_wheelVars /\ [ConvNext]_convVars
<1>1. ServicesInit => BatcherInit /\ WheelInit /\ ConvInit
  BY DEF ServicesInit
<1>2. ASSUME ServicesNext
      PROVE  [BatcherNext]_batcherVars /\ [WheelNext]_wheelVars /\ [ConvNext]_convVars
  BY <1>2 DEF ServicesNext
<1>3. ASSUME UNCHANGED servicesVars
      PROVE  UNCHANGED batcherVars /\ UNCHANGED wheelVars /\ UNCHANGED convVars
  BY <1>3 DEF servicesVars
<1> QED
  BY <1>1, <1>2, <1>3

LEMMA ServicesBatcher == ServicesSpec => BatcherSafety
<1> QED
  BY ServicesSteps, PTL DEF ServicesSpec, BatcherSafety

\* The types of the three services, as they run side by side.
THEOREM ServicesTyped == ServicesSpec => []ServicesTypeOK
<1>1. WheelInv /\ ConvInv /\ BatcherTypeOK => ServicesTypeOK
  BY WheelInvTypes, ConvInvTypes DEF ServicesTypeOK
<1> QED
  BY <1>1, ServicesSteps, ServicesBatcher, BatcherTyped, WheelInvInit, WheelInvStep,
     ConvInvInit, ConvInvStep, PTL
  DEF ServicesSpec

\* And all that is claimed of each of them.
THEOREM ServicesSound ==
  ServicesSpec => [](InOrderOnce /\ FlushedIsKept /\ ExecutedOnce /\ OnTime /\ UnreadIsRouted)
<1> QED
  BY ServicesSteps, ServicesBatcher, BatcherInOrderOnce, BatcherFlushedIsKept,
     WheelInvInit, WheelInvStep, WheelInvOnce, WheelInvOnTime,
     ConvInvInit, ConvInvStep, ConvInvUnread, PTL
  DEF ServicesSpec
================================================================================
