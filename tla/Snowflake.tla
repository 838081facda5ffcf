------------------------------ MODULE Snowflake ------------------------------
(***************************************************************************)
(* The ID generator of shared/snowflake: the nodes of several services     *)
(* draw IDs from a clock of milliseconds, a node number and a sequence.    *)
(* Generate holds the node's lock also while it waits for the next         *)
(* millisecond, so a node has at most one call under way.  Every service   *)
(* makes its node with number 1: IDs are unique within a process only.     *)
(***************************************************************************)
EXTENDS Integers

CONSTANTS
  Nodes,         \* the processes that generate IDs
  Configured,    \* per process the node number of its configuration
  MaxNodeID,     \* 2^10 - 1
  MaxSequence,   \* 2^12 - 1
  MaxClock        \* bound on the clock

ASSUME ConfiguredAssumption == Configured \in [Nodes -> Int]
ASSUME MaxNodeIDAssumption == MaxNodeID \in Nat \ {0}
ASSUME MaxSequenceAssumption == MaxSequence \in Nat
ASSUME MaxClockAssumption == MaxClock \in Nat

\* NewNode: a number out of range becomes 1.
NodeID == [n \in Nodes |-> IF Configured[n] \in 0 .. MaxNodeID THEN Configured[n] ELSE 1]

VARIABLES
  clock,      \* time.Now().UnixMilli() since epoch
  lastTime, sequence,
  waiting,    \* per node, whether its call waits for the next millisecond
  issued,     \* per node, every ID it has given out
  twice       \* per node, those it has given out again

snowflakeVars == <<clock, lastTime, sequence, waiting, issued, twice>>

SnowflakeInit ==
  /\ clock = 1
  /\ lastTime = [n \in Nodes |-> 0] /\ sequence = lastTime
  /\ waiting = [n \in Nodes |-> FALSE]
  /\ issued = [n \in Nodes |-> {}] /\ twice = issued

\* The three numbers, shifted and joined.
ID(time, node, seq) == time * ((MaxNodeID + 1) * (MaxSequence + 1)) + node * (MaxSequence + 1) + seq

Issue(n, seq) ==
  LET id == ID(clock, NodeID[n], seq)
  IN /\ lastTime' = [lastTime EXCEPT ![n] = clock]
     /\ sequence' = [sequence EXCEPT ![n] = seq]
     /\ issued' = [issued EXCEPT ![n] = @ \cup {id}]
     /\ twice' = [twice EXCEPT ![n] = IF id \in issued[n] THEN @ \cup {id} ELSE @]

\* The sequence wraps, and zero means that it is used up.
NextSequence(seq) == (seq + 1) % (MaxSequence + 1)

Generate(n) ==
  /\ ~waiting[n]
  /\ IF clock = lastTime[n] /\ NextSequence(sequence[n]) = 0
     THEN /\ waiting' = [waiting EXCEPT ![n] = TRUE]
          /\ sequence' = [sequence EXCEPT ![n] = 0]
          /\ UNCHANGED <<lastTime, issued, twice>>
     ELSE /\ Issue(n, IF clock = lastTime[n] THEN NextSequence(sequence[n]) ELSE 0)
          /\ UNCHANGED waiting
  /\ UNCHANGED clock

\* Mutant: wakes without looking at the clock.
Bug_NextMillisecond(n) ==
  /\ waiting[n]
  /\ Issue(n, 0)
  /\ waiting' = [waiting EXCEPT ![n] = FALSE]
  /\ UNCHANGED clock

NextMillisecond(n) ==
  /\ waiting[n] /\ clock > lastTime[n]
  /\ Issue(n, 0)
  /\ waiting' = [waiting EXCEPT ![n] = FALSE]
  /\ UNCHANGED clock

\* The clock never goes back.
ClockTicks ==
  /\ clock < MaxClock
  /\ clock' = clock + 1
  /\ UNCHANGED <<lastTime, sequence, waiting, issued, twice>>

\* A process that comes back has lost its node, and took longer than a
\* millisecond to start.
NodeRestarts(n) ==
  /\ clock < MaxClock
  /\ clock' = clock + 1
  /\ lastTime' = [lastTime EXCEPT ![n] = 0]
  /\ sequence' = [sequence EXCEPT ![n] = 0]
  /\ waiting' = [waiting EXCEPT ![n] = FALSE]
  /\ UNCHANGED <<issued, twice>>

SnowflakeNext ==
  ClockTicks \/ \E n \in Nodes : Generate(n) \/ NextMillisecond(n) \/ NodeRestarts(n)

SnowflakeSpec == SnowflakeInit /\ [][SnowflakeNext]_snowflakeVars

-----------------------------------------------------------------------------
(* Properties *)

SnowflakeTypeOK ==
  /\ clock \in Nat \ {0}
  /\ lastTime \in [Nodes -> Nat] /\ sequence \in [Nodes -> 0 .. MaxSequence]
  /\ waiting \in [Nodes -> BOOLEAN]
  /\ issued \in [Nodes -> SUBSET Nat] /\ twice \in [Nodes -> SUBSET Nat]

\* A process never gives out an ID twice, also when the sequence of a millisecond
\* is used up and when the process restarts.
IDsUnique == \A n \in Nodes : twice[n] = {}

\* What a process generates is greater than whatever it generated in an earlier
\* millisecond: what is stored under its IDs sorts by time.
IDsFollowTime ==
  [][\A n \in Nodes : \A id \in issued'[n] \ issued[n] :
       /\ id >= ID(clock, NodeID[n], 0)
       /\ \A old \in issued[n] : old < ID(clock + 1, NodeID[n], 0)]_snowflakeVars
=============================================================================
