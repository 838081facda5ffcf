------------------------------ MODULE WebProofs ------------------------------
(***************************************************************************)
(* Theorems about the web service and the stores of its client: the        *)
(* numbers of Snowflake, for any processes, node numbers and widths of the *)
(* sequence, and a clock that never goes back; friend requests and         *)
(* friendships; accounts and tokens; profiles; what the client shows of    *)
(* chats; and MCWeb, which runs the five beside each other.  Users,        *)
(* handlers and bounds are any.                                            *)
(***************************************************************************)
EXTENDS MCWeb, SequenceTheorems, FiniteSetTheorems, WellFoundedInduction, TLAPS

-----------------------------------------------------------------------------
(* Arithmetic of IDs: a millisecond has room for more than MaxSequence. *)

Span == (MaxNodeID + 1) * (MaxSequence + 1)
First(t, n) == ID(t, NodeID[n], 0)

LEMMA SpanEnough == Span \in Nat /\ Span > MaxSequence
<1> DEFINE b == MaxSequence + 1  rest == MaxNodeID * b
<1>1. MaxNodeID \in Nat /\ MaxSequence \in Nat /\ b \in Nat /\ b > MaxSequence
  BY MaxNodeIDAssumption, MaxSequenceAssumption
<1>2. rest \in Nat
  BY <1>1
<1>3. Span = rest + b
  BY <1>1 DEF Span
<1> HIDE DEF b, rest
<1> QED
  BY <1>1, <1>2, <1>3

LEMMA NodeIDType ==
  ASSUME NEW n \in Nodes
  PROVE  NodeID[n] \in Nat
BY ConfiguredAssumption, MaxNodeIDAssumption DEF NodeID

LEMMA IDFacts ==
  ASSUME NEW t \in Nat, NEW n \in Nodes, NEW s \in Nat
  PROVE  /\ First(t, n) \in Nat
         /\ ID(t, NodeID[n], s) = First(t, n) + s
         /\ First(t + 1, n) = First(t, n) + Span
<1> DEFINE base == NodeID[n] * (MaxSequence + 1)
<1>1. Span \in Nat
  BY SpanEnough
<1>2. base \in Nat
  BY NodeIDType, MaxSequenceAssumption
<1>3. t * Span \in Nat /\ (t + 1) * Span = t * Span + Span
  BY <1>1
<1>4. /\ First(t, n) = t * Span + base + 0
      /\ ID(t, NodeID[n], s) = t * Span + base + s
      /\ First(t + 1, n) = (t + 1) * Span + base + 0
  BY DEF First, ID, Span
<1> HIDE DEF base
<1> QED
  BY <1>1, <1>2, <1>3, <1>4

-----------------------------------------------------------------------------
(* The inductive invariant: where the IDs of a process lie. *)

\* What is issued lies below the next millisecond; below this one, if nothing has
\* been issued in it; and up to the sequence number, if a call may go on in it.
Below(n) ==
  /\ lastTime[n] <= clock
  /\ \A id \in issued[n] : id < First(clock + 1, n)
  /\ lastTime[n] < clock => \A id \in issued[n] : id < First(clock, n)
  /\ ~waiting[n] => \A id \in issued[n] : id <= ID(clock, NodeID[n], sequence[n]) \/ lastTime[n] < clock

IDInv == SnowflakeTypeOK /\ IDsUnique /\ \A n \in Nodes : Below(n)

LEMMA IDInvInit == SnowflakeInit => IDInv
BY MaxSequenceAssumption DEF SnowflakeInit, IDInv, SnowflakeTypeOK, IDsUnique, Below

\* What a process issues at seq is new and keeps the invariant, when nothing of
\* this millisecond lies at seq or above.
LEMMA IssueIsNew ==
  ASSUME IDInv, NEW n \in Nodes, NEW seq \in 0 .. MaxSequence, Issue(n, seq),
         \A id \in issued[n] : id < First(clock, n) + seq,
         clock' = clock, waiting' \in [Nodes -> BOOLEAN],
         \A m \in Nodes \ {n} : waiting'[m] = waiting[m]
  PROVE  IDInv'
<1> DEFINE new == ID(clock, NodeID[n], seq)
<1>1. seq \in Nat /\ clock \in Nat /\ clock + 1 \in Nat
  BY MaxSequenceAssumption DEF IDInv, SnowflakeTypeOK
<1>2. new = First(clock, n) + seq /\ First(clock, n) \in Nat /\ new \in Nat
  BY <1>1, IDFacts
<1>3. new < First(clock + 1, n)
  <2>1. First(clock + 1, n) = First(clock, n) + Span
    BY <1>1, IDFacts
  <2> QED
    BY <1>1, <1>2, <2>1, SpanEnough, MaxSequenceAssumption
<1>4. new \notin issued[n]
  <2> SUFFICES ASSUME new \in issued[n] PROVE FALSE
    OBVIOUS
  <2>1. new < First(clock, n) + seq
    OBVIOUS
  <2> QED
    BY <1>1, <1>2, <2>1
<1>5. /\ lastTime' = [lastTime EXCEPT ![n] = clock]
      /\ sequence' = [sequence EXCEPT ![n] = seq]
      /\ issued' = [issued EXCEPT ![n] = @ \cup {new}]
      /\ twice' = twice
  <2>1. twice' = [twice EXCEPT ![n] = @]
    BY <1>4 DEF Issue
  <2>2. twice \in [Nodes -> SUBSET Nat]
    BY DEF IDInv, SnowflakeTypeOK
  <2> QED
    BY <2>1, <2>2 DEF Issue
<1> HIDE DEF new
<1>6. SnowflakeTypeOK'
  BY <1>1, <1>2, <1>5 DEF IDInv, SnowflakeTypeOK
<1>7. IDsUnique'
  BY <1>5 DEF IDInv, IDsUnique
<1>8. ASSUME NEW m \in Nodes PROVE Below(m)'
  <2>1. CASE m # n
    <3>1. lastTime'[m] = lastTime[m] /\ sequence'[m] = sequence[m] /\ issued'[m] = issued[m]
      BY <1>5, <2>1 DEF IDInv, SnowflakeTypeOK
    <3> QED
      BY <2>1, <3>1 DEF IDInv, Below, First, ID
  <2>2. CASE m = n
    <3>1. lastTime'[n] = clock /\ sequence'[n] = seq /\ issued'[n] = issued[n] \cup {new}
      BY <1>5 DEF IDInv, SnowflakeTypeOK
    <3>2. issued[n] \subseteq Nat
      BY DEF IDInv, SnowflakeTypeOK
    <3>3. ID(clock, NodeID[n], seq) = new
      BY DEF new
    <3>4. \A id \in issued'[n] : id <= new /\ id < First(clock + 1, n)
      BY <1>1, <1>2, <1>3, <3>1, <3>2 DEF IDInv, Below
    <3>5. First(clock + 1, n)' = First(clock + 1, n)
      BY DEF First, ID
    <3>6. ID(clock, NodeID[n], sequence[n])' = new
      BY <3>1, <3>3 DEF ID
    <3> QED
      BY <1>1, <2>2, <3>1, <3>4, <3>5, <3>6 DEF Below
  <2> QED
    BY <2>1, <2>2
<1> QED
  BY <1>6, <1>7, <1>8 DEF IDInv

\* When the clock goes on, all that was issued lies below the new millisecond.
LEMMA ClockMoves ==
  ASSUME IDInv, clock' = clock + 1, UNCHANGED <<issued, twice>>,
         lastTime' \in [Nodes -> Nat], sequence' \in [Nodes -> 0 .. MaxSequence],
         waiting' \in [Nodes -> BOOLEAN],
         \A n \in Nodes : lastTime'[n] <= lastTime[n]
  PROVE  IDInv'
<1>1. clock \in Nat /\ clock' \in Nat \ {0} /\ clock' + 1 \in Nat
  BY DEF IDInv, SnowflakeTypeOK
<1>2. SnowflakeTypeOK' /\ IDsUnique'
  BY <1>1 DEF IDInv, SnowflakeTypeOK, IDsUnique
<1>3. ASSUME NEW n \in Nodes PROVE Below(n)'
  <2>1. lastTime'[n] < clock'
    <3>1. lastTime[n] \in Nat /\ lastTime'[n] \in Nat /\ lastTime[n] <= clock
      BY DEF IDInv, SnowflakeTypeOK, Below
    <3> QED
      BY <1>1, <3>1
  <2>2. \A id \in issued'[n] : id \in Nat /\ id < First(clock, n)'
    BY DEF IDInv, SnowflakeTypeOK, Below, First, ID
  <2>3. First(clock, n)' \in Nat /\ First(clock + 1, n)' = First(clock, n)' + Span
    <3>1. First(clock', n) \in Nat /\ First(clock' + 1, n) = First(clock', n) + Span
      BY <1>1, IDFacts
    <3> QED
      BY <3>1 DEF First, ID
  <2>4. lastTime'[n] <= clock'
    BY <1>1, <2>1
  <2>5. \A id \in issued'[n] : id < First(clock + 1, n)'
    BY <2>2, <2>3, SpanEnough, MaxSequenceAssumption
  <2> QED
    BY <2>1, <2>2, <2>4, <2>5 DEF Below
<1> QED
  BY <1>2, <1>3 DEF IDInv

LEMMA IDInvGenerate ==
  ASSUME IDInv, NEW n \in Nodes, Generate(n)
  PROVE  IDInv'
<1> DEFINE seq == IF clock = lastTime[n] THEN NextSequence(sequence[n]) ELSE 0
<1>1. clock \in Nat /\ lastTime[n] \in Nat /\ sequence[n] \in 0 .. MaxSequence /\ MaxSequence \in Nat
  BY MaxSequenceAssumption DEF IDInv, SnowflakeTypeOK
<1>2. lastTime[n] <= clock /\ ~waiting[n] /\ clock' = clock
  BY DEF IDInv, Below, Generate
<1>3. CASE clock = lastTime[n] /\ NextSequence(sequence[n]) = 0
  <2>1. /\ waiting' = [waiting EXCEPT ![n] = TRUE] /\ sequence' = [sequence EXCEPT ![n] = 0]
        /\ UNCHANGED <<clock, lastTime, issued, twice>>
    BY <1>3 DEF Generate
  <2>2. SnowflakeTypeOK' /\ IDsUnique'
    BY <1>1, <2>1 DEF IDInv, SnowflakeTypeOK, IDsUnique
  <2>3. ASSUME NEW m \in Nodes PROVE Below(m)'
    <3>1. waiting'[m] \/ (waiting'[m] = waiting[m] /\ sequence'[m] = sequence[m])
      BY <2>1 DEF IDInv, SnowflakeTypeOK
    <3> QED
      BY <2>1, <3>1 DEF IDInv, Below, First, ID
  <2> QED
    BY <2>2, <2>3 DEF IDInv
<1>4. CASE ~(clock = lastTime[n] /\ NextSequence(sequence[n]) = 0)
  <2>1. Issue(n, seq) /\ waiting' = waiting
    BY <1>4 DEF Generate
  <2>2. seq \in 0 .. MaxSequence /\ (clock = lastTime[n] => seq = sequence[n] + 1)
    <3>1. clock = lastTime[n] => sequence[n] + 1 <= MaxSequence /\ NextSequence(sequence[n]) = sequence[n] + 1
      <4> SUFFICES ASSUME clock = lastTime[n]
                   PROVE  sequence[n] + 1 <= MaxSequence /\ NextSequence(sequence[n]) = sequence[n] + 1
        OBVIOUS
      <4>1. (MaxSequence + 1) % (MaxSequence + 1) = 0
        BY <1>1
      <4>2. sequence[n] # MaxSequence
        BY <1>4, <4>1 DEF NextSequence
      <4>3. sequence[n] + 1 \in 0 .. MaxSequence
        BY <1>1, <4>2
      <4> HIDE <4>1
      <4>4. (sequence[n] + 1) % (MaxSequence + 1) = sequence[n] + 1
        BY <1>1, <4>3
      <4> QED
        BY <4>3, <4>4 DEF NextSequence
    <3> QED
      BY <1>1, <3>1
  <2>3. \A id \in issued[n] : id < First(clock, n) + seq
    <3> SUFFICES ASSUME NEW id \in issued[n] PROVE id < First(clock, n) + seq
      OBVIOUS
    <3>1. id \in Nat /\ First(clock, n) \in Nat
      BY <1>1, IDFacts DEF IDInv, SnowflakeTypeOK
    <3>2. CASE lastTime[n] < clock
      <4>1. id < First(clock, n)
        BY <3>2 DEF IDInv, Below
      <4> QED
        BY <1>1, <2>2, <3>1, <4>1
    <3>3. CASE clock = lastTime[n]
      <4>1. id <= ID(clock, NodeID[n], sequence[n])
        BY <1>1, <1>2, <3>3 DEF IDInv, Below
      <4>2. ID(clock, NodeID[n], sequence[n]) = First(clock, n) + sequence[n]
        BY <1>1, IDFacts
      <4> QED
        BY <1>1, <2>2, <3>1, <3>3, <4>1, <4>2
    <3> QED
      BY <1>1, <1>2, <3>2, <3>3
  <2>4. waiting' \in [Nodes -> BOOLEAN]
    BY <2>1 DEF IDInv, SnowflakeTypeOK
  <2> HIDE DEF seq
  <2> QED
    BY <1>2, <2>1, <2>2, <2>3, <2>4, IssueIsNew
<1> QED
  BY <1>3, <1>4

LEMMA IDInvWakes ==
  ASSUME IDInv, NEW n \in Nodes, NextMillisecond(n)
  PROVE  IDInv'
<1>1. /\ Issue(n, 0) /\ clock' = clock /\ clock > lastTime[n]
      /\ waiting' = [waiting EXCEPT ![n] = FALSE]
  BY DEF NextMillisecond
<1>2. 0 \in 0 .. MaxSequence /\ clock \in Nat /\ lastTime[n] \in Nat /\ lastTime[n] < clock
  BY <1>1, MaxSequenceAssumption DEF IDInv, SnowflakeTypeOK
<1>3. \A id \in issued[n] : id < First(clock, n) + 0
  <2>1. First(clock, n) + 0 = First(clock, n)
    BY <1>2, IDFacts
  <2> QED
    BY <1>2, <2>1 DEF IDInv, Below
<1>4. waiting' \in [Nodes -> BOOLEAN] /\ \A m \in Nodes \ {n} : waiting'[m] = waiting[m]
  BY <1>1 DEF IDInv, SnowflakeTypeOK
<1> QED
  BY <1>1, <1>2, <1>3, <1>4, IssueIsNew

LEMMA IDInvRestarts ==
  ASSUME IDInv, NEW n \in Nodes, NodeRestarts(n)
  PROVE  IDInv'
<1>1. /\ clock' = clock + 1 /\ UNCHANGED <<issued, twice>>
      /\ lastTime' = [lastTime EXCEPT ![n] = 0]
      /\ sequence' = [sequence EXCEPT ![n] = 0]
      /\ waiting' = [waiting EXCEPT ![n] = FALSE]
  BY DEF NodeRestarts
<1>2. /\ lastTime \in [Nodes -> Nat] /\ sequence \in [Nodes -> 0 .. MaxSequence]
      /\ waiting \in [Nodes -> BOOLEAN] /\ 0 \in 0 .. MaxSequence
  BY MaxSequenceAssumption DEF IDInv, SnowflakeTypeOK
<1>3. /\ lastTime' \in [Nodes -> Nat] /\ sequence' \in [Nodes -> 0 .. MaxSequence]
      /\ waiting' \in [Nodes -> BOOLEAN]
  BY <1>1, <1>2
<1>4. \A m \in Nodes : lastTime'[m] <= lastTime[m]
  BY <1>1, <1>2
<1> QED
  BY <1>1, <1>3, <1>4, ClockMoves

LEMMA IDInvStep == IDInv /\ [SnowflakeNext]_snowflakeVars => IDInv'
<1> SUFFICES ASSUME IDInv, [SnowflakeNext]_snowflakeVars PROVE IDInv'
  OBVIOUS
<1>1. CASE ClockTicks
  <2>1. clock' = clock + 1 /\ UNCHANGED <<lastTime, sequence, waiting, issued, twice>>
    BY <1>1 DEF ClockTicks
  <2>2. /\ lastTime \in [Nodes -> Nat] /\ sequence \in [Nodes -> 0 .. MaxSequence]
        /\ waiting \in [Nodes -> BOOLEAN]
    BY DEF IDInv, SnowflakeTypeOK
  <2>3. \A n \in Nodes : lastTime'[n] <= lastTime[n]
    BY <2>1, <2>2
  <2> QED
    BY <2>1, <2>2, <2>3, ClockMoves
<1>2. ASSUME NEW n \in Nodes, Generate(n) PROVE IDInv'
  BY <1>2, IDInvGenerate
<1>3. ASSUME NEW n \in Nodes, NextMillisecond(n) PROVE IDInv'
  BY <1>3, IDInvWakes
<1>4. ASSUME NEW n \in Nodes, NodeRestarts(n) PROVE IDInv'
  BY <1>4, IDInvRestarts
<1>5. CASE UNCHANGED snowflakeVars
  BY <1>5 DEF snowflakeVars, IDInv, SnowflakeTypeOK, IDsUnique, Below, First, ID
<1> QED
  BY <1>1, <1>2, <1>3, <1>4, <1>5 DEF SnowflakeNext

LEMMA IDInvHolds == SnowflakeSpec => []IDInv
BY IDInvInit, IDInvStep, PTL DEF SnowflakeSpec

-----------------------------------------------------------------------------
(* The theorems *)

\* Types, and the sequence number keeps its width.
THEOREM SnowflakeTyped == SnowflakeSpec => []SnowflakeTypeOK
<1>1. IDInv => SnowflakeTypeOK
  BY DEF IDInv
<1> QED
  BY <1>1, IDInvHolds, PTL

\* A process never gives out an ID twice (Generate, snowflake.go), however many
\* IDs a millisecond is asked for and however often the process restarts.
THEOREM SnowflakeUnique == SnowflakeSpec => []IDsUnique
<1>1. IDInv => IDsUnique
  BY DEF IDInv
<1> QED
  BY <1>1, IDInvHolds, PTL

\* A new ID belongs to the millisecond of the clock and no older one to a later.
LEMMA IssueFollowsTime ==
  ASSUME IDInv, NEW n \in Nodes, NEW seq \in 0 .. MaxSequence, Issue(n, seq),
         NEW m \in Nodes, NEW id \in issued'[m] \ issued[m]
  PROVE  id >= ID(clock, NodeID[m], 0)
<1>1. m = n /\ id = ID(clock, NodeID[n], seq)
  <2>1. issued' = [issued EXCEPT ![n] = @ \cup {ID(clock, NodeID[n], seq)}]
    BY DEF Issue
  <2>2. issued \in [Nodes -> SUBSET Nat]
    BY DEF IDInv, SnowflakeTypeOK
  <2> QED
    BY <2>1, <2>2
<1>2. clock \in Nat /\ seq \in Nat
  BY MaxSequenceAssumption DEF IDInv, SnowflakeTypeOK
<1>3. id = First(clock, m) + seq /\ First(clock, m) \in Nat
  BY <1>1, <1>2, IDFacts
<1> QED
  BY <1>2, <1>3 DEF First

LEMMA StepFollowsTime ==
  ASSUME IDInv, [SnowflakeNext]_snowflakeVars, NEW m \in Nodes, NEW id \in issued'[m] \ issued[m]
  PROVE  /\ id >= ID(clock, NodeID[m], 0)
         /\ \A old \in issued[m] : old < ID(clock + 1, NodeID[m], 0)
<1>1. \A old \in issued[m] : old < ID(clock + 1, NodeID[m], 0)
  BY DEF IDInv, Below, First
<1>2. 0 \in 0 .. MaxSequence
  BY MaxSequenceAssumption
<1>3. issued' # issued
  OBVIOUS
<1>4. ASSUME NEW n \in Nodes, Generate(n) PROVE id >= ID(clock, NodeID[m], 0)
  <2> DEFINE seq == IF clock = lastTime[n] THEN NextSequence(sequence[n]) ELSE 0
  <2>1. Issue(n, seq)
    BY <1>3, <1>4 DEF Generate
  <2>2. seq \in 0 .. MaxSequence
    <3>1. NextSequence(sequence[n]) \in 0 .. MaxSequence
      BY MaxSequenceAssumption DEF NextSequence, IDInv, SnowflakeTypeOK
    <3> QED
      BY <1>2, <3>1
  <2> HIDE DEF seq
  <2> QED
    BY <2>1, <2>2, IssueFollowsTime
<1>5. ASSUME NEW n \in Nodes, NextMillisecond(n) PROVE id >= ID(clock, NodeID[m], 0)
  <2>1. Issue(n, 0)
    BY <1>5 DEF NextMillisecond
  <2> QED
    BY <1>2, <2>1, IssueFollowsTime
<1>6. \E n \in Nodes : Generate(n) \/ NextMillisecond(n)
  BY <1>3 DEF SnowflakeNext, ClockTicks, NodeRestarts, snowflakeVars
<1> QED
  BY <1>1, <1>4, <1>5, <1>6

\* IDs sort by the millisecond they were generated in.
THEOREM SnowflakeFollowsTime == SnowflakeSpec => IDsFollowTime
<1>1. IDInv /\ [SnowflakeNext]_snowflakeVars =>
        [\A n \in Nodes : \A id \in issued'[n] \ issued[n] :
           /\ id >= ID(clock, NodeID[n], 0)
           /\ \A old \in issued[n] : old < ID(clock + 1, NodeID[n], 0)]_snowflakeVars
  BY StepFollowsTime
<1> QED
  BY <1>1, IDInvHolds, PTL DEF SnowflakeSpec, IDsFollowTime
-----------------------------------------------------------------------------
(***************************************************************************)
(* Friends.  The inductive invariant says what a handler holds between two *)
(* of its statements: the request it answers is accepted before it writes, *)
(* the rows it has written are its own and are as it found them, and the   *)
(* second row goes the way of the first, unless a call of the other kind   *)
(* ran beside it.                                                          *)
(***************************************************************************)

Request == [from : Users, to : Users, status : {"pending", "accepted", "rejected"}]
RowStates == {"none", "live", "deleted"}
Rows == UNION {[D -> RowStates] : D \in SUBSET Pairs}
Sends == [op : {"send"}, at : {1, 2}, pair : Pairs]
Answers == [op : {"accept", "reject"}, at : {1, 2, 3, 4}, request : Nat, user : Users, pair : Pairs]
Deletes == [op : {"delete"}, at : {2, 3, 4}, pair : Pairs]
FriendCalls == Sends \cup Answers \cup Deletes

HandlersTyped == friendHandler \in [FriendHandlers -> {NoCall} \cup FriendCalls]

FriendsTyping ==
  /\ requests \in Seq(Request)
  /\ \A i \in DOMAIN requests : requests[i].from # requests[i].to
  /\ friends \in [Pairs -> RowStates]
  /\ writes \in [FriendHandlers -> Rows]
  /\ HandlersTyped

Rev(p) == <<p[2], p[1]>>
Of(p) == {p[1], p[2]}
Raced(p) == <<"friends", Of(p)>> \in raced
Handles(h, op) == friendHandler[h].op = op
Transacts(h) == friendHandler[h].op \in {"accept", "delete"} /\ friendHandler[h].at # 1

\* A request that is answered has been sent to the user who answers it, and is
\* accepted before the friendship is written.
AnswersKnown ==
  \A h \in FriendHandlers :
    friendHandler[h] \in Answers =>
      LET c == friendHandler[h]
      IN  /\ c.request \in DOMAIN requests
          /\ c.user = requests[c.request].to
          /\ c.pair = <<c.user, requests[c.request].from>>
          /\ c.op = "accept" /\ c.at # 1 => Of(c.pair) \in accepted

\* A transaction holds rows of its pair only, in the order of its statements, as
\* its kind writes them; it found them so that the write had an effect; and no
\* row is held twice.
RowsHeld ==
  \A h \in FriendHandlers :
    LET c == friendHandler[h]
    IN  /\ ~Transacts(h) \/ c.at = 2 => DOMAIN writes[h] = {}
        /\ Transacts(h) /\ c.at = 3 => DOMAIN writes[h] \subseteq {c.pair}
        /\ Transacts(h) => DOMAIN writes[h] \subseteq {c.pair, Rev(c.pair)}
        /\ \A p \in DOMAIN writes[h] :
             /\ c.op = "accept" => writes[h][p] = "live" /\ friends[p] = "none"
             /\ c.op = "delete" => writes[h][p] = "deleted" /\ friends[p] = "live"

HeldOnce ==
  \A g, h \in FriendHandlers : \A p \in DOMAIN writes[g] : p \in DOMAIN writes[h] => g = h

\* What overlaps is remembered.
RacesSeen ==
  \A g, h \in FriendHandlers :
    /\ Handles(g, "accept") /\ Handles(h, "delete")
         /\ Of(friendHandler[g].pair) = Of(friendHandler[h].pair) => Raced(friendHandler[g].pair)
    /\ Handles(g, "send") /\ Handles(h, "send") /\ g # h
         /\ friendHandler[g].pair = friendHandler[h].pair
           => <<"send", friendHandler[g].pair>> \in raced

\* Without a race the second row of a transaction goes the way of the first.
BothOrNeither ==
  \A h \in FriendHandlers :
    LET c == friendHandler[h]
    IN  Transacts(h) /\ ~Raced(c.pair) =>
          /\ c.at = 3 /\ c.op = "accept" => c.pair \in DOMAIN writes[h] \/ friends[c.pair] # "none"
          /\ c.at = 3 /\ c.op = "delete" => c.pair \in DOMAIN writes[h] \/ friends[c.pair] # "live"
          /\ c.at = 4 => DOMAIN writes[h] = {} \/ DOMAIN writes[h] = {c.pair, Rev(c.pair)}

\* A send that has looked found nothing pending, and nobody has sent since.
PendingSeen ==
  \A p \in Pairs :
    <<"send", p>> \notin raced =>
      /\ \A i, j \in Pending(p[1], p[2]) : i = j
      /\ \A h \in FriendHandlers :
           Handles(h, "send") /\ friendHandler[h].pair = p /\ friendHandler[h].at = 2
             => Pending(p[1], p[2]) = {}

FriendsInv ==
  /\ FriendsTyping /\ AnswersKnown /\ RowsHeld /\ HeldOnce
  /\ RacesSeen /\ BothOrNeither /\ PendingSeen
  /\ FriendsWereAccepted /\ MutualUnlessRaced

-----------------------------------------------------------------------------
(* Pairs and records *)

LEMMA PairFacts ==
  ASSUME NEW p \in Pairs
  PROVE  /\ p[1] \in Users /\ p[2] \in Users /\ p[1] # p[2] /\ p = <<p[1], p[2]>>
         /\ Rev(p) \in Pairs /\ Rev(Rev(p)) = p /\ Rev(p) # p /\ Of(Rev(p)) = Of(p)
         /\ \A q \in Pairs : Of(q) = Of(p) <=> q \in {p, Rev(p)}
<1>1. p[1] \in Users /\ p[2] \in Users /\ p[1] # p[2] /\ p = <<p[1], p[2]>>
  BY DEF Pairs
<1>2. Rev(p) \in Pairs /\ Rev(Rev(p)) = p /\ Rev(p) # p /\ Of(Rev(p)) = Of(p)
  BY <1>1 DEF Pairs, Rev, Of
<1>3. ASSUME NEW q \in Pairs PROVE Of(q) = Of(p) <=> q \in {p, Rev(p)}
  <2>1. q[1] # q[2] /\ q = <<q[1], q[2]>>
    BY DEF Pairs
  <2>2. q \in {p, Rev(p)} => Of(q) = Of(p)
    BY <1>2
  <2>3. ASSUME Of(q) = Of(p) PROVE q \in {p, Rev(p)}
    <3>1. q[1] \in {p[1], p[2]} /\ q[2] \in {p[1], p[2]} /\ p[1] \in {q[1], q[2]} /\ p[2] \in {q[1], q[2]}
      BY <2>3 DEF Of
    <3> QED
      BY <1>1, <2>1, <3>1 DEF Rev
  <2> QED
    BY <2>2, <2>3
<1> QED
  BY <1>1, <1>2, <1>3

\* The kinds of calls do not overlap, and no call is NoCall.
LEMMA CallKinds ==
  ASSUME HandlersTyped, NEW h \in FriendHandlers
  PROVE  LET c == friendHandler[h]
         IN  /\ c.op = "send" => c \in Sends
             /\ c.op \in {"accept", "reject"} => c \in Answers
             /\ c.op = "delete" => c \in Deletes
             /\ c \in Answers => c.op \in {"accept", "reject"}
             /\ c.op = "idle" => c = NoCall
             /\ c # NoCall => c.pair \in Pairs /\ c.op \in {"send", "accept", "reject", "delete"}
<1>1. friendHandler[h] \in {NoCall} \cup Sends \cup Answers \cup Deletes
  BY DEF HandlersTyped, FriendCalls
<1> QED
  BY <1>1 DEF NoCall, Sends, Answers, Deletes

LEMMA TransactKinds ==
  ASSUME HandlersTyped, NEW h \in FriendHandlers, Transacts(h)
  PROVE  LET c == friendHandler[h]
         IN  c # NoCall /\ c.pair \in Pairs /\ c.op \in {"accept", "delete"} /\ c.at \in {2, 3, 4}
BY CallKinds DEF Transacts, Answers, Deletes, NoCall

-----------------------------------------------------------------------------
(* What the helpers do to the handlers *)

LEMMA GoesToEffect ==
  ASSUME HandlersTyped, NEW h \in FriendHandlers, NEW r \in {NoCall} \cup FriendCalls, GoesTo(h, r)
  PROVE  /\ HandlersTyped' /\ friendHandler'[h] = r
         /\ \A g \in FriendHandlers \ {h} : friendHandler'[g] = friendHandler[g]
BY DEF HandlersTyped, GoesTo

LEMMA OnwardEffect ==
  ASSUME HandlersTyped, NEW h \in FriendHandlers, Onward(h),
         \/ friendHandler[h].op = "send" /\ friendHandler[h].at = 1
         \/ friendHandler[h].op = "accept" /\ friendHandler[h].at \in {1, 2, 3}
         \/ friendHandler[h].op = "delete" /\ friendHandler[h].at \in {2, 3}
  PROVE  /\ HandlersTyped'
         /\ friendHandler'[h].op = friendHandler[h].op
         /\ friendHandler'[h].pair = friendHandler[h].pair
         /\ friendHandler'[h].at = friendHandler[h].at + 1
         /\ friendHandler[h].op = "accept" =>
              /\ friendHandler'[h].request = friendHandler[h].request
              /\ friendHandler'[h].user = friendHandler[h].user
         /\ \A g \in FriendHandlers \ {h} : friendHandler'[g] = friendHandler[g]
<1> DEFINE c == friendHandler[h]
           d == [c EXCEPT !.at = @ + 1]
<1>1. GoesTo(h, d)
  BY DEF Onward
<1>2. CASE c.op = "send" /\ c.at = 1
  <2>1. c \in Sends
    BY <1>2, CallKinds
  <2>2. d \in Sends /\ d.op = c.op /\ d.pair = c.pair /\ d.at = c.at + 1
    BY <1>2, <2>1 DEF Sends
  <2> QED
    BY <1>1, <1>2, <2>2, GoesToEffect DEF FriendCalls
<1>3. CASE c.op = "accept" /\ c.at \in {1, 2, 3}
  <2>1. c \in Answers
    BY <1>3, CallKinds
  <2>2. d \in Answers /\ d.op = c.op /\ d.pair = c.pair /\ d.at = c.at + 1
        /\ d.request = c.request /\ d.user = c.user
    BY <1>3, <2>1 DEF Answers
  <2> QED
    BY <1>1, <1>3, <2>2, GoesToEffect DEF FriendCalls
<1>4. CASE c.op = "delete" /\ c.at \in {2, 3}
  <2>1. c \in Deletes
    BY <1>4, CallKinds
  <2>2. d \in Deletes /\ d.op = c.op /\ d.pair = c.pair /\ d.at = c.at + 1
    BY <1>4, <2>1 DEF Deletes
  <2> QED
    BY <1>1, <1>4, <2>2, GoesToEffect DEF FriendCalls
<1> QED
  BY <1>2, <1>3, <1>4

\* A call that begins changes nothing but its handler, and remembers its races.
LEMMA BeginEffect ==
  ASSUME HandlersTyped, NEW h \in FriendHandlers, NEW r \in FriendCalls, Begin(h, r)
  PROVE  /\ HandlersTyped' /\ friendHandler[h] = NoCall /\ friendHandler'[h] = r
         /\ \A g \in FriendHandlers \ {h} : friendHandler'[g] = friendHandler[g]
         /\ raced \subseteq raced'
         /\ \A g \in FriendHandlers :
              /\ r.op = "send" /\ Handles(g, "send") /\ friendHandler[g].pair = r.pair
                   => <<"send", r.pair>> \in raced'
              /\ {r.op, friendHandler[g].op} = {"accept", "delete"}
                   /\ friendHandler[g].pair \in {r.pair, Rev(r.pair)}
                   => <<"friends", Of(r.pair)>> \in raced'
<1>1. GoesTo(h, r) /\ friendHandler[h] = NoCall
  BY DEF Begin
<1>2. raced \subseteq raced'
  BY DEF Begin
<1>3. ASSUME NEW g \in FriendHandlers, r.op = "send", Handles(g, "send"), friendHandler[g].pair = r.pair
      PROVE  <<"send", r.pair>> \in raced'
  BY <1>3 DEF Begin, Handles
<1>4. ASSUME NEW g \in FriendHandlers, {r.op, friendHandler[g].op} = {"accept", "delete"},
             friendHandler[g].pair \in {r.pair, Rev(r.pair)}
      PROVE  <<"friends", Of(r.pair)>> \in raced'
  BY <1>4 DEF Begin, Rev, Of
<1> QED
  BY <1>1, <1>2, <1>3, <1>4, GoesToEffect

\* The rows of a handler after one more write.
LEMMA WriteEffect ==
  ASSUME FriendsTyping, NEW h \in FriendHandlers, NEW p \in Pairs, NEW s \in RowStates,
         WriteRow(h, p, s)
  PROVE  /\ writes' \in [FriendHandlers -> Rows]
         /\ DOMAIN writes'[h] = DOMAIN writes[h] \cup {p}
         /\ writes'[h][p] = s
         /\ \A q \in DOMAIN writes[h] : q # p => writes'[h][q] = writes[h][q]
         /\ \A g \in FriendHandlers \ {h} : writes'[g] = writes[g]
<1> DEFINE row == [q \in DOMAIN writes[h] \cup {p} |-> IF q = p THEN s ELSE writes[h][q]]
<1>1. PICK D \in SUBSET Pairs : writes[h] \in [D -> RowStates]
  BY DEF FriendsTyping, Rows
<1>2. row \in [D \cup {p} -> RowStates]
  BY <1>1
<1>3. row \in Rows
  BY <1>2 DEF Rows
<1>4. writes' = [writes EXCEPT ![h] = row]
  BY DEF WriteRow
<1>5. writes'[h] = row
  BY <1>4 DEF FriendsTyping
<1>6. writes' \in [FriendHandlers -> Rows]
  BY <1>3, <1>4 DEF FriendsTyping
<1>7. \A g \in FriendHandlers \ {h} : writes'[g] = writes[g]
  BY <1>4 DEF FriendsTyping
<1> QED
  BY <1>5, <1>6, <1>7

LEMMA DropEffect ==
  ASSUME FriendsTyping, NEW h \in FriendHandlers, writes' = [writes EXCEPT ![h] = NoWrites]
  PROVE  /\ writes' \in [FriendHandlers -> Rows] /\ DOMAIN writes'[h] = {}
         /\ \A g \in FriendHandlers \ {h} : writes'[g] = writes[g]
<1>1. NoWrites \in [{} -> RowStates]
  BY DEF NoWrites, RowStates
<1>2. NoWrites \in Rows
  BY <1>1 DEF Rows
<1> QED
  BY <1>1, <1>2 DEF FriendsTyping

-----------------------------------------------------------------------------
(* The steps *)

LEMMA FriendsInitInv == FriendsInit => FriendsInv
<1> SUFFICES ASSUME FriendsInit PROVE FriendsInv
  OBVIOUS
<1>1. /\ requests = <<>> /\ \A h \in FriendHandlers : friendHandler[h] = NoCall
      /\ \A p \in Pairs : friends[p] = "none"
      /\ \A h \in FriendHandlers : writes[h] = NoWrites
  BY DEF FriendsInit
<1>2. FriendsTyping
  <2>1. NoWrites \in Rows
    <3>1. NoWrites \in [{} -> RowStates]
      BY DEF NoWrites, RowStates
    <3> QED
      BY <3>1 DEF Rows
  <2>2. friends \in [Pairs -> RowStates]
    BY DEF FriendsInit, RowStates
  <2>3. requests \in Seq(Request) /\ DOMAIN requests = {}
    BY <1>1
  <2> QED
    BY <2>1, <2>2, <2>3 DEF FriendsInit, FriendsTyping, HandlersTyped
<1>3. AnswersKnown
  BY <1>1 DEF AnswersKnown, NoCall, Answers
<1>4. RowsHeld /\ HeldOnce
  BY <1>1 DEF RowsHeld, HeldOnce, NoWrites, NoCall, Transacts
<1>5. RacesSeen
  BY <1>1 DEF RacesSeen, NoCall, Handles
<1>6. BothOrNeither
  BY <1>1 DEF BothOrNeither, NoCall, Transacts
<1>7. PendingSeen
  BY <1>1 DEF PendingSeen, NoCall, Handles, Pending
<1>8. FriendsWereAccepted /\ MutualUnlessRaced
  BY <1>1 DEF FriendsWereAccepted, MutualUnlessRaced, Pairs
<1> QED
  BY <1>2, <1>3, <1>4, <1>5, <1>6, <1>7, <1>8 DEF FriendsInv

\* A call begins, as each of the four kinds does.
LEMMA BeginInv ==
  ASSUME FriendsInv, NEW h \in FriendHandlers, NEW r \in FriendCalls, Begin(h, r),
         UNCHANGED <<requests, friends, writes, accepted>>,
         \/ r \in Sends /\ r.at = 1
         \/ /\ r \in Answers /\ r.at = 1 /\ r.request \in DOMAIN requests
            /\ r.user = requests[r.request].to
            /\ r.pair = <<r.user, requests[r.request].from>>
         \/ r \in Deletes /\ r.at = 2
  PROVE  FriendsInv'
<1> USE DEF FriendsInv
<1>1. /\ HandlersTyped' /\ friendHandler[h] = NoCall /\ friendHandler'[h] = r
      /\ \A g \in FriendHandlers \ {h} : friendHandler'[g] = friendHandler[g]
      /\ raced \subseteq raced'
  BY BeginEffect DEF FriendsTyping
<1>2. /\ ~Transacts(h) /\ r # NoCall /\ DOMAIN writes[h] = {}
      /\ r.op \in {"send", "accept", "reject", "delete"} /\ r.pair \in Pairs
      /\ Transacts(h)' => r \in Deletes /\ r.at = 2 /\ r.op = "delete"
      /\ \A g \in FriendHandlers \ {h} : Transacts(g)' <=> Transacts(g)
  <2>1. ~Transacts(h)
    BY <1>1 DEF Transacts, NoCall
  <2>2. DOMAIN writes[h] = {}
    BY <2>1 DEF RowsHeld
  <2> QED
    BY <1>1, <2>1, <2>2 DEF Transacts, FriendCalls, Sends, Answers, Deletes, NoCall
<1>3. FriendsTyping'
  BY <1>1 DEF FriendsTyping
<1>4. AnswersKnown'
  <2> SUFFICES ASSUME NEW g \in FriendHandlers, friendHandler'[g] \in Answers
               PROVE  LET c == friendHandler'[g]
                      IN  /\ c.request \in DOMAIN requests
                          /\ c.user = requests[c.request].to
                          /\ c.pair = <<c.user, requests[c.request].from>>
                          /\ c.op = "accept" /\ c.at # 1 => Of(c.pair) \in accepted
    BY DEF AnswersKnown
  <2>1. CASE g = h
    BY <1>1, <2>1 DEF Sends, Deletes, Answers
  <2>2. CASE g # h
    BY <1>1, <2>2 DEF AnswersKnown
  <2> QED
    BY <2>1, <2>2
<1>5. RowsHeld'
  <2> SUFFICES ASSUME NEW g \in FriendHandlers
               PROVE  LET c == friendHandler'[g]
                      IN  /\ ~Transacts(g)' \/ c.at = 2 => DOMAIN writes[g] = {}
                          /\ Transacts(g)' /\ c.at = 3 => DOMAIN writes[g] \subseteq {c.pair}
                          /\ Transacts(g)' => DOMAIN writes[g] \subseteq {c.pair, Rev(c.pair)}
                          /\ \A p \in DOMAIN writes[g] :
                               /\ c.op = "accept" => writes[g][p] = "live" /\ friends[p] = "none"
                               /\ c.op = "delete" => writes[g][p] = "deleted" /\ friends[p] = "live"
    BY DEF RowsHeld
  <2>1. CASE g = h
    BY <1>2, <2>1
  <2>2. CASE g # h
    BY <1>1, <1>2, <2>2 DEF RowsHeld
  <2> QED
    BY <2>1, <2>2
<1>6. HeldOnce'
  BY DEF HeldOnce
<1>7. RacesSeen'
  <2>1. ASSUME NEW f \in FriendHandlers, NEW g \in FriendHandlers,
               Handles(f, "accept")', Handles(g, "delete")',
               Of(friendHandler'[f].pair) = Of(friendHandler'[g].pair)
        PROVE  <<"friends", Of(friendHandler'[f].pair)>> \in raced'
    <3>1. f # g
      BY <2>1 DEF Handles
    <3>2. CASE f # h /\ g # h
      BY <1>1, <2>1, <3>2 DEF RacesSeen, Handles, Raced
    <3>3. ASSUME NEW k \in FriendHandlers, {r.op, friendHandler[k].op} = {"accept", "delete"},
                 Of(friendHandler[k].pair) = Of(r.pair)
          PROVE  <<"friends", Of(r.pair)>> \in raced'
      <4>1. friendHandler[k].pair \in Pairs
        BY <1>2, <3>3, CallKinds DEF FriendsTyping, NoCall
      <4>2. friendHandler[k].pair \in {r.pair, Rev(r.pair)}
        BY <1>2, <3>3, <4>1, PairFacts
      <4> QED
        BY <3>3, <4>2, BeginEffect DEF FriendsTyping
    <3>4. CASE f = h
      <4>1. friendHandler'[f] = r /\ friendHandler'[g] = friendHandler[g]
        BY <1>1, <3>1, <3>4
      <4>2. {r.op, friendHandler[g].op} = {"accept", "delete"}
        BY <2>1, <4>1 DEF Handles
      <4> QED
        BY <2>1, <3>3, <4>1, <4>2
    <3>5. CASE g = h
      <4>1. friendHandler'[g] = r /\ friendHandler'[f] = friendHandler[f]
        BY <1>1, <3>1, <3>5
      <4>2. {r.op, friendHandler[f].op} = {"accept", "delete"}
        BY <2>1, <4>1 DEF Handles
      <4> QED
        BY <2>1, <3>3, <4>1, <4>2
    <3> QED
      BY <3>2, <3>4, <3>5
  <2>2. ASSUME NEW f \in FriendHandlers, NEW g \in FriendHandlers,
               Handles(f, "send")', Handles(g, "send")', f # g,
               friendHandler'[f].pair = friendHandler'[g].pair
        PROVE  <<"send", friendHandler'[f].pair>> \in raced'
    <3>1. CASE f # h /\ g # h
      BY <1>1, <2>2, <3>1 DEF RacesSeen, Handles
    <3>2. CASE f = h
      <4>1. friendHandler'[f] = r /\ friendHandler'[g] = friendHandler[g]
        BY <1>1, <2>2, <3>2
      <4>2. r.op = "send" /\ Handles(g, "send") /\ friendHandler[g].pair = r.pair
        BY <2>2, <4>1 DEF Handles
      <4>3. <<"send", r.pair>> \in raced'
        BY <4>2, BeginEffect DEF FriendsTyping
      <4> QED
        BY <2>2, <4>1, <4>3
    <3>3. CASE g = h
      <4>1. friendHandler'[g] = r /\ friendHandler'[f] = friendHandler[f]
        BY <1>1, <2>2, <3>3
      <4>2. r.op = "send" /\ Handles(f, "send") /\ friendHandler[f].pair = r.pair
        BY <2>2, <4>1 DEF Handles
      <4>3. <<"send", r.pair>> \in raced'
        BY <4>2, BeginEffect DEF FriendsTyping
      <4> QED
        BY <2>2, <4>1, <4>3
    <3> QED
      BY <3>1, <3>2, <3>3
  <2> QED
    BY <2>1, <2>2 DEF RacesSeen, Raced
<1>8. BothOrNeither'
  <2> SUFFICES ASSUME NEW g \in FriendHandlers, Transacts(g)', ~Raced(friendHandler[g].pair)'
               PROVE  LET c == friendHandler'[g]
                      IN  /\ c.at = 3 /\ c.op = "accept" =>
                               c.pair \in DOMAIN writes[g] \/ friends[c.pair] # "none"
                          /\ c.at = 3 /\ c.op = "delete" =>
                               c.pair \in DOMAIN writes[g] \/ friends[c.pair] # "live"
                          /\ c.at = 4 =>
                               DOMAIN writes[g] = {} \/ DOMAIN writes[g] = {c.pair, Rev(c.pair)}
    BY DEF BothOrNeither
  <2>1. CASE g = h
    BY <1>1, <1>2, <2>1
  <2>2. CASE g # h
    <3>1. Transacts(g) /\ ~Raced(friendHandler[g].pair) /\ friendHandler'[g] = friendHandler[g]
      BY <1>1, <1>2, <2>2 DEF Raced
    <3> QED
      BY <3>1 DEF BothOrNeither
  <2> QED
    BY <2>1, <2>2
<1>9. PendingSeen'
  <2>1. \A p \in Pairs : Pending(p[1], p[2])' = Pending(p[1], p[2])
    BY DEF Pending
  <2>2. \A g \in FriendHandlers :
          Handles(g, "send")' /\ friendHandler'[g].at = 2 => g # h /\ friendHandler'[g] = friendHandler[g]
    BY <1>1 DEF Handles, Sends, Answers, Deletes
  <2> QED
    BY <1>1, <2>1, <2>2 DEF PendingSeen, Handles
<1>10. FriendsWereAccepted' /\ MutualUnlessRaced'
  BY <1>1 DEF FriendsWereAccepted, MutualUnlessRaced
<1> QED
  BY <1>3, <1>4, <1>5, <1>6, <1>7, <1>8, <1>9, <1>10

(* What the parts of the invariant need of a step to be kept. *)

LEMMA RacesKept ==
  ASSUME RacesSeen, raced' = raced,
         \A g \in FriendHandlers :
           \/ friendHandler'[g] = NoCall
           \/ /\ friendHandler'[g].op = friendHandler[g].op
              /\ friendHandler'[g].pair = friendHandler[g].pair
  PROVE  RacesSeen'
<1>1. ASSUME NEW g \in FriendHandlers, NEW op \in {"send", "accept", "delete"}, Handles(g, op)'
      PROVE  Handles(g, op) /\ friendHandler'[g].pair = friendHandler[g].pair
  BY <1>1 DEF Handles, NoCall
<1> QED
  BY <1>1 DEF RacesSeen, Raced

LEMMA AnswersKept ==
  ASSUME AnswersKnown, accepted \subseteq accepted', DOMAIN requests \subseteq DOMAIN requests',
         \A i \in DOMAIN requests :
           requests'[i].from = requests[i].from /\ requests'[i].to = requests[i].to,
         \A g \in FriendHandlers :
           friendHandler'[g] \in Answers =>
             LET c == friendHandler[g]
                 d == friendHandler'[g]
             IN  /\ c \in Answers /\ d.op = c.op /\ d.pair = c.pair
                 /\ d.request = c.request /\ d.user = c.user
                 /\ d.op = "accept" /\ d.at # 1 => c.at # 1 \/ Of(c.pair) \in accepted'
  PROVE  AnswersKnown'
<1> SUFFICES ASSUME NEW g \in FriendHandlers, friendHandler'[g] \in Answers
             PROVE  LET d == friendHandler'[g]
                    IN  /\ d.request \in DOMAIN requests'
                        /\ d.user = requests'[d.request].to
                        /\ d.pair = <<d.user, requests'[d.request].from>>
                        /\ d.op = "accept" /\ d.at # 1 => Of(d.pair) \in accepted'
  BY DEF AnswersKnown
<1> DEFINE c == friendHandler[g]
<1>1. /\ c.request \in DOMAIN requests
      /\ c.user = requests[c.request].to
      /\ c.pair = <<c.user, requests[c.request].from>>
      /\ c.op = "accept" /\ c.at # 1 => Of(c.pair) \in accepted
  BY DEF AnswersKnown
<1> QED
  BY <1>1

LEMMA PendingKept ==
  ASSUME PendingSeen, raced' = raced,
         \A p \in Pairs : Pending(p[1], p[2])' \subseteq Pending(p[1], p[2]),
         \A g \in FriendHandlers :
           Handles(g, "send")' /\ friendHandler'[g].at = 2 => friendHandler'[g] = friendHandler[g]
  PROVE  PendingSeen'
<1> SUFFICES ASSUME NEW p \in Pairs, <<"send", p>> \notin raced
             PROVE  /\ \A i, j \in Pending(p[1], p[2])' : i = j
                    /\ \A g \in FriendHandlers :
                         Handles(g, "send")' /\ friendHandler'[g].pair = p
                           /\ friendHandler'[g].at = 2 => Pending(p[1], p[2])' = {}
  BY DEF PendingSeen
<1>1. \A i, j \in Pending(p[1], p[2])' : i = j
  BY DEF PendingSeen
<1>2. ASSUME NEW g \in FriendHandlers, Handles(g, "send")', friendHandler'[g].pair = p,
             friendHandler'[g].at = 2
      PROVE  Pending(p[1], p[2])' = {}
  <2>1. friendHandler'[g] = friendHandler[g]
    BY <1>2
  <2>2. Pending(p[1], p[2]) = {}
    BY <1>2, <2>1 DEF PendingSeen, Handles
  <2> QED
    BY <2>2
<1> QED
  BY <1>1, <1>2

\* The other transactions, when a handler's rows and its place change but not what
\* is committed.
LEMMA RowsKept ==
  ASSUME FriendsInv, NEW h \in FriendHandlers, friends' = friends, raced' = raced,
         \A g \in FriendHandlers \ {h} :
           friendHandler'[g] = friendHandler[g] /\ writes'[g] = writes[g],
         \A p \in DOMAIN writes'[h] : \A g \in FriendHandlers \ {h} : p \notin DOMAIN writes[g],
         LET c == friendHandler'[h]
         IN  /\ ~Transacts(h)' \/ c.at = 2 => DOMAIN writes'[h] = {}
             /\ Transacts(h)' /\ c.at = 3 => DOMAIN writes'[h] \subseteq {c.pair}
             /\ Transacts(h)' => DOMAIN writes'[h] \subseteq {c.pair, Rev(c.pair)}
             /\ \A p \in DOMAIN writes'[h] :
                  /\ c.op = "accept" => writes'[h][p] = "live" /\ friends[p] = "none"
                  /\ c.op = "delete" => writes'[h][p] = "deleted" /\ friends[p] = "live"
             /\ Transacts(h)' /\ ~Raced(c.pair) =>
                  /\ c.at = 3 /\ c.op = "accept" =>
                       c.pair \in DOMAIN writes'[h] \/ friends[c.pair] # "none"
                  /\ c.at = 3 /\ c.op = "delete" =>
                       c.pair \in DOMAIN writes'[h] \/ friends[c.pair] # "live"
                  /\ c.at = 4 => DOMAIN writes'[h] = {} \/ DOMAIN writes'[h] = {c.pair, Rev(c.pair)}
  PROVE  RowsHeld' /\ HeldOnce' /\ BothOrNeither'
<1>1. RowsHeld /\ HeldOnce /\ BothOrNeither
  BY DEF FriendsInv
<1>2. \A g \in FriendHandlers \ {h} : Transacts(g)' <=> Transacts(g)
  BY DEF Transacts
<1>3. RowsHeld'
  <2> SUFFICES ASSUME NEW g \in FriendHandlers
               PROVE  LET c == friendHandler'[g]
                      IN  /\ ~Transacts(g)' \/ c.at = 2 => DOMAIN writes'[g] = {}
                          /\ Transacts(g)' /\ c.at = 3 => DOMAIN writes'[g] \subseteq {c.pair}
                          /\ Transacts(g)' => DOMAIN writes'[g] \subseteq {c.pair, Rev(c.pair)}
                          /\ \A p \in DOMAIN writes'[g] :
                               /\ c.op = "accept" => writes'[g][p] = "live" /\ friends[p] = "none"
                               /\ c.op = "delete" => writes'[g][p] = "deleted" /\ friends[p] = "live"
    BY DEF RowsHeld
  <2>1. CASE g = h
    BY <2>1
  <2>2. CASE g # h
    BY <1>1, <1>2, <2>2 DEF RowsHeld
  <2> QED
    BY <2>1, <2>2
<1>4. HeldOnce'
  <2> SUFFICES ASSUME NEW f \in FriendHandlers, NEW g \in FriendHandlers,
                      NEW p \in DOMAIN writes'[f], p \in DOMAIN writes'[g]
               PROVE  f = g
    BY DEF HeldOnce
  <2>1. CASE f # h /\ g # h
    BY <1>1, <2>1 DEF HeldOnce
  <2>2. CASE f = h \/ g = h
    BY <2>2
  <2> QED
    BY <2>1, <2>2
<1>5. BothOrNeither'
  <2> SUFFICES ASSUME NEW g \in FriendHandlers, Transacts(g)', ~Raced(friendHandler[g].pair)'
               PROVE  LET c == friendHandler'[g]
                      IN  /\ c.at = 3 /\ c.op = "accept" =>
                               c.pair \in DOMAIN writes'[g] \/ friends[c.pair] # "none"
                          /\ c.at = 3 /\ c.op = "delete" =>
                               c.pair \in DOMAIN writes'[g] \/ friends[c.pair] # "live"
                          /\ c.at = 4 =>
                               DOMAIN writes'[g] = {} \/ DOMAIN writes'[g] = {c.pair, Rev(c.pair)}
    BY DEF BothOrNeither
  <2>0. ~Raced(friendHandler'[g].pair)
    BY DEF Raced
  <2>1. CASE g = h
    BY <2>0, <2>1
  <2>2. CASE g # h
    BY <1>1, <1>2, <2>0, <2>2 DEF BothOrNeither
  <2> QED
    BY <2>1, <2>2
<1> QED
  BY <1>3, <1>4, <1>5

-----------------------------------------------------------------------------
\* A handler is done, with nothing left of what it wrote.
LEMMA EndInv ==
  ASSUME FriendsInv, NEW h \in FriendHandlers, GoesTo(h, NoCall),
         writes' \in [FriendHandlers -> Rows], DOMAIN writes'[h] = {},
         \A g \in FriendHandlers \ {h} : writes'[g] = writes[g],
         UNCHANGED <<requests, friends, accepted, raced>>
  PROVE  FriendsInv'
<1>1. /\ HandlersTyped' /\ friendHandler'[h] = NoCall
      /\ \A g \in FriendHandlers \ {h} : friendHandler'[g] = friendHandler[g]
  BY GoesToEffect DEF FriendsInv, FriendsTyping
<1>2. ~Transacts(h)' /\ NoCall \notin Answers /\ NoCall.op = "idle"
  BY <1>1 DEF Transacts, NoCall, Answers
<1>3. FriendsTyping'
  BY <1>1 DEF FriendsInv, FriendsTyping
<1>4. AnswersKnown'
  <2>1. \A g \in FriendHandlers : friendHandler'[g] \in Answers => friendHandler'[g] = friendHandler[g]
    BY <1>1, <1>2
  <2> QED
    BY <2>1, AnswersKept DEF FriendsInv
<1>5. RowsHeld' /\ HeldOnce' /\ BothOrNeither'
  BY <1>1, <1>2, RowsKept
<1>6. RacesSeen'
  BY <1>1, RacesKept DEF FriendsInv
<1>7. PendingSeen'
  <2>1. \A p \in Pairs : Pending(p[1], p[2])' = Pending(p[1], p[2])
    BY DEF Pending
  <2>2. \A g \in FriendHandlers : Handles(g, "send")' => friendHandler'[g] = friendHandler[g]
    BY <1>1, <1>2 DEF Handles
  <2> QED
    BY <2>1, <2>2, PendingKept DEF FriendsInv
<1>8. FriendsWereAccepted' /\ MutualUnlessRaced'
  BY DEF FriendsInv, FriendsWereAccepted, MutualUnlessRaced
<1> QED
  BY <1>3, <1>4, <1>5, <1>6, <1>7, <1>8 DEF FriendsInv

LEMMA FailInv ==
  ASSUME FriendsInv, NEW h \in FriendHandlers, SQLFails(h) PROVE FriendsInv'
<1>1. FriendsTyping /\ writes' = [writes EXCEPT ![h] = NoWrites]
  BY DEF FriendsInv, SQLFails
<1> QED
  BY <1>1, DropEffect, EndInv DEF SQLFails

\* Nothing is pending, and the handler goes on to insert.
LEMMA GetPendingInv ==
  ASSUME FriendsInv, NEW h \in FriendHandlers, SendGetPending(h) PROVE FriendsInv'
<1> DEFINE p == friendHandler[h].pair
<1>0. /\ friendHandler[h].op = "send" /\ friendHandler[h].at = 1
      /\ IF Pending(p[1], p[2]) = {} THEN Onward(h) ELSE GoesTo(h, NoCall)
      /\ UNCHANGED <<requests, friends, writes, accepted, raced>>
  BY DEF SendGetPending, At
<1>1. ~Transacts(h) /\ DOMAIN writes[h] = {}
  BY <1>0 DEF Transacts, FriendsInv, RowsHeld
<1>2. CASE Pending(p[1], p[2]) # {}
  <2>1. writes' \in [FriendHandlers -> Rows]
    BY <1>0 DEF FriendsInv, FriendsTyping
  <2> QED
    BY <1>0, <1>1, <1>2, <2>1, EndInv
<1>3. CASE Pending(p[1], p[2]) = {}
  <2>1. /\ HandlersTyped' /\ friendHandler'[h].op = "send" /\ friendHandler'[h].at = 2
        /\ friendHandler'[h].pair = p
        /\ \A g \in FriendHandlers \ {h} : friendHandler'[g] = friendHandler[g]
    BY <1>0, <1>3, OnwardEffect DEF FriendsInv, FriendsTyping
  <2>2. friendHandler'[h] \notin Answers /\ ~Transacts(h)'
    BY <2>1 DEF Answers, Transacts
  <2>3. FriendsTyping'
    BY <1>0, <2>1 DEF FriendsInv, FriendsTyping
  <2>4. AnswersKnown'
    <3>1. \A g \in FriendHandlers :
            friendHandler'[g] \in Answers => friendHandler'[g] = friendHandler[g]
      BY <2>1, <2>2
    <3> QED
      BY <1>0, <3>1, AnswersKept DEF FriendsInv
  <2>5. RowsHeld' /\ HeldOnce' /\ BothOrNeither'
    <3>1. DOMAIN writes'[h] = {} /\ \A g \in FriendHandlers : writes'[g] = writes[g]
      BY <1>0, <1>1
    <3> QED
      BY <1>0, <2>1, <2>2, <3>1, RowsKept
  <2>6. RacesSeen'
    BY <1>0, <2>1, RacesKept DEF FriendsInv
  <2>7. PendingSeen'
    <3>1. \A q \in Pairs : Pending(q[1], q[2])' = Pending(q[1], q[2])
      BY <1>0 DEF Pending
    <3>2. ASSUME NEW q \in Pairs, <<"send", q>> \notin raced, NEW g \in FriendHandlers,
                 Handles(g, "send")', friendHandler'[g].pair = q, friendHandler'[g].at = 2
          PROVE  Pending(q[1], q[2]) = {}
      <4>1. CASE g = h
        BY <1>3, <2>1, <3>2, <4>1
      <4>2. CASE g # h
        BY <2>1, <3>2, <4>2 DEF FriendsInv, PendingSeen, Handles
      <4> QED
        BY <4>1, <4>2
    <3> QED
      BY <1>0, <3>1, <3>2 DEF FriendsInv, PendingSeen
  <2>8. FriendsWereAccepted' /\ MutualUnlessRaced'
    BY <1>0 DEF FriendsInv, FriendsWereAccepted, MutualUnlessRaced
  <2> QED
    BY <2>3, <2>4, <2>5, <2>6, <2>7, <2>8 DEF FriendsInv
<1> QED
  BY <1>2, <1>3

\* A row of friend_requests is appended.
LEMMA CreateRequestInv ==
  ASSUME FriendsInv, NEW h \in FriendHandlers, CreateRequest(h) PROVE FriendsInv'
<1> DEFINE p == friendHandler[h].pair
           n == Len(requests)
           row == [from |-> p[1], to |-> p[2], status |-> "pending"]
<1>0. /\ friendHandler[h].op = "send" /\ friendHandler[h].at = 2
      /\ requests' = Append(requests, row) /\ GoesTo(h, NoCall)
      /\ UNCHANGED <<friends, writes, accepted, raced>>
  BY DEF CreateRequest, At
<1>1. p \in Pairs /\ ~Transacts(h) /\ DOMAIN writes[h] = {}
  <2>1. p \in Pairs
    BY <1>0, CallKinds DEF FriendsInv, FriendsTyping, Sends
  <2> QED
    BY <1>0, <2>1 DEF Transacts, FriendsInv, RowsHeld
<1>2. /\ HandlersTyped' /\ friendHandler'[h] = NoCall
      /\ \A g \in FriendHandlers \ {h} : friendHandler'[g] = friendHandler[g]
  BY <1>0, GoesToEffect DEF FriendsInv, FriendsTyping
<1>3. ~Transacts(h)' /\ NoCall \notin Answers /\ NoCall.op = "idle"
  BY <1>2 DEF Transacts, NoCall, Answers
<1>4. /\ requests' \in Seq(Request) /\ n \in Nat
      /\ DOMAIN requests = 1 .. n /\ DOMAIN requests' = 1 .. n + 1
      /\ \A i \in 1 .. n : requests'[i] = requests[i]
      /\ requests'[n + 1] = row
  <2>1. row \in Request /\ requests \in Seq(Request)
    BY <1>1, PairFacts DEF Request, FriendsInv, FriendsTyping
  <2>2. n \in Nat /\ DOMAIN requests = 1 .. n
    BY <2>1, LenProperties
  <2>3. /\ requests' \in Seq(Request) /\ Len(requests') = n + 1
        /\ \A i \in 1 .. n : requests'[i] = requests[i]
        /\ requests'[n + 1] = row
    BY <1>0, <2>1, AppendProperties
  <2>4. DOMAIN requests' = 1 .. n + 1
    BY <2>3, LenProperties
  <2> QED
    BY <2>2, <2>3, <2>4
<1>5. FriendsTyping'
  <2>1. ASSUME NEW i \in DOMAIN requests' PROVE requests'[i].from # requests'[i].to
    <3>1. i \in 1 .. n \/ i = n + 1
      BY <1>4
    <3> QED
      BY <1>1, <1>4, <3>1, PairFacts DEF FriendsInv, FriendsTyping
  <2> QED
    BY <1>0, <1>2, <1>4, <2>1 DEF FriendsInv, FriendsTyping
<1>6. AnswersKnown'
  <2>1. \A g \in FriendHandlers : friendHandler'[g] \in Answers => friendHandler'[g] = friendHandler[g]
    BY <1>2, <1>3
  <2>2. DOMAIN requests \subseteq DOMAIN requests' /\ \A i \in DOMAIN requests : requests'[i] = requests[i]
    BY <1>4
  <2> QED
    BY <1>0, <2>1, <2>2, AnswersKept DEF FriendsInv
<1>7. RowsHeld' /\ HeldOnce' /\ BothOrNeither'
  <2>1. DOMAIN writes'[h] = {} /\ \A g \in FriendHandlers : writes'[g] = writes[g]
    BY <1>0, <1>1
  <2> QED
    BY <1>0, <1>2, <1>3, <2>1, RowsKept
<1>8. RacesSeen'
  BY <1>0, <1>2, RacesKept DEF FriendsInv
<1>9. PendingSeen'
  <2> SUFFICES ASSUME NEW q \in Pairs, <<"send", q>> \notin raced
               PROVE  /\ \A i, j \in Pending(q[1], q[2])' : i = j
                      /\ \A g \in FriendHandlers :
                           Handles(g, "send")' /\ friendHandler'[g].pair = q
                             /\ friendHandler'[g].at = 2 => Pending(q[1], q[2])' = {}
    BY <1>0 DEF PendingSeen
  <2>1. CASE q = p
    <3>1. Pending(q[1], q[2]) = {}
      BY <1>0, <2>1 DEF FriendsInv, PendingSeen, Handles
    <3>2. Pending(q[1], q[2])' \subseteq {n + 1}
      <4>1. \A i \in DOMAIN requests' : i \in 1 .. n \/ i = n + 1
        BY <1>4
      <4> QED
        BY <1>4, <3>1, <4>1 DEF Pending
    <3>3. ASSUME NEW g \in FriendHandlers, Handles(g, "send")', friendHandler'[g].pair = q
          PROVE  FALSE
      <4>1. g # h /\ friendHandler'[g] = friendHandler[g]
        BY <1>2, <1>3, <3>3 DEF Handles
      <4>2. Handles(g, "send") /\ Handles(h, "send") /\ friendHandler[g].pair = p
        BY <1>0, <2>1, <3>3, <4>1 DEF Handles
      <4> QED
        BY <2>1, <4>1, <4>2 DEF FriendsInv, RacesSeen
    <3> QED
      BY <3>2, <3>3
  <2>2. CASE q # p
    <3>1. Pending(q[1], q[2])' \subseteq Pending(q[1], q[2])
      <4>1. \A i \in DOMAIN requests' : i \in 1 .. n \/ i = n + 1
        BY <1>4
      <4>2. ~(row.from = q[1] /\ row.to = q[2])
        BY <1>1, <2>2, PairFacts
      <4> QED
        BY <1>4, <4>1, <4>2 DEF Pending
    <3>2. \A g \in FriendHandlers : Handles(g, "send")' => friendHandler'[g] = friendHandler[g]
      BY <1>2, <1>3 DEF Handles
    <3>3. \A g \in FriendHandlers :
            Handles(g, "send")' /\ friendHandler'[g].pair = q /\ friendHandler'[g].at = 2
              => Pending(q[1], q[2]) = {}
      BY <3>2 DEF FriendsInv, PendingSeen, Handles
    <3> QED
      BY <3>1, <3>3 DEF FriendsInv, PendingSeen
  <2> QED
    BY <2>1, <2>2
<1>10. FriendsWereAccepted' /\ MutualUnlessRaced'
  BY <1>0 DEF FriendsInv, FriendsWereAccepted, MutualUnlessRaced
<1> QED
  BY <1>5, <1>6, <1>7, <1>8, <1>9, <1>10 DEF FriendsInv

\* A statement of CreateFriendship: the row is written if there is none.
LEMMA InsertFriendInv ==
  ASSUME FriendsInv, NEW h \in FriendHandlers, InsertFriend(h) PROVE FriendsInv'
<1> DEFINE p == friendHandler[h].pair
           n == friendHandler[h].at
           row == Row(h)
           held == DOMAIN writes[h]
<1>0. /\ friendHandler[h].op = "accept" /\ n \in {2, 3}
      /\ IF friends[row] = "none" THEN WriteRow(h, row, "live") ELSE UNCHANGED writes
      /\ Onward(h)
      /\ UNCHANGED <<requests, friends, accepted, raced>>
  BY DEF InsertFriend
<1>1. p \in Pairs /\ Transacts(h)
  <2>1. Transacts(h)
    BY <1>0 DEF Transacts
  <2> QED
    BY <2>1, TransactKinds DEF FriendsInv, FriendsTyping
<1>2. row = IF n = 2 THEN p ELSE Rev(p)
  BY <1>0 DEF Row, Both, Rev
<1>3. row \in Pairs /\ Rev(p) \in Pairs /\ Rev(p) # p
  BY <1>1, <1>2, PairFacts
<1>4. /\ HandlersTyped' /\ friendHandler'[h].op = "accept" /\ friendHandler'[h].at = n + 1
      /\ friendHandler'[h].pair = p
      /\ \A g \in FriendHandlers \ {h} : friendHandler'[g] = friendHandler[g]
      /\ friendHandler'[h].request = friendHandler[h].request
      /\ friendHandler'[h].user = friendHandler[h].user
  BY <1>0, OnwardEffect DEF FriendsInv, FriendsTyping
<1>5. FriendsTyping /\ RowsHeld /\ HeldOnce /\ BothOrNeither /\ MutualUnlessRaced
  BY DEF FriendsInv
\* Nobody else holds a row that is written.
<1>6. ASSUME friends[row] = "none", NEW g \in FriendHandlers \ {h} PROVE row \notin DOMAIN writes[g]
  <2>1. SUFFICES ASSUME row \in DOMAIN writes[g] PROVE FALSE
    OBVIOUS
  <2>2. writes[g][row] # "live"
    BY <2>1 DEF InsertFriend, Written
  <2>3. Transacts(g) /\ friendHandler[g].op \in {"accept", "delete"}
    BY <1>5, <2>1 DEF RowsHeld, Transacts
  <2> QED
    BY <1>5, <1>6, <2>1, <2>2, <2>3 DEF RowsHeld
<1>7. /\ writes' \in [FriendHandlers -> Rows]
      /\ \A g \in FriendHandlers \ {h} : writes'[g] = writes[g]
      /\ friends[row] = "none" => /\ DOMAIN writes'[h] = held \cup {row} /\ writes'[h][row] = "live"
                                 /\ \A q \in held : q # row => writes'[h][q] = writes[h][q]
      /\ friends[row] # "none" => writes' = writes
  <2>1. "live" \in RowStates
    BY DEF RowStates
  <2>2. CASE friends[row] = "none"
    BY <1>0, <1>3, <1>5, <2>1, <2>2, WriteEffect
  <2>3. CASE friends[row] # "none"
    BY <1>0, <1>5, <2>3 DEF FriendsTyping
  <2> QED
    BY <2>2, <2>3
<1>8. FriendsTyping'
  BY <1>0, <1>4, <1>5, <1>7 DEF FriendsTyping
<1>9. AnswersKnown'
  <2>1. friendHandler[h] \in Answers
    BY <1>0, <1>5, CallKinds DEF FriendsTyping
  <2> QED
    BY <1>0, <1>4, <2>1, AnswersKept DEF FriendsInv
<1>10. RowsHeld' /\ HeldOnce' /\ BothOrNeither'
  <2>1. Transacts(h)'
    BY <1>0, <1>4 DEF Transacts
  <2>2. /\ n = 2 => held = {}
        /\ held \subseteq {p}
        /\ \A q \in held : writes[h][q] = "live" /\ friends[q] = "none"
    BY <1>0, <1>1, <1>5 DEF RowsHeld
  <2>3. \A q \in DOMAIN writes'[h] : \A g \in FriendHandlers \ {h} : q \notin DOMAIN writes[g]
    BY <1>5, <1>6, <1>7 DEF HeldOnce
  <2>4. \A q \in DOMAIN writes'[h] : writes'[h][q] = "live" /\ friends[q] = "none"
    BY <1>7, <2>2
  <2>5. n = 2 => /\ DOMAIN writes'[h] \subseteq {p}
                 /\ p \in DOMAIN writes'[h] \/ friends[p] # "none"
    BY <1>2, <1>7, <2>2
  <2>6. DOMAIN writes'[h] \subseteq {p, Rev(p)}
    BY <1>2, <1>7, <2>2
  <2>7. ASSUME n = 3, ~Raced(p) PROVE DOMAIN writes'[h] = {} \/ DOMAIN writes'[h] = {p, Rev(p)}
    <3>1. friends[p] = friends[row]
      BY <1>1, <1>2, <2>7 DEF FriendsInv, MutualUnlessRaced, Raced, Of, Rev
    <3>2. p \in held \/ friends[p] # "none"
      BY <1>0, <1>1, <1>5, <2>7 DEF BothOrNeither
    <3>3. CASE friends[row] = "none"
      <4>1. held = {p}
        BY <2>2, <3>1, <3>2, <3>3
      <4> QED
        BY <1>2, <1>7, <2>7, <3>3, <4>1
    <3>4. CASE friends[row] # "none"
      <4>1. held = {}
        BY <2>2, <3>1, <3>4
      <4> QED
        BY <1>7, <3>4, <4>1
    <3> QED
      BY <3>3, <3>4
  <2>8. n = 2 \/ n = 3
    BY <1>0
  <2>9. \A g \in FriendHandlers \ {h} : friendHandler'[g] = friendHandler[g] /\ writes'[g] = writes[g]
    BY <1>4, <1>7
  <2>10. LET c == friendHandler'[h]
         IN  /\ ~Transacts(h)' \/ c.at = 2 => DOMAIN writes'[h] = {}
             /\ Transacts(h)' /\ c.at = 3 => DOMAIN writes'[h] \subseteq {c.pair}
             /\ Transacts(h)' => DOMAIN writes'[h] \subseteq {c.pair, Rev(c.pair)}
             /\ \A q \in DOMAIN writes'[h] :
                  /\ c.op = "accept" => writes'[h][q] = "live" /\ friends[q] = "none"
                  /\ c.op = "delete" => writes'[h][q] = "deleted" /\ friends[q] = "live"
             /\ Transacts(h)' /\ ~Raced(c.pair) =>
                  /\ c.at = 3 /\ c.op = "accept" =>
                       c.pair \in DOMAIN writes'[h] \/ friends[c.pair] # "none"
                  /\ c.at = 3 /\ c.op = "delete" =>
                       c.pair \in DOMAIN writes'[h] \/ friends[c.pair] # "live"
                  /\ c.at = 4 => DOMAIN writes'[h] = {} \/ DOMAIN writes'[h] = {c.pair, Rev(c.pair)}
    BY <1>4, <2>1, <2>4, <2>5, <2>6, <2>7, <2>8
  <2> QED
    BY <1>0, <2>3, <2>9, <2>10, RowsKept
<1>11. RacesSeen'
  <2>1. \A g \in FriendHandlers :
          /\ friendHandler'[g].op = friendHandler[g].op
          /\ friendHandler'[g].pair = friendHandler[g].pair
    BY <1>0, <1>4
  <2> QED
    BY <1>0, <2>1, RacesKept DEF FriendsInv
<1>12. PendingSeen'
  <2>1. \A q \in Pairs : Pending(q[1], q[2])' = Pending(q[1], q[2])
    BY <1>0 DEF Pending
  <2>2. \A g \in FriendHandlers : Handles(g, "send")' => friendHandler'[g] = friendHandler[g]
    BY <1>4 DEF Handles
  <2> QED
    BY <1>0, <2>1, <2>2, PendingKept DEF FriendsInv
<1>13. FriendsWereAccepted' /\ MutualUnlessRaced'
  BY <1>0 DEF FriendsInv, FriendsWereAccepted, MutualUnlessRaced
<1> QED
  BY <1>8, <1>9, <1>10, <1>11, <1>12, <1>13 DEF FriendsInv

\* A statement of DeleteFriendship: the row is written if it is live.
LEMMA UpdateDeletedInv ==
  ASSUME FriendsInv, NEW h \in FriendHandlers, UpdateDeleted(h) PROVE FriendsInv'
<1> DEFINE p == friendHandler[h].pair
           n == friendHandler[h].at
           row == Row(h)
           held == DOMAIN writes[h]
<1>0. /\ friendHandler[h].op = "delete" /\ n \in {2, 3}
      /\ IF friends[row] = "live" THEN WriteRow(h, row, "deleted") ELSE UNCHANGED writes
      /\ Onward(h)
      /\ UNCHANGED <<requests, friends, accepted, raced>>
  BY DEF UpdateDeleted, DeletedRow
<1>1. p \in Pairs /\ Transacts(h)
  <2>1. Transacts(h)
    BY <1>0 DEF Transacts
  <2> QED
    BY <2>1, TransactKinds DEF FriendsInv, FriendsTyping
<1>2. row = IF n = 2 THEN p ELSE Rev(p)
  BY <1>0 DEF Row, Both, Rev
<1>3. row \in Pairs /\ Rev(p) \in Pairs /\ Rev(p) # p
  BY <1>1, <1>2, PairFacts
<1>4. /\ HandlersTyped' /\ friendHandler'[h].op = "delete" /\ friendHandler'[h].at = n + 1
      /\ friendHandler'[h].pair = p
      /\ \A g \in FriendHandlers \ {h} : friendHandler'[g] = friendHandler[g]
  BY <1>0, OnwardEffect DEF FriendsInv, FriendsTyping
<1>5. FriendsTyping /\ RowsHeld /\ HeldOnce /\ BothOrNeither /\ MutualUnlessRaced
  BY DEF FriendsInv
\* Nobody else holds a row that is written.
<1>6. ASSUME friends[row] = "live", NEW g \in FriendHandlers \ {h} PROVE row \notin DOMAIN writes[g]
  BY <1>6 DEF UpdateDeleted, DeletedRow, Written
<1>7. /\ writes' \in [FriendHandlers -> Rows]
      /\ \A g \in FriendHandlers \ {h} : writes'[g] = writes[g]
      /\ friends[row] = "live" => /\ DOMAIN writes'[h] = held \cup {row} /\ writes'[h][row] = "deleted"
                                 /\ \A q \in held : q # row => writes'[h][q] = writes[h][q]
      /\ friends[row] # "live" => writes' = writes
  <2>1. "deleted" \in RowStates
    BY DEF RowStates
  <2>2. CASE friends[row] = "live"
    BY <1>0, <1>3, <1>5, <2>1, <2>2, WriteEffect
  <2>3. CASE friends[row] # "live"
    BY <1>0, <1>5, <2>3 DEF FriendsTyping
  <2> QED
    BY <2>2, <2>3
<1>8. FriendsTyping'
  BY <1>0, <1>4, <1>5, <1>7 DEF FriendsTyping
<1>9. AnswersKnown'
  <2>1. \A g \in FriendHandlers : friendHandler'[g] \in Answers => friendHandler'[g] = friendHandler[g]
    BY <1>4 DEF Answers
  <2> QED
    BY <1>0, <2>1, AnswersKept DEF FriendsInv
<1>10. RowsHeld' /\ HeldOnce' /\ BothOrNeither'
  <2>1. Transacts(h)'
    BY <1>0, <1>4 DEF Transacts
  <2>2. /\ n = 2 => held = {}
        /\ held \subseteq {p}
        /\ \A q \in held : writes[h][q] = "deleted" /\ friends[q] = "live"
    BY <1>0, <1>1, <1>5 DEF RowsHeld
  <2>3. \A q \in DOMAIN writes'[h] : \A g \in FriendHandlers \ {h} : q \notin DOMAIN writes[g]
    BY <1>5, <1>6, <1>7 DEF HeldOnce
  <2>4. \A q \in DOMAIN writes'[h] : writes'[h][q] = "deleted" /\ friends[q] = "live"
    BY <1>7, <2>2
  <2>5. n = 2 => /\ DOMAIN writes'[h] \subseteq {p}
                 /\ p \in DOMAIN writes'[h] \/ friends[p] # "live"
    BY <1>2, <1>7, <2>2
  <2>6. DOMAIN writes'[h] \subseteq {p, Rev(p)}
    BY <1>2, <1>7, <2>2
  <2>7. ASSUME n = 3, ~Raced(p) PROVE DOMAIN writes'[h] = {} \/ DOMAIN writes'[h] = {p, Rev(p)}
    <3>1. friends[p] = friends[row]
      BY <1>1, <1>2, <2>7 DEF FriendsInv, MutualUnlessRaced, Raced, Of, Rev
    <3>2. p \in held \/ friends[p] # "live"
      BY <1>0, <1>1, <1>5, <2>7 DEF BothOrNeither
    <3>3. CASE friends[row] = "live"
      <4>1. held = {p}
        BY <2>2, <3>1, <3>2, <3>3
      <4> QED
        BY <1>2, <1>7, <2>7, <3>3, <4>1
    <3>4. CASE friends[row] # "live"
      <4>1. held = {}
        BY <2>2, <3>1, <3>4
      <4> QED
        BY <1>7, <3>4, <4>1
    <3> QED
      BY <3>3, <3>4
  <2>8. n = 2 \/ n = 3
    BY <1>0
  <2>9. \A g \in FriendHandlers \ {h} : friendHandler'[g] = friendHandler[g] /\ writes'[g] = writes[g]
    BY <1>4, <1>7
  <2>10. LET c == friendHandler'[h]
         IN  /\ ~Transacts(h)' \/ c.at = 2 => DOMAIN writes'[h] = {}
             /\ Transacts(h)' /\ c.at = 3 => DOMAIN writes'[h] \subseteq {c.pair}
             /\ Transacts(h)' => DOMAIN writes'[h] \subseteq {c.pair, Rev(c.pair)}
             /\ \A q \in DOMAIN writes'[h] :
                  /\ c.op = "accept" => writes'[h][q] = "live" /\ friends[q] = "none"
                  /\ c.op = "delete" => writes'[h][q] = "deleted" /\ friends[q] = "live"
             /\ Transacts(h)' /\ ~Raced(c.pair) =>
                  /\ c.at = 3 /\ c.op = "accept" =>
                       c.pair \in DOMAIN writes'[h] \/ friends[c.pair] # "none"
                  /\ c.at = 3 /\ c.op = "delete" =>
                       c.pair \in DOMAIN writes'[h] \/ friends[c.pair] # "live"
                  /\ c.at = 4 => DOMAIN writes'[h] = {} \/ DOMAIN writes'[h] = {c.pair, Rev(c.pair)}
    BY <1>4, <2>1, <2>4, <2>5, <2>6, <2>7, <2>8
  <2> QED
    BY <1>0, <2>3, <2>9, <2>10, RowsKept
<1>11. RacesSeen'
  <2>1. \A g \in FriendHandlers :
          /\ friendHandler'[g].op = friendHandler[g].op
          /\ friendHandler'[g].pair = friendHandler[g].pair
    BY <1>0, <1>4
  <2> QED
    BY <1>0, <2>1, RacesKept DEF FriendsInv
<1>12. PendingSeen'
  <2>1. \A q \in Pairs : Pending(q[1], q[2])' = Pending(q[1], q[2])
    BY <1>0 DEF Pending
  <2>2. \A g \in FriendHandlers : Handles(g, "send")' => friendHandler'[g] = friendHandler[g]
    BY <1>4 DEF Handles
  <2> QED
    BY <1>0, <2>1, <2>2, PendingKept DEF FriendsInv
<1>13. FriendsWereAccepted' /\ MutualUnlessRaced'
  BY <1>0 DEF FriendsInv, FriendsWereAccepted, MutualUnlessRaced
<1> QED
  BY <1>8, <1>9, <1>10, <1>11, <1>12, <1>13 DEF FriendsInv

\* A request is answered; an accepted one is so before its friendship is written.
LEMMA UpdateStatusInv ==
  ASSUME FriendsInv, NEW h \in FriendHandlers, UpdateRequestStatus(h) PROVE FriendsInv'
<1> DEFINE c == friendHandler[h]
           i == c.request
           status == IF c.op = "accept" THEN "accepted" ELSE "rejected"
           changed == [requests[i] EXCEPT !.status = status]
<1>0. /\ c.op \in {"accept", "reject"} /\ c.at = 1
      /\ requests' = [requests EXCEPT ![i].status = status]
      /\ accepted' = IF c.op = "accept" /\ c.user = requests[i].to
                     THEN accepted \cup {{requests[i].from, requests[i].to}} ELSE accepted
      /\ IF c.op = "accept" THEN Onward(h) ELSE GoesTo(h, NoCall)
      /\ UNCHANGED <<friends, writes, raced>>
  BY DEF UpdateRequestStatus
<1>1. c \in Answers /\ ~Transacts(h) /\ DOMAIN writes[h] = {}
  <2>1. c \in Answers
    BY <1>0, CallKinds DEF FriendsInv, FriendsTyping
  <2> QED
    BY <1>0, <2>1 DEF Transacts, FriendsInv, RowsHeld
<1>2. i \in DOMAIN requests /\ c.user = requests[i].to /\ c.pair = <<c.user, requests[i].from>>
  BY <1>1 DEF FriendsInv, AnswersKnown
<1>3. /\ requests \in Seq(Request) /\ i \in 1 .. Len(requests)
      /\ DOMAIN requests = 1 .. Len(requests) /\ requests[i] \in Request
  <2>1. requests \in Seq(Request)
    BY DEF FriendsInv, FriendsTyping
  <2>2. DOMAIN requests = 1 .. Len(requests)
    BY <2>1, LenProperties
  <2> QED
    BY <1>2, <2>1, <2>2, ElementOfSeq
<1>4. /\ changed \in Request /\ changed.status # "pending"
      /\ changed.from = requests[i].from /\ changed.to = requests[i].to
  BY <1>3 DEF Request
<1>5. /\ requests' \in Seq(Request) /\ DOMAIN requests' = DOMAIN requests
      /\ \A j \in DOMAIN requests : requests'[j] = IF j = i THEN changed ELSE requests[j]
  <2>1. requests' = [requests EXCEPT ![i] = changed]
    BY <1>0
  <2>2. /\ requests' \in Seq(Request) /\ Len(requests') = Len(requests)
        /\ \A j \in 1 .. Len(requests) : requests'[j] = IF j = i THEN changed ELSE requests[j]
    BY <1>3, <1>4, <2>1, ExceptSeq
  <2>3. DOMAIN requests' = 1 .. Len(requests')
    BY <2>2, LenProperties
  <2> QED
    BY <1>3, <2>2, <2>3
<1>6. /\ HandlersTyped'
      /\ \A g \in FriendHandlers \ {h} : friendHandler'[g] = friendHandler[g]
      /\ \/ friendHandler'[h] = NoCall
         \/ /\ friendHandler'[h].op = "accept" /\ friendHandler'[h].at = 2 /\ c.op = "accept"
            /\ friendHandler'[h].pair = c.pair /\ friendHandler'[h].request = i
            /\ friendHandler'[h].user = c.user
  <2>0. HandlersTyped
    BY DEF FriendsInv, FriendsTyping
  <2>1. ASSUME c.op = "accept"
        PROVE  /\ HandlersTyped'
               /\ friendHandler'[h].op = "accept" /\ friendHandler'[h].at = 2
               /\ friendHandler'[h].pair = c.pair /\ friendHandler'[h].request = i
               /\ friendHandler'[h].user = c.user
               /\ \A g \in FriendHandlers \ {h} : friendHandler'[g] = friendHandler[g]
    <3>1. Onward(h) /\ c.at \in {1, 2, 3} /\ c.at + 1 = 2
      BY <1>0, <2>1
    <3> QED
      BY <2>0, <2>1, <3>1, OnwardEffect
  <2>2. ASSUME c.op # "accept"
        PROVE  /\ HandlersTyped' /\ friendHandler'[h] = NoCall
               /\ \A g \in FriendHandlers \ {h} : friendHandler'[g] = friendHandler[g]
    <3>1. GoesTo(h, NoCall)
      BY <1>0, <2>2
    <3> QED
      BY <2>0, <3>1, GoesToEffect
  <2>3. CASE c.op = "accept"
    BY <2>1, <2>3
  <2>4. CASE c.op # "accept"
    BY <2>2, <2>4
  <2> QED
    BY <2>3, <2>4
<1>7. FriendsTyping'
  <2>1. \A j \in DOMAIN requests' : requests'[j].from # requests'[j].to
    <3>1. \A j \in DOMAIN requests : requests[j].from # requests[j].to
      BY DEF FriendsInv, FriendsTyping
    <3> HIDE DEF changed
    <3>2. ASSUME NEW j \in DOMAIN requests' PROVE requests'[j].from # requests'[j].to
      <4>1. j \in DOMAIN requests
        BY <1>5
      <4>2. CASE j = i
        BY <1>4, <1>5, <3>1, <4>1, <4>2
      <4>3. CASE j # i
        BY <1>5, <3>1, <4>1, <4>3
      <4> QED
        BY <4>2, <4>3
    <3> QED
      BY <3>2
  <2>2. friends' \in [Pairs -> RowStates] /\ writes' \in [FriendHandlers -> Rows]
    BY <1>0 DEF FriendsInv, FriendsTyping
  <2>3. requests' \in Seq(Request) /\ HandlersTyped'
    BY <1>5, <1>6
  <2> QED
    BY <2>1, <2>2, <2>3 DEF FriendsTyping
<1>8. AnswersKnown'
  <2>1. accepted \subseteq accepted'
    BY <1>0
  <2>2. c.op = "accept" => Of(c.pair) \in accepted'
    BY <1>0, <1>2 DEF Of
  <2>3. \A j \in DOMAIN requests :
          requests'[j].from = requests[j].from /\ requests'[j].to = requests[j].to
    BY <1>4, <1>5
  <2>4. ASSUME NEW g \in FriendHandlers, friendHandler'[g] \in Answers
        PROVE  LET b == friendHandler[g]
                   d == friendHandler'[g]
               IN  /\ b \in Answers /\ d.op = b.op /\ d.pair = b.pair
                   /\ d.request = b.request /\ d.user = b.user
                   /\ d.op = "accept" /\ d.at # 1 => b.at # 1 \/ Of(b.pair) \in accepted'
    <3>1. NoCall \notin Answers
      BY DEF NoCall, Answers
    <3>2. CASE g = h
      BY <1>1, <1>6, <2>2, <2>4, <3>1, <3>2
    <3>3. CASE g # h
      BY <1>6, <2>4, <3>3
    <3> QED
      BY <3>2, <3>3
  <2> QED
    BY <1>5, <2>1, <2>3, <2>4, AnswersKept DEF FriendsInv
<1>9. RowsHeld' /\ HeldOnce' /\ BothOrNeither'
  <2>1. DOMAIN writes'[h] = {} /\ \A g \in FriendHandlers : writes'[g] = writes[g]
    BY <1>0, <1>1
  <2>2. ~Transacts(h)' \/ friendHandler'[h].at = 2
    BY <1>6 DEF Transacts, NoCall
  <2> QED
    BY <1>0, <1>6, <2>1, <2>2, RowsKept
<1>10. RacesSeen'
  <2>1. \A g \in FriendHandlers :
          \/ friendHandler'[g] = NoCall
          \/ /\ friendHandler'[g].op = friendHandler[g].op
             /\ friendHandler'[g].pair = friendHandler[g].pair
    BY <1>6
  <2> QED
    BY <1>0, <2>1, RacesKept DEF FriendsInv
<1>11. PendingSeen'
  <2>1. \A q \in Pairs : Pending(q[1], q[2])' \subseteq Pending(q[1], q[2])
    BY <1>4, <1>5 DEF Pending
  <2>2. \A g \in FriendHandlers : Handles(g, "send")' => friendHandler'[g] = friendHandler[g]
    BY <1>6 DEF Handles, NoCall
  <2> QED
    BY <1>0, <2>1, <2>2, PendingKept DEF FriendsInv
<1>12. FriendsWereAccepted' /\ MutualUnlessRaced'
  BY <1>0 DEF FriendsInv, FriendsWereAccepted, MutualUnlessRaced
<1> QED
  BY <1>7, <1>8, <1>9, <1>10, <1>11, <1>12 DEF FriendsInv

\* A transaction is committed: its rows are what all see, and no other
\* transaction loses what it rests on.
LEMMA CommitInv ==
  ASSUME FriendsInv, NEW h \in FriendHandlers, Commit(h) PROVE FriendsInv'
<1> DEFINE c == friendHandler[h]
           W == DOMAIN writes[h]
<1>0. /\ c.op \in {"accept", "delete"} /\ c.at = 4
      /\ friends' = [p \in Pairs |-> IF p \in W THEN writes[h][p] ELSE friends[p]]
      /\ writes' = [writes EXCEPT ![h] = NoWrites] /\ GoesTo(h, NoCall)
      /\ UNCHANGED <<requests, accepted, raced>>
  BY DEF Commit
<1>1. /\ FriendsTyping /\ AnswersKnown /\ RowsHeld /\ HeldOnce
      /\ RacesSeen /\ BothOrNeither /\ PendingSeen
      /\ FriendsWereAccepted /\ MutualUnlessRaced
  BY DEF FriendsInv
<1>2. /\ HandlersTyped' /\ friendHandler'[h] = NoCall
      /\ \A g \in FriendHandlers \ {h} : friendHandler'[g] = friendHandler[g]
  BY <1>0, <1>1, GoesToEffect DEF FriendsTyping
<1>3. /\ writes' \in [FriendHandlers -> Rows] /\ DOMAIN writes'[h] = {}
      /\ \A g \in FriendHandlers \ {h} : writes'[g] = writes[g]
  BY <1>0, <1>1, DropEffect
<1>4. Transacts(h) /\ c.pair \in Pairs
  <2>1. Transacts(h)
    BY <1>0 DEF Transacts
  <2> QED
    BY <1>1, <2>1, TransactKinds DEF FriendsTyping
<1>5. /\ W \subseteq {c.pair, Rev(c.pair)}
      /\ \A p \in W : /\ c.op = "accept" => writes[h][p] = "live" /\ friends[p] = "none"
                      /\ c.op = "delete" => writes[h][p] = "deleted" /\ friends[p] = "live"
      /\ \A p \in W : p \in Pairs /\ Of(p) = Of(c.pair)
  <2>1. W \subseteq {c.pair, Rev(c.pair)}
    BY <1>1, <1>4 DEF RowsHeld
  <2> QED
    BY <1>1, <1>4, <2>1, PairFacts DEF RowsHeld
<1>6. ~Transacts(h)' /\ NoCall \notin Answers /\ NoCall.op = "idle"
  BY <1>2 DEF Transacts, NoCall, Answers
<1>7. FriendsTyping'
  <2>1. \A p \in W : writes[h][p] \in RowStates
    BY <1>0, <1>5 DEF RowStates
  <2>2. friends' \in [Pairs -> RowStates]
    BY <1>0, <1>1, <2>1 DEF FriendsTyping
  <2> QED
    BY <1>0, <1>1, <1>2, <1>3, <2>2 DEF FriendsTyping
<1>8. AnswersKnown'
  <2>1. \A g \in FriendHandlers : friendHandler'[g] \in Answers => friendHandler'[g] = friendHandler[g]
    BY <1>2, <1>6
  <2> QED
    BY <1>0, <1>1, <2>1, AnswersKept
\* What the others have written is not touched.
<1>9. ASSUME NEW g \in FriendHandlers, NEW p \in DOMAIN writes'[g]
      PROVE  g # h /\ p \in DOMAIN writes[g] /\ friends'[p] = friends[p]
  <2>1. g # h /\ p \in DOMAIN writes[g]
    BY <1>3, <1>9
  <2>2. p \notin W
    BY <1>1, <2>1 DEF HeldOnce
  <2>3. Transacts(g) /\ p \in {friendHandler[g].pair, Rev(friendHandler[g].pair)}
    BY <1>1, <2>1 DEF RowsHeld
  <2>4. p \in Pairs
    BY <1>1, <2>3, TransactKinds, PairFacts DEF FriendsTyping
  <2> QED
    BY <1>0, <2>1, <2>2, <2>4
<1>10. \A g \in FriendHandlers \ {h} : Transacts(g)' <=> Transacts(g)
  BY <1>2 DEF Transacts
<1>11. RowsHeld'
  <2> SUFFICES ASSUME NEW g \in FriendHandlers
               PROVE  LET d == friendHandler'[g]
                      IN  /\ ~Transacts(g)' \/ d.at = 2 => DOMAIN writes'[g] = {}
                          /\ Transacts(g)' /\ d.at = 3 => DOMAIN writes'[g] \subseteq {d.pair}
                          /\ Transacts(g)' => DOMAIN writes'[g] \subseteq {d.pair, Rev(d.pair)}
                          /\ \A p \in DOMAIN writes'[g] :
                               /\ d.op = "accept" => writes'[g][p] = "live" /\ friends'[p] = "none"
                               /\ d.op = "delete" => writes'[g][p] = "deleted" /\ friends'[p] = "live"
    BY DEF RowsHeld
  <2>1. CASE g = h
    BY <1>3, <1>6, <2>1
  <2>2. CASE g # h
    <3>1. friendHandler'[g] = friendHandler[g] /\ writes'[g] = writes[g] /\ (Transacts(g)' <=> Transacts(g))
      BY <1>2, <1>3, <1>10, <2>2
    <3>2. \A p \in DOMAIN writes'[g] : friends'[p] = friends[p]
      BY <1>9
    <3> QED
      BY <1>1, <3>1, <3>2 DEF RowsHeld
  <2> QED
    BY <2>1, <2>2
<1>12. HeldOnce'
  <2> SUFFICES ASSUME NEW f \in FriendHandlers, NEW g \in FriendHandlers,
                      NEW p \in DOMAIN writes'[f], p \in DOMAIN writes'[g]
               PROVE  f = g
    BY DEF HeldOnce
  <2> QED
    BY <1>1, <1>9 DEF HeldOnce
<1>13. RacesSeen'
  BY <1>0, <1>1, <1>2, RacesKept
<1>14. BothOrNeither'
  <2> SUFFICES ASSUME NEW g \in FriendHandlers, Transacts(g)', ~Raced(friendHandler[g].pair)'
               PROVE  LET d == friendHandler'[g]
                      IN  /\ d.at = 3 /\ d.op = "accept" =>
                               d.pair \in DOMAIN writes'[g] \/ friends'[d.pair] # "none"
                          /\ d.at = 3 /\ d.op = "delete" =>
                               d.pair \in DOMAIN writes'[g] \/ friends'[d.pair] # "live"
                          /\ d.at = 4 =>
                               DOMAIN writes'[g] = {} \/ DOMAIN writes'[g] = {d.pair, Rev(d.pair)}
    BY DEF BothOrNeither
  <2> DEFINE d == friendHandler[g]
  <2>1. /\ g # h /\ friendHandler'[g] = d /\ writes'[g] = writes[g] /\ Transacts(g)
        /\ d.pair \in Pairs
    <3>1. g # h
      BY <1>6
    <3>2. Transacts(g) /\ friendHandler'[g] = d /\ writes'[g] = writes[g]
      BY <1>2, <1>3, <1>10, <3>1
    <3> QED
      BY <1>1, <3>1, <3>2, TransactKinds DEF FriendsTyping
  <2>2. ~Raced(d.pair)
    BY <1>0, <2>1 DEF Raced
  <2>3. ASSUME d.at = 3, d.op = "accept", d.pair \notin DOMAIN writes[g]
        PROVE  friends'[d.pair] # "none"
    <3>1. friends[d.pair] # "none"
      BY <1>1, <2>1, <2>2, <2>3 DEF BothOrNeither
    <3>2. friends'[d.pair] \in {friends[d.pair], "live", "deleted"}
      BY <1>0, <1>5, <2>1
    <3> QED
      BY <3>1, <3>2
  <2>4. ASSUME d.at = 3, d.op = "delete", d.pair \notin DOMAIN writes[g]
        PROVE  friends'[d.pair] # "live"
    <3>1. friends[d.pair] # "live"
      BY <1>1, <2>1, <2>2, <2>4 DEF BothOrNeither
    <3>2. CASE d.pair \notin W
      BY <1>0, <2>1, <3>1, <3>2
    <3>3. CASE d.pair \in W
      <4>1. Of(c.pair) = Of(d.pair)
        BY <1>5, <3>3
      <4>2. c.op # "accept"
        <5>1. ASSUME c.op = "accept" PROVE Raced(c.pair)
          BY <1>1, <2>4, <4>1, <5>1 DEF RacesSeen, Handles
        <5> QED
          BY <2>2, <4>1, <5>1 DEF Raced
      <4> QED
        BY <1>0, <1>5, <3>1, <3>3, <4>2
    <3> QED
      BY <3>2, <3>3
  <2>5. d.at = 4 => DOMAIN writes[g] = {} \/ DOMAIN writes[g] = {d.pair, Rev(d.pair)}
    BY <1>1, <2>1, <2>2 DEF BothOrNeither
  <2> QED
    BY <2>1, <2>3, <2>4, <2>5
<1>15. PendingSeen'
  <2>1. \A q \in Pairs : Pending(q[1], q[2])' = Pending(q[1], q[2])
    BY <1>0 DEF Pending
  <2>2. \A g \in FriendHandlers : Handles(g, "send")' => friendHandler'[g] = friendHandler[g]
    BY <1>2, <1>6 DEF Handles
  <2> QED
    BY <1>0, <1>1, <2>1, <2>2, PendingKept
<1>16. FriendsWereAccepted'
  <2> SUFFICES ASSUME NEW p \in Pairs, friends'[p] # "none" PROVE {p[1], p[2]} \in accepted
    BY <1>0 DEF FriendsWereAccepted
  <2>1. CASE p \notin W
    BY <1>0, <1>1, <2>1 DEF FriendsWereAccepted
  <2>2. CASE p \in W /\ c.op = "delete"
    BY <1>1, <1>5, <2>2 DEF FriendsWereAccepted
  <2>3. CASE p \in W /\ c.op = "accept"
    <3>1. c \in Answers
      BY <1>1, <2>3, CallKinds DEF FriendsTyping
    <3>2. Of(c.pair) \in accepted
      BY <1>0, <1>1, <2>3, <3>1 DEF AnswersKnown
    <3> QED
      BY <1>5, <2>3, <3>2 DEF Of
  <2> QED
    BY <1>0, <2>1, <2>2, <2>3
<1>17. MutualUnlessRaced'
  <2> SUFFICES ASSUME NEW p \in Pairs, ~Raced(p) PROVE friends'[p] = friends'[Rev(p)]
    BY <1>0 DEF MutualUnlessRaced, Raced, Of, Rev
  <2>1. Rev(p) \in Pairs /\ friends[p] = friends[Rev(p)] /\ Of(Rev(p)) = Of(p) /\ Rev(Rev(p)) = p
    BY <1>1, PairFacts DEF MutualUnlessRaced, Raced, Of, Rev
  <2>2. ASSUME W # {}, Of(c.pair) = Of(p) PROVE p \in W /\ Rev(p) \in W
    <3>1. W = {c.pair, Rev(c.pair)}
      BY <1>0, <1>1, <1>4, <2>2 DEF BothOrNeither, Raced
    <3>2. c.pair \in {p, Rev(p)}
      BY <1>4, <2>2, PairFacts
    <3>3. CASE c.pair = p
      BY <3>1, <3>3
    <3>4. CASE c.pair = Rev(p)
      BY <2>1, <3>1, <3>4
    <3> QED
      BY <3>2, <3>3, <3>4
  <2>3. p \in W <=> Rev(p) \in W
    BY <1>5, <2>1, <2>2
  <2>4. CASE p \in W
    BY <1>0, <1>5, <2>1, <2>3, <2>4
  <2>5. CASE p \notin W
    BY <1>0, <2>1, <2>3, <2>5
  <2> QED
    BY <2>4, <2>5
<1> QED
  BY <1>7, <1>8, <1>11, <1>12, <1>13, <1>14, <1>15, <1>16, <1>17 DEF FriendsInv

LEMMA FriendsNextInv ==
  ASSUME FriendsInv, [FriendsNext]_friendsVars PROVE FriendsInv'
<1>1. ASSUME NEW h \in FriendHandlers, SendIsFriend(h) PROVE FriendsInv'
  <2>1. PICK p \in Pairs : Begin(h, [op |-> "send", at |-> 1, pair |-> p])
    BY <1>1 DEF SendIsFriend
  <2> DEFINE r == [op |-> "send", at |-> 1, pair |-> p]
  <2>2. r \in Sends /\ r \in FriendCalls /\ r.at = 1
    BY DEF Sends, FriendCalls
  <2>3. UNCHANGED <<requests, friends, writes, accepted>>
    BY <1>1 DEF SendIsFriend
  <2> QED
    BY <2>1, <2>2, <2>3, BeginInv
<1>2. ASSUME NEW h \in FriendHandlers, Answer(h) PROVE FriendsInv'
  <2>1. PICK u \in Users, i \in DOMAIN requests, op \in {"accept", "reject"} :
          /\ MayAnswer(u, i)
          /\ Begin(h, [op |-> op, at |-> 1, request |-> i, user |-> u,
                       pair |-> <<u, requests[i].from>>])
    BY <1>2 DEF Answer
  <2> DEFINE r == [op |-> op, at |-> 1, request |-> i, user |-> u, pair |-> <<u, requests[i].from>>]
  <2>2. UNCHANGED <<requests, friends, writes, accepted>>
    BY <1>2 DEF Answer
  <2>3. requests \in Seq(Request) /\ requests[i].from # requests[i].to
    BY DEF FriendsInv, FriendsTyping
  <2>4. i \in Nat /\ requests[i] \in Request
    <3>1. DOMAIN requests = 1 .. Len(requests) /\ Len(requests) \in Nat
      BY <2>3, LenProperties
    <3> QED
      BY <2>3, <3>1, ElementOfSeq
  <2>5. r.pair \in Pairs /\ u = requests[i].to
    BY <2>1, <2>3, <2>4 DEF MayAnswer, Pairs, Request
  <2>6. r \in Answers /\ r \in FriendCalls
    BY <2>4, <2>5 DEF Answers, FriendCalls
  <2>7. r.at = 1 /\ r.request = i /\ r.user = u
    OBVIOUS
  <2> QED
    BY <2>1, <2>2, <2>5, <2>6, <2>7, BeginInv
<1>3. ASSUME NEW h \in FriendHandlers, DeleteFriend(h) PROVE FriendsInv'
  <2>1. PICK p \in Pairs : Begin(h, [op |-> "delete", at |-> 2, pair |-> p])
    BY <1>3 DEF DeleteFriend
  <2> DEFINE r == [op |-> "delete", at |-> 2, pair |-> p]
  <2>2. r \in Deletes /\ r \in FriendCalls /\ r.at = 2
    BY DEF Deletes, FriendCalls
  <2>3. UNCHANGED <<requests, friends, writes, accepted>>
    BY <1>3 DEF DeleteFriend
  <2> QED
    BY <2>1, <2>2, <2>3, BeginInv
<1>4. CASE UNCHANGED friendsVars
  <2> USE <1>4 DEF friendsVars
  <2>1. FriendsTyping' /\ AnswersKnown'
    BY DEF FriendsInv, FriendsTyping, HandlersTyped, AnswersKnown
  <2>2. RowsHeld' /\ HeldOnce' /\ BothOrNeither'
    BY DEF FriendsInv, RowsHeld, HeldOnce, BothOrNeither, Transacts, Raced
  <2>3. RacesSeen' /\ PendingSeen'
    BY DEF FriendsInv, RacesSeen, PendingSeen, Handles, Raced, Pending
  <2>4. FriendsWereAccepted' /\ MutualUnlessRaced'
    BY DEF FriendsInv, FriendsWereAccepted, MutualUnlessRaced
  <2> QED
    BY <2>1, <2>2, <2>3, <2>4 DEF FriendsInv
<1> QED
  BY <1>1, <1>2, <1>3, <1>4, GetPendingInv, CreateRequestInv, UpdateStatusInv, InsertFriendInv,
     UpdateDeletedInv, CommitInv, FailInv DEF FriendsNext

\* Nobody gets a friend without a request that was accepted; friendship is mutual
\* unless an accept and a delete of the pair overlapped; a request is pending once
\* unless two sends overlapped (service/friend.go).
THEOREM FriendsSound == FriendsSpec => []FriendshipSound
<1>1. FriendsInv => FriendshipSound
  <2>1. ASSUME PendingSeen PROVE PendingOnceUnlessRaced
    <3> SUFFICES ASSUME NEW p \in Pairs, <<"send", p>> \notin raced
                 PROVE  Cardinality(Pending(p[1], p[2])) <= 1
      BY DEF PendingOnceUnlessRaced
    <3>1. \A i, j \in Pending(p[1], p[2]) : i = j
      BY <2>1 DEF PendingSeen
    <3>2. CASE Pending(p[1], p[2]) = {}
      BY <3>2, FS_EmptySet
    <3>3. CASE Pending(p[1], p[2]) # {}
      <4>1. PICK i : Pending(p[1], p[2]) = {i}
        BY <3>1, <3>3
      <4>2. Cardinality({i}) = 1
        BY FS_Singleton
      <4> QED
        BY <4>1, <4>2
    <3> QED
      BY <3>2, <3>3
  <2> QED
    BY <2>1 DEF FriendsInv, FriendshipSound
<1> QED
  BY <1>1, FriendsInitInv, FriendsNextInv, PTL DEF FriendsSpec

-----------------------------------------------------------------------------
(* The inductive invariant of Accounts. *)

LoginPcs == {"getOld", "delOld", "save"}
TokenStates ==
  [pc : {"getOld", "save"}, token : Tokens] \cup [pc : {"delOld"}, token : Tokens, old : Tokens]
    \cup [pc : {"renew", "logout"}, token : Tokens, logout : BOOLEAN]
HandlerStates == {Idle} \cup [pc : {"create"}, name : Names] \cup TokenStates

\* Who logs in with a key.
LogsIn(h, k) == handler[h].pc \in LoginPcs /\ Key(handler[h].token) = k

\* The tokens of its key that a login has still to delete, once it knows.
ToDelete(h) == IF handler[h].pc = "delOld" THEN {handler[h].old} ELSE {}

AccountsTyped ==
  /\ AccountsTypeOK
  /\ handler \in [Handlers -> HandlerStates]
  /\ \A k \in Names \X Platforms : userToken[k] # None => userToken[k] \in [token : Tokens, exp : Nat]

\* What user:token:{k} is for the good tokens of k, with one login at a time: it
\* names the only one, and does not expire before it.
Named(k) ==
  \A t \in DOMAIN tokenInfo : Key(t) = k =>
    /\ userToken[k] # None /\ userToken[k].token = t
    /\ userToken[k].exp >= tokenInfo[t]

OneLogin(k) ==
  \A h \in Handlers : LogsIn(h, k) =>
    /\ \A g \in Handlers : LogsIn(g, k) => g = h
    /\ handler[h].pc # "getOld" => \A t \in DOMAIN tokenInfo : Key(t) = k => t \in ToDelete(h)

AccountsInv ==
  /\ AccountsTyped
  /\ loggedOut \cap DOMAIN tokenInfo = {}
  /\ \A k \in (Names \X Platforms) \ overlapped : Named(k) /\ OneLogin(k)

LEMMA KeyTyped ==
  ASSUME NEW t \in Tokens
  PROVE  Key(t) \in Names \X Platforms
BY DEF Tokens, Key

LEMMA AccountsInvGood ==
  ASSUME AccountsInv
  PROVE  AccountsTypeOK /\ GoodTokens
<1>1. AccountsTypeOK
  BY DEF AccountsInv, AccountsTyped
<1>2. ASSUME NEW t \in DOMAIN tokenInfo, Key(t) \notin overlapped
      PROVE  userToken[Key(t)] # None /\ userToken[Key(t)].token = t
  <2>1. Key(t) \in (Names \X Platforms) \ overlapped
    BY <1>1, <1>2, KeyTyped DEF AccountsTypeOK
  <2> QED
    BY <2>1 DEF AccountsInv, Named
<1> QED
  BY <1>1, <1>2 DEF GoodTokens, AccountsInv

LEMMA HandlerStateFacts ==
  ASSUME NEW s \in HandlerStates
  PROVE  /\ s.pc \in LoginPcs \cup {"idle", "create", "renew", "logout"}
         /\ s.pc = "create" => s.name \in Names
         /\ s.pc \in LoginPcs \cup {"renew", "logout"} => s.token \in Tokens
         /\ s.pc = "delOld" => s.old \in Tokens
         /\ s.pc = "renew" => [s EXCEPT !.pc = "logout"] \in HandlerStates
<1>1. CASE s = Idle
  BY <1>1 DEF Idle, LoginPcs
<1>2. CASE s \in [pc : {"create"}, name : Names]
  BY <1>2 DEF LoginPcs
<1>3. CASE s \in [pc : {"getOld", "save"}, token : Tokens]
  BY <1>3 DEF LoginPcs
<1>4. CASE s \in [pc : {"delOld"}, token : Tokens, old : Tokens]
  BY <1>4 DEF LoginPcs
<1>5. CASE s \in [pc : {"renew", "logout"}, token : Tokens, logout : BOOLEAN]
  <2>1. [s EXCEPT !.pc = "logout"] \in [pc : {"renew", "logout"}, token : Tokens, logout : BOOLEAN]
    BY <1>5
  <2> QED
    BY <1>5, <2>1 DEF LoginPcs, HandlerStates, TokenStates
<1> QED
  BY <1>1, <1>2, <1>3, <1>4, <1>5 DEF HandlerStates, TokenStates

LEMMA StepTyped ==
  ASSUME AccountsInv, NEW h \in Handlers, NEW r \in HandlerStates, NEW out \in SUBSET Tokens,
         Step(h, r, out)
  PROVE  /\ handler' \in [Handlers -> HandlerStates]
         /\ handler'[h] = r
         /\ \A g \in Handlers \ {h} : handler'[g] = handler[g]
         /\ loggedOut' \subseteq loggedOut \cup out
         /\ loggedOut' \subseteq Tokens
BY DEF AccountsInv, AccountsTyped, AccountsTypeOK, Step

\* A step that ends or begins no login, and takes at most its own token out.
LEMMA QuietStep ==
  ASSUME AccountsInv, NEW h \in Handlers, NEW r \in HandlerStates, NEW out \in SUBSET Tokens,
         Step(h, r, out), r.pc \notin LoginPcs,
         now' = now, accounts' \in [Names -> 0 .. 1], UNCHANGED <<userToken, overlapped>>,
         tokenInfo' = Restrict(tokenInfo, DOMAIN tokenInfo \ out)
         \/ (out = {} /\ tokenInfo' = tokenInfo)
  PROVE  AccountsInv'
<1>1. /\ handler' \in [Handlers -> HandlerStates]
      /\ handler'[h] = r
      /\ \A g \in Handlers \ {h} : handler'[g] = handler[g]
      /\ loggedOut' \subseteq loggedOut \cup out
      /\ loggedOut' \subseteq Tokens
  BY StepTyped
<1>2. /\ DOMAIN tokenInfo' = DOMAIN tokenInfo \ out
      /\ \A t \in DOMAIN tokenInfo' : tokenInfo'[t] = tokenInfo[t]
  BY DEF Restrict
<1>3. AccountsTyped'
  BY <1>1, <1>2 DEF AccountsInv, AccountsTyped, AccountsTypeOK
<1>4. (loggedOut \cap DOMAIN tokenInfo = {})'
  BY <1>1, <1>2 DEF AccountsInv
<1>5. ASSUME NEW k \in (Names \X Platforms) \ overlapped PROVE Named(k)' /\ OneLogin(k)'
  <2>1. Named(k) /\ OneLogin(k)
    BY <1>5 DEF AccountsInv
  <2>2. Named(k)'
    BY <1>2, <2>1 DEF Named
  <2>3. \A g \in Handlers : LogsIn(g, k)' => g # h /\ LogsIn(g, k)
    BY <1>1 DEF LogsIn
  <2>4. \A g \in Handlers : g # h => ToDelete(g)' = ToDelete(g)
    BY <1>1 DEF ToDelete
  <2> QED
    BY <1>1, <1>2, <2>1, <2>2, <2>3, <2>4 DEF OneLogin
<1> QED
  BY <1>3, <1>4, <1>5 DEF AccountsInv

\* A login goes on: what Redis knows only shrinks, and after its GET the login
\* knows all it has to delete.
LEMMA LoginStep ==
  ASSUME AccountsInv, NEW h \in Handlers, NEW r \in HandlerStates, Goes(h, r),
         handler[h].pc \in LoginPcs, r.pc \in LoginPcs, r.token = handler[h].token,
         UNCHANGED <<now, accounts, userToken, overlapped>>,
         DOMAIN tokenInfo' \subseteq DOMAIN tokenInfo,
         \A t \in DOMAIN tokenInfo' : tokenInfo'[t] = tokenInfo[t],
         Key(r.token) \notin overlapped /\ r.pc # "getOld" =>
           \A t \in DOMAIN tokenInfo' :
             Key(t) = Key(r.token) => r.pc = "delOld" /\ t = r.old
  PROVE  AccountsInv'
<1>1. /\ handler' \in [Handlers -> HandlerStates]
      /\ handler'[h] = r
      /\ \A g \in Handlers \ {h} : handler'[g] = handler[g]
      /\ loggedOut' \subseteq loggedOut
      /\ loggedOut' \subseteq Tokens
  <2>1. Step(h, r, {}) /\ {} \in SUBSET Tokens
    BY DEF Goes
  <2> QED
    BY <2>1, StepTyped
<1>3. AccountsTyped'
  BY <1>1 DEF AccountsInv, AccountsTyped, AccountsTypeOK
<1>4. (loggedOut \cap DOMAIN tokenInfo = {})'
  BY <1>1 DEF AccountsInv
<1>5. ASSUME NEW k \in (Names \X Platforms) \ overlapped PROVE Named(k)' /\ OneLogin(k)'
  <2>1. Named(k) /\ OneLogin(k)
    BY <1>5 DEF AccountsInv
  <2>2. Named(k)'
    BY <2>1 DEF Named
  <2>3. \A g \in Handlers : LogsIn(g, k)' <=> LogsIn(g, k)
    BY <1>1 DEF LogsIn
  <2>4. \A g \in Handlers : g # h => ToDelete(g)' = ToDelete(g)
    BY <1>1 DEF ToDelete
  <2>5. ASSUME LogsIn(h, k), r.pc # "getOld", NEW t \in DOMAIN tokenInfo', Key(t) = k
        PROVE  t \in ToDelete(h)'
    BY <1>1, <2>5 DEF ToDelete, LogsIn
  <2> QED
    BY <1>1, <2>1, <2>2, <2>3, <2>4, <2>5 DEF OneLogin
<1> QED
  BY <1>3, <1>4, <1>5 DEF AccountsInv

LEMMA RegisterKeeps ==
  ASSUME AccountsInv, NEW h \in Handlers, RegisterCheck(h) \/ RegisterCreate(h)
  PROVE  AccountsInv'
<1>1. CASE RegisterCheck(h)
  <2>1. PICK n \in Names : Goes(h, [pc |-> "create", name |-> n])
    BY <1>1 DEF RegisterCheck
  <2> DEFINE r == [pc |-> "create", name |-> n]
  <2>2. r \in HandlerStates /\ r.pc \notin LoginPcs
    BY DEF HandlerStates, LoginPcs
  <2>3. Step(h, r, {}) /\ {} \in SUBSET Tokens
    BY <2>1 DEF Goes
  <2>4. accounts' \in [Names -> 0 .. 1]
    BY <1>1 DEF RegisterCheck, AccountsInv, AccountsTyped, AccountsTypeOK
  <2> HIDE DEF r
  <2> QED
    BY <1>1, <2>2, <2>3, <2>4, QuietStep DEF RegisterCheck
<1>2. CASE RegisterCreate(h)
  <2>1. Step(h, Idle, {}) /\ {} \in SUBSET Tokens
    BY <1>2 DEF RegisterCreate, Goes
  <2>2. Idle \in HandlerStates /\ Idle.pc \notin LoginPcs
    BY DEF HandlerStates, Idle, LoginPcs
  <2>3. accounts' \in [Names -> 0 .. 1]
    <3>1. accounts \in [Names -> 0 .. 1]
      BY DEF AccountsInv, AccountsTyped, AccountsTypeOK
    <3>2. accounts' = [accounts EXCEPT ![handler[h].name] = 1]
      BY <1>2 DEF RegisterCreate, Create
    <3>3. \A n \in Names : accounts'[n] \in 0 .. 1
      BY <3>1, <3>2
    <3> QED
      BY <3>1, <3>2, <3>3
  <2> QED
    BY <1>2, <2>1, <2>2, <2>3, QuietStep DEF RegisterCreate
<1> QED
  BY <1>1, <1>2

LEMMA LoginCheckKeeps ==
  ASSUME AccountsInv, NEW h \in Handlers, LoginCheck(h)
  PROVE  AccountsInv'
<1>1. PICK n \in Names, p \in Platforms, d \in Devices :
        LET t == [name |-> n, platform |-> p, device |-> d, iat |-> now]
        IN /\ Goes(h, [pc |-> "getOld", token |-> t])
           /\ overlapped' = IF \E g \in Handlers :
                                /\ handler[g].pc \in {"getOld", "delOld", "save"}
                                /\ Key(handler[g].token) = Key(t)
                            THEN overlapped \cup {Key(t)}
                            ELSE overlapped
  BY DEF LoginCheck
<1> DEFINE new == [name |-> n, platform |-> p, device |-> d, iat |-> now]
           r == [pc |-> "getOld", token |-> new]
<1>2. new \in Tokens
  BY DEF Tokens, AccountsInv, AccountsTyped, AccountsTypeOK
<1>3. r \in HandlerStates /\ r.pc = "getOld" /\ r.token = new
  BY <1>2 DEF HandlerStates, TokenStates
<1>4. /\ Goes(h, r)
      /\ overlapped' = IF \E g \in Handlers : LogsIn(g, Key(new))
                       THEN overlapped \cup {Key(new)} ELSE overlapped
  BY <1>1 DEF LogsIn, LoginPcs
<1>5. UNCHANGED <<now, accounts, userToken, tokenInfo>>
  BY DEF LoginCheck
<1>6. Key(new) \in Names \X Platforms
  BY <1>2, KeyTyped
<1> HIDE DEF new, r
<1>7. /\ handler' \in [Handlers -> HandlerStates]
      /\ handler'[h] = r
      /\ \A g \in Handlers \ {h} : handler'[g] = handler[g]
      /\ loggedOut' \subseteq loggedOut
      /\ loggedOut' \subseteq Tokens
  <2>1. Step(h, r, {}) /\ {} \in SUBSET Tokens
    BY <1>4 DEF Goes
  <2> QED
    BY <1>3, <2>1, StepTyped
<1>8. AccountsTyped'
  BY <1>4, <1>5, <1>6, <1>7 DEF AccountsInv, AccountsTyped, AccountsTypeOK
<1>9. (loggedOut \cap DOMAIN tokenInfo = {})'
  BY <1>5, <1>7 DEF AccountsInv
<1>10. ASSUME NEW k \in (Names \X Platforms) \ overlapped' PROVE Named(k)' /\ OneLogin(k)'
  <2>1. Named(k) /\ OneLogin(k) /\ k \notin overlapped
    BY <1>4, <1>10 DEF AccountsInv
  <2>2. Named(k)'
    BY <1>5, <2>1 DEF Named
  <2>3. \A g \in Handlers : g # h => (LogsIn(g, k)' <=> LogsIn(g, k)) /\ ToDelete(g)' = ToDelete(g)
    BY <1>7 DEF LogsIn, ToDelete
  <2>4. LogsIn(h, k)' <=> Key(new) = k
    BY <1>3, <1>7 DEF LogsIn, LoginPcs
  <2>5. Key(new) = k => \A g \in Handlers : ~LogsIn(g, k)
    BY <1>4, <1>10
  <2> QED
    BY <1>3, <1>5, <1>7, <2>1, <2>2, <2>3, <2>4, <2>5 DEF OneLogin
<1> QED
  BY <1>8, <1>9, <1>10 DEF AccountsInv

LEMMA GetOldTokenKeeps ==
  ASSUME AccountsInv, NEW h \in Handlers, GetOldToken(h)
  PROVE  AccountsInv'
<1> DEFINE tok == handler[h].token
           old == userToken[Key(tok)]
           r == IF old = None THEN [pc |-> "save", token |-> tok]
                ELSE [pc |-> "delOld", token |-> tok, old |-> old.token]
<1>1. /\ handler[h].pc = "getOld" /\ Goes(h, r)
      /\ UNCHANGED <<now, accounts, userToken, tokenInfo, overlapped>>
  BY DEF GetOldToken
<1>2. tok \in Tokens
  BY <1>1, HandlerStateFacts DEF AccountsInv, AccountsTyped, LoginPcs
<1>3. Key(tok) \in Names \X Platforms
  BY <1>2, KeyTyped
<1>4. old # None => old \in [token : Tokens, exp : Nat]
  BY <1>3 DEF AccountsInv, AccountsTyped
<1>5. r \in HandlerStates /\ r.pc \in {"save", "delOld"} /\ r.token = tok
  BY <1>2, <1>4 DEF HandlerStates, TokenStates
<1>6. ASSUME Key(tok) \notin overlapped, NEW t \in DOMAIN tokenInfo, Key(t) = Key(tok)
      PROVE  r.pc = "delOld" /\ t = r.old
  <2>1. Named(Key(tok))
    BY <1>3, <1>6 DEF AccountsInv
  <2>2. old # None /\ old.token = t
    BY <1>6, <2>1 DEF Named
  <2> QED
    BY <2>2
<1> HIDE DEF r, old
<1> QED
  BY <1>1, <1>5, <1>6, LoginStep DEF LoginPcs

LEMMA DeleteOldTokenKeeps ==
  ASSUME AccountsInv, NEW h \in Handlers, DeleteOldToken(h)
  PROVE  AccountsInv'
<1> DEFINE tok == handler[h].token
           r == [pc |-> "save", token |-> tok]
<1>1. /\ handler[h].pc = "delOld" /\ Goes(h, r)
      /\ tokenInfo' = Restrict(tokenInfo, DOMAIN tokenInfo \ {handler[h].old})
      /\ UNCHANGED <<now, accounts, userToken, overlapped>>
  BY DEF DeleteOldToken
<1>2. tok \in Tokens
  BY <1>1, HandlerStateFacts DEF AccountsInv, AccountsTyped, LoginPcs
<1>3. Key(tok) \in Names \X Platforms
  BY <1>2, KeyTyped
<1>4. r \in HandlerStates /\ r.pc = "save" /\ r.token = tok
  BY <1>2 DEF HandlerStates, TokenStates
<1>5. /\ DOMAIN tokenInfo' = DOMAIN tokenInfo \ {handler[h].old}
      /\ \A t \in DOMAIN tokenInfo' : tokenInfo'[t] = tokenInfo[t]
  BY <1>1 DEF Restrict
<1>6. ASSUME Key(tok) \notin overlapped, NEW t \in DOMAIN tokenInfo', Key(t) = Key(tok)
      PROVE  FALSE
  <2>1. OneLogin(Key(tok)) /\ LogsIn(h, Key(tok))
    BY <1>1, <1>3, <1>6 DEF AccountsInv, LogsIn, LoginPcs
  <2>2. t \in ToDelete(h)
    BY <1>1, <1>5, <1>6, <2>1 DEF OneLogin
  <2> QED
    BY <1>1, <1>5, <2>2 DEF ToDelete
<1> HIDE DEF r
<1> QED
  BY <1>1, <1>4, <1>5, <1>6, LoginStep DEF LoginPcs

LEMMA SaveTokenKeeps ==
  ASSUME AccountsInv, NEW h \in Handlers, SaveToken(h)
  PROVE  AccountsInv'
<1> DEFINE tok == handler[h].token
           expiry == now + AccessExpire
<1>1. /\ handler[h].pc = "save"
      /\ userToken' = [userToken EXCEPT ![Key(tok)] = [token |-> tok, exp |-> expiry]]
      /\ tokenInfo' = [s \in DOMAIN tokenInfo \cup {tok} |-> IF s = tok THEN expiry ELSE tokenInfo[s]]
      /\ loggedOut' = loggedOut \ {tok}
      /\ handler' = [handler EXCEPT ![h] = Idle]
      /\ UNCHANGED <<now, accounts, overlapped>>
  BY DEF SaveToken
<1>2. tok \in Tokens
  BY <1>1, HandlerStateFacts DEF AccountsInv, AccountsTyped, LoginPcs
<1>3. Key(tok) \in Names \X Platforms
  BY <1>2, KeyTyped
<1>4. /\ now \in Nat /\ expiry \in Nat /\ expiry \in now + 1 .. now + AccessExpire
      /\ DOMAIN userToken = Names \X Platforms
  BY AccessExpireAssumption, AccountsTimeAssumption DEF AccountsInv, AccountsTyped, AccountsTypeOK
<1>5. [token |-> tok, exp |-> expiry] \in [token : Tokens, exp : Nat]
  BY <1>2, <1>4
<1> HIDE DEF tok, expiry
<1>6. /\ handler' \in [Handlers -> HandlerStates] /\ handler'[h] = Idle
      /\ \A g \in Handlers \ {h} : handler'[g] = handler[g]
  BY <1>1 DEF HandlerStates, AccountsInv, AccountsTyped
<1>7. /\ DOMAIN userToken' = Names \X Platforms
      /\ userToken'[Key(tok)] = [token |-> tok, exp |-> expiry]
      /\ \A k \in Names \X Platforms : k # Key(tok) => userToken'[k] = userToken[k]
  BY <1>1, <1>3, <1>4
<1>8. AccountsTyped'
  <2>1. \A k \in Names \X Platforms : userToken'[k] # None =>
          userToken'[k] \in [token : Tokens, exp : Nat] /\ Key(userToken'[k].token) = k
    BY <1>4, <1>5, <1>7 DEF AccountsInv, AccountsTyped, AccountsTypeOK
  <2>2. /\ DOMAIN tokenInfo' \subseteq Tokens
        /\ \A t \in DOMAIN tokenInfo' : tokenInfo'[t] \in now + 1 .. now + AccessExpire
    BY <1>1, <1>2, <1>4 DEF AccountsInv, AccountsTyped, AccountsTypeOK
  <2>3. loggedOut' \subseteq Tokens /\ UNCHANGED <<now, accounts, overlapped>>
    BY <1>1 DEF AccountsInv, AccountsTyped, AccountsTypeOK
  <2> QED
    BY <1>6, <1>7, <2>1, <2>2, <2>3 DEF AccountsInv, AccountsTyped, AccountsTypeOK
<1>9. (loggedOut \cap DOMAIN tokenInfo = {})'
  BY <1>1 DEF AccountsInv
<1>10. ASSUME NEW k \in (Names \X Platforms) \ overlapped PROVE Named(k)' /\ OneLogin(k)'
  <2>1. Named(k) /\ OneLogin(k)
    BY <1>10 DEF AccountsInv
  <2>2. \A g \in Handlers : LogsIn(g, k)' => g # h /\ LogsIn(g, k)
    BY <1>6 DEF LogsIn, Idle, LoginPcs
  <2>3. \A g \in Handlers : g # h => ToDelete(g)' = ToDelete(g)
    BY <1>6 DEF ToDelete
  <2>4. CASE k # Key(tok)
    <3>1. \A t \in DOMAIN tokenInfo' : Key(t) = k => t \in DOMAIN tokenInfo /\ tokenInfo'[t] = tokenInfo[t]
      BY <1>1, <2>4
    <3>2. userToken'[k] = userToken[k]
      BY <1>7, <1>10, <2>4
    <3>3. Named(k)'
      BY <2>1, <3>1, <3>2 DEF Named
    <3> QED
      BY <1>6, <2>1, <2>2, <2>3, <3>1, <3>3 DEF OneLogin
  <2>5. CASE k = Key(tok)
    <3>1. LogsIn(h, k)
      BY <1>1, <2>5 DEF LogsIn, LoginPcs, tok
    <3>2. \A t \in DOMAIN tokenInfo : Key(t) # k
      BY <1>1, <2>1, <3>1 DEF OneLogin, ToDelete
    <3>3. \A t \in DOMAIN tokenInfo' : Key(t) = k => t = tok /\ tokenInfo'[t] = expiry
      BY <1>1, <3>2
    <3>4. userToken'[k].token = tok /\ userToken'[k].exp = expiry
      BY <1>7, <2>5
    <3>5. userToken'[k] # None
      BY <1>5, <1>7, <2>5, AccountsNoneAssumption
    <3>6. Named(k)'
      BY <1>4, <3>3, <3>4, <3>5 DEF Named
    <3>7. \A g \in Handlers : ~LogsIn(g, k)'
      BY <2>1, <2>2, <3>1 DEF OneLogin
    <3> QED
      BY <3>6, <3>7 DEF OneLogin
  <2> QED
    BY <2>4, <2>5
<1> QED
  BY <1>8, <1>9, <1>10, <1>1 DEF AccountsInv

LEMMA TokenAuthKeeps ==
  ASSUME AccountsInv, NEW h \in Handlers, TokenAuth(h)
  PROVE  AccountsInv'
<1>1. PICK t \in DOMAIN tokenInfo, logout \in BOOLEAN :
        Goes(h, [pc |-> IF Renews(t) THEN "renew" ELSE "logout", token |-> t, logout |-> logout])
  BY DEF TokenAuth, GetUserInfoByToken
<1> DEFINE r == [pc |-> IF Renews(t) THEN "renew" ELSE "logout", token |-> t, logout |-> logout]
<1>2. t \in Tokens
  BY DEF AccountsInv, AccountsTyped, AccountsTypeOK
<1>3. r \in HandlerStates /\ r.pc \notin LoginPcs
  BY <1>2 DEF HandlerStates, TokenStates, LoginPcs
<1>4. Step(h, r, {}) /\ {} \in SUBSET Tokens
  BY <1>1 DEF Goes
<1>5. accounts' \in [Names -> 0 .. 1]
  BY DEF TokenAuth, AccountsInv, AccountsTyped, AccountsTypeOK
<1> HIDE DEF r
<1> QED
  BY <1>3, <1>4, <1>5, QuietStep DEF TokenAuth

LEMMA HandledTyped ==
  ASSUME AccountsInv, NEW h \in Handlers, handler[h].pc = "renew"
  PROVE  Handled(h) \in HandlerStates /\ Handled(h).pc \notin LoginPcs
<1>1. handler[h] \in HandlerStates
  BY DEF AccountsInv, AccountsTyped
<1>2. [handler[h] EXCEPT !.pc = "logout"] \in HandlerStates
  BY <1>1, HandlerStateFacts
<1>3. [handler[h] EXCEPT !.pc = "logout"].pc = "logout"
  <2>1. handler[h] \in [pc : {"renew", "logout"}, token : Tokens, logout : BOOLEAN]
    BY <1>1 DEF HandlerStates, TokenStates, Idle
  <2> QED
    BY <2>1
<1> QED
  BY <1>2, <1>3 DEF Handled, HandlerStates, Idle, LoginPcs

LEMMA RenewKeeps ==
  ASSUME AccountsInv, NEW h \in Handlers, Renew(h)
  PROVE  AccountsInv'
<1> DEFINE tok == handler[h].token
           expiry == now + AccessExpire
<1>1. /\ handler[h].pc = "renew" /\ Goes(h, Handled(h))
      /\ userToken' = [userToken EXCEPT ![Key(tok)] =
                         IF @ = None THEN None ELSE [@ EXCEPT !.exp = expiry]]
      /\ tokenInfo' = [s \in DOMAIN tokenInfo |-> IF s = tok THEN expiry ELSE tokenInfo[s]]
      /\ UNCHANGED <<now, accounts, overlapped>>
  BY DEF Renew, RefreshTokenExpire
<1>2. tok \in Tokens /\ Key(tok) \in Names \X Platforms
  <2>1. tok \in Tokens
    BY <1>1, HandlerStateFacts DEF AccountsInv, AccountsTyped
  <2> QED
    BY <2>1, KeyTyped
<1>3. Handled(h) \in HandlerStates /\ Handled(h).pc \notin LoginPcs
  BY <1>1, HandledTyped
<1>4. /\ handler' \in [Handlers -> HandlerStates]
      /\ handler'[h] = Handled(h)
      /\ \A g \in Handlers \ {h} : handler'[g] = handler[g]
      /\ loggedOut' \subseteq loggedOut
      /\ loggedOut' \subseteq Tokens
  <2>1. Step(h, Handled(h), {}) /\ {} \in SUBSET Tokens
    BY <1>1 DEF Goes
  <2> QED
    BY <1>3, <2>1, StepTyped
<1>5. /\ now \in Nat /\ expiry \in Nat /\ expiry \in now + 1 .. now + AccessExpire
      /\ DOMAIN userToken = Names \X Platforms
  BY AccessExpireAssumption, AccountsTimeAssumption DEF AccountsInv, AccountsTyped, AccountsTypeOK
<1> HIDE DEF tok, expiry
<1>6. DOMAIN userToken' = Names \X Platforms
  BY <1>1, <1>5
<1>7. ASSUME NEW k \in Names \X Platforms
      PROVE  /\ userToken[k] = None => userToken'[k] = None
             /\ userToken[k] # None => /\ userToken'[k] # None
                                       /\ userToken'[k] \in [token : Tokens, exp : Nat]
                                       /\ userToken'[k].token = userToken[k].token
                                       /\ userToken'[k].exp = IF k = Key(tok) THEN expiry ELSE userToken[k].exp
  <2>1. userToken[k] # None => userToken[k] \in [token : Tokens, exp : Nat]
    BY DEF AccountsInv, AccountsTyped
  <2>2. CASE k # Key(tok)
    BY <1>1, <1>5, <2>1, <2>2
  <2>3. CASE k = Key(tok)
    <3>1. userToken'[k] = IF userToken[k] = None THEN None ELSE [userToken[k] EXCEPT !.exp = expiry]
      BY <1>1, <1>5, <2>3
    <3>2. CASE userToken[k] # None
      <4>1. [userToken[k] EXCEPT !.exp = expiry] = [token |-> userToken[k].token, exp |-> expiry]
        BY <2>1, <3>2
      <4> DEFINE e == [token |-> userToken[k].token, exp |-> expiry]
      <4>2. e \in [token : Tokens, exp : Nat] /\ e.token = userToken[k].token /\ e.exp = expiry
        BY <1>5, <2>1, <3>2
      <4>3. userToken'[k] = e
        BY <3>1, <3>2, <4>1
      <4> HIDE DEF e
      <4> QED
        BY <2>3, <3>2, <4>2, <4>3, AccountsNoneAssumption
    <3> QED
      BY <3>1, <3>2
  <2> QED
    BY <2>2, <2>3
<1>8. AccountsTyped'
  <2>1. \A k \in Names \X Platforms : userToken'[k] # None =>
          userToken'[k] \in [token : Tokens, exp : Nat] /\ Key(userToken'[k].token) = k
    BY <1>5, <1>7 DEF AccountsInv, AccountsTyped, AccountsTypeOK
  <2>2. /\ DOMAIN tokenInfo' \subseteq Tokens
        /\ \A t \in DOMAIN tokenInfo' : tokenInfo'[t] \in now + 1 .. now + AccessExpire
    BY <1>1, <1>5 DEF AccountsInv, AccountsTyped, AccountsTypeOK
  <2> QED
    BY <1>1, <1>4, <1>6, <2>1, <2>2 DEF AccountsInv, AccountsTyped, AccountsTypeOK
<1>9. (loggedOut \cap DOMAIN tokenInfo = {})'
  BY <1>1, <1>4 DEF AccountsInv
<1>10. ASSUME NEW k \in (Names \X Platforms) \ overlapped PROVE Named(k)' /\ OneLogin(k)'
  <2>1. Named(k) /\ OneLogin(k)
    BY <1>10 DEF AccountsInv
  <2>2. \A g \in Handlers : LogsIn(g, k)' => g # h /\ LogsIn(g, k)
    BY <1>3, <1>4 DEF LogsIn
  <2>3. \A g \in Handlers : g # h => ToDelete(g)' = ToDelete(g)
    BY <1>4 DEF ToDelete
  <2>4. DOMAIN tokenInfo' = DOMAIN tokenInfo
    BY <1>1
  <2>5. ASSUME NEW t \in DOMAIN tokenInfo, Key(t) = k
        PROVE  userToken'[k] # None /\ userToken'[k].token = t /\ userToken'[k].exp >= tokenInfo'[t]
    <3>1. userToken[k] # None /\ userToken[k].token = t /\ userToken[k].exp >= tokenInfo[t]
      BY <2>1, <2>5 DEF Named
    <3>2. tokenInfo'[t] = IF t = tok THEN expiry ELSE tokenInfo[t]
      BY <1>1
    <3>3. tokenInfo[t] \in Nat /\ tokenInfo[t] <= expiry
      BY <1>5 DEF AccountsInv, AccountsTyped, AccountsTypeOK, expiry
    <3> QED
      BY <1>5, <1>7, <1>10, <2>5, <3>1, <3>2, <3>3
  <2>6. Named(k)'
    BY <2>4, <2>5 DEF Named
  <2> QED
    BY <1>4, <2>1, <2>2, <2>3, <2>4, <2>6 DEF OneLogin
<1> QED
  BY <1>1, <1>8, <1>9, <1>10 DEF AccountsInv

LEMMA LogoutKeeps ==
  ASSUME AccountsInv, NEW h \in Handlers, Logout(h)
  PROVE  AccountsInv'
<1> DEFINE tok == handler[h].token
<1>1. tok \in Tokens
  BY HandlerStateFacts DEF Logout, AccountsInv, AccountsTyped
<1>2. Idle \in HandlerStates /\ Idle.pc \notin LoginPcs
  BY DEF HandlerStates, Idle, LoginPcs
<1>3. accounts' \in [Names -> 0 .. 1]
  BY DEF Logout, AccountsInv, AccountsTyped, AccountsTypeOK
<1>4. {tok} \in SUBSET Tokens /\ Step(h, Idle, {tok})
  BY <1>1 DEF Logout
<1>5. /\ tokenInfo' = Restrict(tokenInfo, DOMAIN tokenInfo \ {tok})
      /\ UNCHANGED <<now, accounts, userToken, overlapped>>
  BY DEF Logout
<1> HIDE DEF tok
<1> QED
  BY <1>2, <1>3, <1>4, <1>5, QuietStep

LEMMA FailKeeps ==
  ASSUME AccountsInv, NEW h \in Handlers, Fail(h)
  PROVE  AccountsInv'
<1> DEFINE r == IF handler[h].pc = "renew" THEN Handled(h) ELSE Idle
<1>1. r \in HandlerStates /\ r.pc \notin LoginPcs
  BY HandledTyped DEF HandlerStates, Idle, LoginPcs
<1>2. accounts' \in [Names -> 0 .. 1]
  BY DEF Fail, AccountsInv, AccountsTyped, AccountsTypeOK
<1>3. {} \in SUBSET Tokens /\ Step(h, r, {})
  BY DEF Fail, Goes
<1>4. UNCHANGED <<now, accounts, userToken, tokenInfo, overlapped>>
  BY DEF Fail
<1> HIDE DEF r
<1> QED
  BY <1>1, <1>2, <1>3, <1>4, QuietStep

LEMMA TickKeeps ==
  ASSUME AccountsInv, Tick
  PROVE  AccountsInv'
<1>1. /\ now < MaxTime /\ now' = now + 1 /\ now \in Nat
      /\ userToken' = [k \in DOMAIN userToken |->
                         IF userToken[k] # None /\ userToken[k].exp <= now + 1
                         THEN None ELSE userToken[k]]
      /\ tokenInfo' = [t \in {t \in DOMAIN tokenInfo : tokenInfo[t] > now + 1} |-> tokenInfo[t]]
      /\ UNCHANGED <<accounts, handler, loggedOut, overlapped>>
      /\ DOMAIN userToken = Names \X Platforms
  BY AccountsTimeAssumption DEF Tick, Restrict, AccountsInv, AccountsTyped, AccountsTypeOK
<1>2. \A t \in DOMAIN tokenInfo' :
        t \in DOMAIN tokenInfo /\ tokenInfo'[t] = tokenInfo[t] /\ tokenInfo[t] > now + 1
  BY <1>1
<1>3. \A k \in Names \X Platforms :
        /\ userToken'[k] # None => userToken'[k] = userToken[k]
        /\ userToken[k] # None /\ userToken[k].exp > now + 1 => userToken'[k] = userToken[k]
  <2>1. \A k \in Names \X Platforms : userToken[k] # None => userToken[k].exp \in Nat
    BY DEF AccountsInv, AccountsTyped
  <2> QED
    BY <1>1, <2>1
<1>4. AccountsTyped'
  <2>1. now' \in 0 .. MaxTime
    BY <1>1, AccountsTimeAssumption
  <2>2. \A t \in DOMAIN tokenInfo' : tokenInfo'[t] \in now' + 1 .. now' + AccessExpire
    BY <1>1, <1>2, AccessExpireAssumption DEF AccountsInv, AccountsTyped, AccountsTypeOK
  <2>3. \A k \in Names \X Platforms : userToken'[k] # None =>
          userToken'[k] \in [token : Tokens, exp : Nat] /\ Key(userToken'[k].token) = k
    BY <1>1, <1>3 DEF AccountsInv, AccountsTyped, AccountsTypeOK
  <2>4. DOMAIN userToken' = Names \X Platforms /\ DOMAIN tokenInfo' \subseteq Tokens
    BY <1>1, <1>2 DEF AccountsInv, AccountsTyped, AccountsTypeOK
  <2> QED
    BY <1>1, <2>1, <2>2, <2>3, <2>4 DEF AccountsInv, AccountsTyped, AccountsTypeOK
<1>5. (loggedOut \cap DOMAIN tokenInfo = {})'
  BY <1>1, <1>2 DEF AccountsInv
<1>6. ASSUME NEW k \in (Names \X Platforms) \ overlapped PROVE Named(k)' /\ OneLogin(k)'
  <2>1. Named(k) /\ OneLogin(k)
    BY <1>6 DEF AccountsInv
  <2>2. ASSUME NEW t \in DOMAIN tokenInfo', Key(t) = k
        PROVE  userToken'[k] # None /\ userToken'[k].token = t /\ userToken'[k].exp >= tokenInfo'[t]
    <3>1. /\ userToken[k] # None /\ userToken[k].token = t /\ userToken[k].exp >= tokenInfo[t]
          /\ tokenInfo[t] > now + 1 /\ tokenInfo[t] \in Nat
      BY <1>1, <1>2, <2>1, <2>2 DEF Named, AccountsInv, AccountsTyped, AccountsTypeOK
    <3>2. userToken[k].exp \in Nat
      BY <1>6, <3>1 DEF AccountsInv, AccountsTyped
    <3>3. userToken'[k] = userToken[k]
      BY <1>1, <1>3, <1>6, <3>1, <3>2
    <3> QED
      BY <1>2, <2>2, <3>1, <3>3
  <2>3. Named(k)'
    BY <2>2 DEF Named
  <2> QED
    BY <1>1, <1>2, <2>1, <2>3 DEF OneLogin, LogsIn, ToDelete
<1> QED
  BY <1>1, <1>4, <1>5, <1>6 DEF AccountsInv

LEMMA AccountsInvInit == AccountsInit => AccountsInv
<1> SUFFICES ASSUME AccountsInit PROVE AccountsInv
  OBVIOUS
<1>1. AccountsTyped
  BY AccountsTimeAssumption
  DEF AccountsInit, AccountsTyped, AccountsTypeOK, HandlerStates
<1>2. \A k : Named(k) /\ OneLogin(k)
  BY DEF AccountsInit, Named, OneLogin, LogsIn, LoginPcs, Idle
<1> QED
  BY <1>1, <1>2 DEF AccountsInit, AccountsInv

LEMMA AccountsInvStep == AccountsInv /\ [AccountsNext]_accountsVars => AccountsInv'
<1> SUFFICES ASSUME AccountsInv, [AccountsNext]_accountsVars PROVE AccountsInv'
  OBVIOUS
<1>1. CASE UNCHANGED accountsVars
  BY <1>1
  DEF accountsVars, AccountsInv, AccountsTyped, AccountsTypeOK, Named, OneLogin, LogsIn, ToDelete
<1>2. CASE Tick
  BY <1>2, TickKeeps
<1>3. ASSUME NEW h \in Handlers, RegisterCheck(h) \/ RegisterCreate(h) PROVE AccountsInv'
  BY <1>3, RegisterKeeps
<1>4. ASSUME NEW h \in Handlers,
             LoginCheck(h) \/ GetOldToken(h) \/ DeleteOldToken(h) \/ SaveToken(h)
      PROVE  AccountsInv'
  BY <1>4, LoginCheckKeeps, GetOldTokenKeeps, DeleteOldTokenKeeps, SaveTokenKeeps
<1>5. ASSUME NEW h \in Handlers, TokenAuth(h) \/ Renew(h) \/ Logout(h) \/ Fail(h)
      PROVE  AccountsInv'
  BY <1>5, TokenAuthKeeps, RenewKeeps, LogoutKeeps, FailKeeps
<1> QED
  BY <1>1, <1>2, <1>3, <1>4, <1>5 DEF AccountsNext

\* A good token is the only one of its user and platform unless two logins were
\* under way at once, and one that was logged out stays refused, for any users,
\* platforms, devices, handlers and life times.
THEOREM TokensGood == AccountsSpec => [](AccountsTypeOK /\ GoodTokens)
<1>1. AccountsInv => AccountsTypeOK /\ GoodTokens
  BY AccountsInvGood
<1> QED
  BY <1>1, AccountsInvInit, AccountsInvStep, PTL DEF AccountsSpec

-----------------------------------------------------------------------------
(* The inductive invariant of Profiles: what a handler has in hand. *)

ProfileStates ==
  {NoRequest} \cup [pc : {"saveInfo"}, user : ProfileUsers, read : Profile, at : Nat]
    \cup [pc : {"update"}, user : ProfileUsers, read : Profile, fields : SUBSET Fields]

ProfilesTyped ==
  /\ ProfilesTypeOK
  /\ profileHandler \in [ProfileHandlers -> ProfileStates]
  /\ had \in [ProfileUsers -> Seq(Profile)]
  /\ newest \in [ProfileUsers -> Nat]

\* The row has the last profile it has had, and none before it is made; what is
\* shown of the user is one that was read up to newest.
RowOf(u) ==
  /\ profile[u] # NoProfile => Len(had[u]) > 0 /\ profile[u] = had[u][Len(had[u])]
  /\ profile[u] = NoProfile => had[u] = <<>> /\ asked[u] = FirstProfile
  /\ profile[u] # NoProfile /\ u \notin mixed => profile[u] = asked[u]
  /\ newest[u] <= Len(had[u])
  /\ newest[u] = 0 => userInfo[u] = NoProfile
  /\ newest[u] > 0 => \E n \in 1 .. newest[u] :
       userInfo[u] = had[u][n] /\ (n = newest[u] \/ u \in loginsRaced)

\* What it is to save its user's row has had, not before the newest that is saved
\* if no other is about to save one; what it is to change the row still has if
\* no other changes it.
InHand(h) ==
  LET u == profileHandler[h].user
      n == profileHandler[h].at
  IN /\ profileHandler[h].pc # "idle" => profile[u] # NoProfile
     /\ profileHandler[h].pc = "saveInfo" =>
          n \in 1 .. Len(had[u]) /\ profileHandler[h].read = had[u][n]
     /\ profileHandler[h].pc = "saveInfo" /\ u \notin loginsRaced =>
          newest[u] <= n /\ Saves(u) = {h}
     /\ profileHandler[h].pc = "update" /\ u \notin mixed =>
          profileHandler[h].read = profile[u] /\ Updating(u) = {h}

ProfilesInv ==
  /\ ProfilesTyped
  /\ \A u \in ProfileUsers : RowOf(u)
  /\ \A h \in ProfileHandlers : InHand(h)

LEMMA ProfileStateFacts ==
  ASSUME NEW s \in ProfileStates
  PROVE  /\ s.pc \in {"idle", "saveInfo", "update"}
         /\ s.pc = "idle" => s = NoRequest
         /\ s.pc # "idle" => s.user \in ProfileUsers /\ s.read \in Profile
         /\ s.pc = "saveInfo" => s.at \in Nat
         /\ s.pc = "update" => s.fields \in SUBSET Fields
BY DEF ProfileStates, NoRequest

LEMMA NoProfileApart == NoProfile \notin Profile
BY NoProfileAssumption, MaxEditsAssumption DEF Profile, Fields

LEMMA ProfilesInvKept ==
  ASSUME ProfilesInv
  PROVE  ProfilesTypeOK /\ ProfilesKept
<1>1. ASSUME NEW u \in ProfileUsers PROVE Shown(u)
  <2>1. RowOf(u) /\ profile[u] \in Profile \cup {NoProfile} /\ had[u] \in Seq(Profile)
        /\ newest[u] \in Nat
    BY DEF ProfilesInv, ProfilesTyped, ProfilesTypeOK
  <2>2. newest[u] > 0 => userInfo[u] # NoProfile
    <3> SUFFICES ASSUME newest[u] > 0 PROVE userInfo[u] # NoProfile
      OBVIOUS
    <3>1. PICK n \in 1 .. newest[u] : userInfo[u] = had[u][n]
      BY DEF RowOf, ProfilesInv
    <3>2. had[u][n] \in Profile
      BY <2>1, <3>1 DEF RowOf
    <3> QED
      BY <3>1, <3>2, NoProfileApart
  <2> QED
    BY <2>1, <2>2 DEF RowOf, Shown, GetUserInfo
<1> QED
  BY <1>1 DEF ProfilesInv, ProfilesTyped, RowOf, ProfilesKept

\* A handler that holds nothing afterwards, when no row changes.
LEMMA HandlerDone ==
  ASSUME ProfilesInv, NEW h \in ProfileHandlers, HandlerGoes(h, NoRequest),
         UNCHANGED <<profile, logins, edits, asked, had, mixed, loginsRaced>>,
         userInfo' \in [ProfileUsers -> Profile \cup {NoProfile}],
         newest' \in [ProfileUsers -> Nat],
         \A u \in ProfileUsers : RowOf(u)',
         \A u \in ProfileUsers : u \in loginsRaced \/ newest'[u] = newest[u] \/ Saves(u) = {h}
  PROVE  ProfilesInv'
<1>1. /\ profileHandler' \in [ProfileHandlers -> ProfileStates]
      /\ profileHandler'[h] = NoRequest
      /\ \A g \in ProfileHandlers \ {h} : profileHandler'[g] = profileHandler[g]
  BY DEF HandlerGoes, ProfilesInv, ProfilesTyped, ProfileStates
<1>2. ProfilesTyped'
  BY <1>1 DEF ProfilesInv, ProfilesTyped, ProfilesTypeOK
<1>3. ASSUME NEW g \in ProfileHandlers PROVE InHand(g)'
  <2>1. CASE g = h
    BY <1>1, <2>1 DEF InHand, NoRequest
  <2>2. CASE g # h
    <3>1. InHand(g) /\ profileHandler'[g] = profileHandler[g] /\ profileHandler[g] \in ProfileStates
      BY <1>1, <2>2 DEF ProfilesInv, ProfilesTyped
    <3>2. \A u : Updating(u)' = Updating(u) \ {h} /\ Saves(u)' = Saves(u) \ {h}
      BY <1>1 DEF Updating, Saves, NoRequest
    <3>3. profileHandler[g].pc = "saveInfo" /\ profileHandler[g].user \notin loginsRaced =>
            newest'[profileHandler[g].user] = newest[profileHandler[g].user]
      <4> SUFFICES ASSUME profileHandler[g].pc = "saveInfo", profileHandler[g].user \notin loginsRaced
                   PROVE  newest'[profileHandler[g].user] = newest[profileHandler[g].user]
        OBVIOUS
      <4>1. profileHandler[g].user \in ProfileUsers
        BY <3>1, ProfileStateFacts
      <4>2. Saves(profileHandler[g].user) = {g}
        BY <3>1 DEF InHand
      <4> QED
        BY <2>2, <4>1, <4>2
    <3> QED
      BY <2>2, <3>1, <3>2, <3>3 DEF InHand
  <2> QED
    BY <2>1, <2>2
<1> QED
  BY <1>2, <1>3 DEF ProfilesInv

LEMMA CreateUserKeeps ==
  ASSUME ProfilesInv, NEW h \in ProfileHandlers, CreateUser(h)
  PROVE  ProfilesInv'
<1>1. PICK u \in ProfileUsers :
        /\ profile[u] = NoProfile
        /\ profile' = [profile EXCEPT ![u] = FirstProfile]
        /\ had' = [had EXCEPT ![u] = <<FirstProfile>>]
        /\ profileHandler' = [profileHandler EXCEPT ![h] = Saving(u, FirstProfile, 1)]
  BY DEF CreateUser, GetByUsername, HandlerGoes
<1>2. /\ UNCHANGED <<userInfo, logins, edits, asked, mixed, newest, loginsRaced>>
      /\ profileHandler[h] = NoRequest
  BY DEF CreateUser
<1>3. FirstProfile \in Profile /\ FirstProfile # NoProfile
  BY NoProfileApart, MaxEditsAssumption DEF FirstProfile, Profile, Fields
<1>4. Saving(u, FirstProfile, 1) \in ProfileStates
  BY <1>3 DEF Saving, ProfileStates
<1>5. /\ profileHandler' \in [ProfileHandlers -> ProfileStates]
      /\ profileHandler'[h] = Saving(u, FirstProfile, 1)
      /\ \A g \in ProfileHandlers \ {h} : profileHandler'[g] = profileHandler[g]
  BY <1>1, <1>4 DEF ProfilesInv, ProfilesTyped
<1>6. /\ profile'[u] = FirstProfile /\ had'[u] = <<FirstProfile>>
      /\ \A v \in ProfileUsers \ {u} : profile'[v] = profile[v] /\ had'[v] = had[v]
  BY <1>1 DEF ProfilesInv, ProfilesTyped, ProfilesTypeOK
<1>7. ProfilesTyped'
  <2>1. <<FirstProfile>> \in Seq(Profile)
    BY <1>3
  <2>2. profile' \in [ProfileUsers -> Profile \cup {NoProfile}] /\ had' \in [ProfileUsers -> Seq(Profile)]
    BY <1>1, <1>3, <2>1 DEF ProfilesInv, ProfilesTyped, ProfilesTypeOK
  <2> QED
    BY <1>2, <1>5, <2>2 DEF ProfilesInv, ProfilesTyped, ProfilesTypeOK
<1>8. newest[u] = 0
  BY <1>1 DEF ProfilesInv, ProfilesTyped, RowOf
<1>9. ASSUME NEW v \in ProfileUsers PROVE RowOf(v)'
  <2>1. RowOf(v)
    BY DEF ProfilesInv
  <2>2. CASE v # u
    BY <1>2, <1>6, <2>1, <2>2 DEF RowOf
  <2>3. CASE v = u
    <3>1. asked[u] = FirstProfile /\ userInfo[u] = NoProfile
      BY <1>1, <1>8, <2>1, <2>3 DEF RowOf
    <3>2. Len(<<FirstProfile>>) = 1 /\ <<FirstProfile>>[1] = FirstProfile
      OBVIOUS
    <3>3. Len(had'[u]) = 1 /\ had'[u][1] = FirstProfile /\ had'[u] # <<>>
      BY <1>6, <3>2
    <3>4. newest'[u] = 0 /\ userInfo'[u] = NoProfile /\ asked'[u] = FirstProfile
          /\ profile'[u] = FirstProfile /\ profile'[u] # NoProfile
      BY <1>2, <1>3, <1>6, <1>8, <3>1
    <3> QED
      BY <2>3, <3>3, <3>4 DEF RowOf
  <2> QED
    BY <2>2, <2>3
<1>10. \A g \in ProfileHandlers : profileHandler[g].pc # "idle" =>
         profileHandler[g].user \in ProfileUsers \ {u}
  BY <1>1, ProfileStateFacts DEF ProfilesInv, ProfilesTyped, InHand
<1>11. /\ Saving(u, FirstProfile, 1).pc = "saveInfo" /\ Saving(u, FirstProfile, 1).user = u
       /\ Saving(u, FirstProfile, 1).at = 1 /\ Saving(u, FirstProfile, 1).read = FirstProfile
  BY DEF Saving
<1>12. ASSUME NEW g \in ProfileHandlers PROVE InHand(g)'
  <2>1. CASE g = h
    <3>1. Saves(u)' = {h}
      BY <1>5, <1>10, <1>11 DEF Saves
    <3>2. Len(<<FirstProfile>>) = 1 /\ <<FirstProfile>>[1] = FirstProfile
      OBVIOUS
    <3> QED
      BY <1>2, <1>3, <1>5, <1>6, <1>8, <1>11, <2>1, <3>1, <3>2 DEF InHand
  <2>2. CASE g # h
    <3>1. InHand(g) /\ profileHandler'[g] = profileHandler[g] /\ profileHandler[g] \in ProfileStates
      BY <1>5, <2>2 DEF ProfilesInv, ProfilesTyped
    <3>2. \A v \in ProfileUsers \ {u} : Updating(v)' = Updating(v) /\ Saves(v)' = Saves(v)
      BY <1>2, <1>5, <1>11 DEF Updating, Saves, NoRequest
    <3>3. CASE profileHandler[g].pc = "idle"
      BY <3>1, <3>3 DEF InHand
    <3>4. CASE profileHandler[g].pc # "idle"
      <4>1. profileHandler[g].user \in ProfileUsers \ {u}
        BY <1>10, <3>4
      <4>2. profile'[profileHandler[g].user] = profile[profileHandler[g].user]
            /\ had'[profileHandler[g].user] = had[profileHandler[g].user]
        BY <1>6, <4>1
      <4> QED
        BY <1>2, <3>1, <3>2, <4>1, <4>2 DEF InHand
    <3> QED
      BY <3>3, <3>4
  <2> QED
    BY <2>1, <2>2
<1> QED
  BY <1>7, <1>9, <1>12 DEF ProfilesInv

LEMMA ReadAtLoginKeeps ==
  ASSUME ProfilesInv, NEW h \in ProfileHandlers, ReadAtLogin(h)
  PROVE  ProfilesInv'
<1>1. PICK u \in ProfileUsers :
        /\ profile[u] # NoProfile
        /\ profileHandler' = [profileHandler EXCEPT ![h] = Saving(u, profile[u], Len(had[u]))]
        /\ loginsRaced' = IF Saves(u) # {} THEN loginsRaced \cup {u} ELSE loginsRaced
  BY DEF ReadAtLogin, GetByUsername, HandlerGoes
<1> DEFINE r == Saving(u, profile[u], Len(had[u]))
<1>2. /\ UNCHANGED <<profile, userInfo, edits, asked, had, mixed, newest>>
      /\ logins < MaxLogins /\ logins' = logins + 1 /\ profileHandler[h] = NoRequest
  BY DEF ReadAtLogin
<1>3. /\ profile[u] \in Profile /\ Len(had[u]) \in Nat /\ Len(had[u]) > 0
      /\ profile[u] = had[u][Len(had[u])] /\ newest[u] <= Len(had[u])
  BY <1>1 DEF ProfilesInv, ProfilesTyped, ProfilesTypeOK, RowOf
<1>4. r \in ProfileStates
  BY <1>3 DEF Saving, ProfileStates
<1>5. r.pc = "saveInfo" /\ r.user = u /\ r.read = profile[u] /\ r.at = Len(had[u])
  BY DEF Saving
<1> HIDE DEF r
<1>6. /\ profileHandler' \in [ProfileHandlers -> ProfileStates]
      /\ profileHandler'[h] = r
      /\ \A g \in ProfileHandlers \ {h} : profileHandler'[g] = profileHandler[g]
  BY <1>1, <1>4 DEF ProfilesInv, ProfilesTyped, r
<1>7. ProfilesTyped'
  BY <1>1, <1>2, <1>6, MaxLoginsAssumption DEF ProfilesInv, ProfilesTyped, ProfilesTypeOK
<1>8. ASSUME NEW v \in ProfileUsers PROVE RowOf(v)'
  BY <1>1, <1>2 DEF ProfilesInv, RowOf
<1>9. \A v : /\ Updating(v)' = Updating(v)
             /\ Saves(v)' = IF v = u THEN Saves(v) \cup {h} ELSE Saves(v)
  BY <1>2, <1>5, <1>6 DEF Updating, Saves, NoRequest
<1>10. ASSUME NEW g \in ProfileHandlers PROVE InHand(g)'
  <2>1. CASE g = h
    BY <1>1, <1>2, <1>3, <1>5, <1>6, <1>9, <2>1 DEF InHand
  <2>2. CASE g # h
    <3>1. InHand(g) /\ profileHandler'[g] = profileHandler[g]
      BY <1>6, <2>2 DEF ProfilesInv
    <3>2. profileHandler[g].pc = "saveInfo" /\ profileHandler[g].user \notin loginsRaced' =>
            profileHandler[g].user # u
      BY <1>1 DEF Saves
    <3> QED
      BY <1>1, <1>2, <1>9, <3>1, <3>2 DEF InHand
  <2> QED
    BY <2>1, <2>2
<1> QED
  BY <1>7, <1>8, <1>10 DEF ProfilesInv

LEMMA SaveUserInfoKeeps ==
  ASSUME ProfilesInv, NEW h \in ProfileHandlers, SaveUserInfo(h)
  PROVE  ProfilesInv'
<1> DEFINE u == profileHandler[h].user
           p == profileHandler[h].read
           n == profileHandler[h].at
<1>1. /\ u \in ProfileUsers /\ p \in Profile /\ n \in Nat
      /\ n \in 1 .. Len(had[u]) /\ p = had[u][n]
      /\ u \notin loginsRaced => newest[u] <= n /\ Saves(u) = {h}
  <2>1. profileHandler[h].pc = "saveInfo" /\ profileHandler[h] \in ProfileStates /\ InHand(h)
    BY DEF SaveUserInfo, ProfilesInv, ProfilesTyped
  <2> QED
    BY <2>1, ProfileStateFacts DEF InHand
<1>2. /\ userInfo' = [userInfo EXCEPT ![u] = p]
      /\ newest' = [newest EXCEPT ![u] = IF n > @ THEN n ELSE @]
      /\ UNCHANGED <<profile, logins, edits, asked, had, mixed, loginsRaced>>
      /\ HandlerGoes(h, NoRequest)
  BY DEF SaveUserInfo
<1> HIDE DEF u, p, n
<1>3. /\ userInfo' \in [ProfileUsers -> Profile \cup {NoProfile}]
      /\ newest' \in [ProfileUsers -> Nat]
  BY <1>1, <1>2 DEF ProfilesInv, ProfilesTyped, ProfilesTypeOK
<1>4. /\ userInfo'[u] = p /\ newest[u] \in Nat
      /\ newest'[u] = IF n > newest[u] THEN n ELSE newest[u]
      /\ \A v \in ProfileUsers \ {u} : userInfo'[v] = userInfo[v] /\ newest'[v] = newest[v]
  BY <1>1, <1>2 DEF ProfilesInv, ProfilesTyped, ProfilesTypeOK
<1>5. ASSUME NEW v \in ProfileUsers PROVE RowOf(v)'
  <2>1. RowOf(v) /\ had[v] \in Seq(Profile)
    BY DEF ProfilesInv, ProfilesTyped
  <2>2. CASE v # u
    BY <1>2, <1>4, <2>1, <2>2 DEF RowOf
  <2>3. CASE v = u
    <3>1. newest'[u] \in 1 .. Len(had[u]) /\ n \in 1 .. newest'[u]
      BY <1>1, <1>4, <2>1, <2>3 DEF RowOf
    <3>2. userInfo'[u] = had[u][n] /\ (n = newest'[u] \/ u \in loginsRaced)
      BY <1>1, <1>4
    <3> QED
      BY <1>2, <2>1, <2>3, <3>1, <3>2 DEF RowOf
  <2> QED
    BY <2>2, <2>3
<1>6. \A v \in ProfileUsers : v \in loginsRaced \/ newest'[v] = newest[v] \/ Saves(v) = {h}
  BY <1>1, <1>4
<1> QED
  BY <1>2, <1>3, <1>5, <1>6, HandlerDone

LEMMA RequestFailsKeeps ==
  ASSUME ProfilesInv, NEW h \in ProfileHandlers, RequestFails(h)
  PROVE  ProfilesInv'
<1>1. /\ HandlerGoes(h, NoRequest)
      /\ UNCHANGED <<profile, userInfo, logins, edits, asked, had, mixed, newest, loginsRaced>>
  BY DEF RequestFails
<1>2. \A u \in ProfileUsers : RowOf(u)'
  BY <1>1 DEF ProfilesInv, RowOf
<1> QED
  BY <1>1, <1>2, HandlerDone DEF ProfilesInv, ProfilesTyped, ProfilesTypeOK

LEMMA UpdateProfileKeeps ==
  ASSUME ProfilesInv, NEW h \in ProfileHandlers, UpdateProfile(h)
  PROVE  ProfilesInv'
<1>1. PICK u \in ProfileUsers, fields \in SUBSET Fields :
        /\ profile[u] # NoProfile
        /\ profileHandler' = [profileHandler EXCEPT ![h] =
                                [pc |-> "update", user |-> u, read |-> profile[u], fields |-> fields]]
        /\ mixed' = IF Updating(u) # {} THEN mixed \cup {u} ELSE mixed
  BY DEF UpdateProfile, GetByID, HandlerGoes
<1> DEFINE r == [pc |-> "update", user |-> u, read |-> profile[u], fields |-> fields]
<1>2. /\ UNCHANGED <<profile, userInfo, logins, edits, asked, had, newest, loginsRaced>>
      /\ profileHandler[h] = NoRequest
  BY DEF UpdateProfile
<1>3. profile[u] \in Profile
  BY <1>1 DEF ProfilesInv, ProfilesTyped, ProfilesTypeOK
<1>4. r \in ProfileStates
  BY <1>3 DEF ProfileStates
<1>5. r.pc = "update" /\ r.user = u /\ r.read = profile[u]
  OBVIOUS
<1> HIDE DEF r
<1>6. /\ profileHandler' \in [ProfileHandlers -> ProfileStates]
      /\ profileHandler'[h] = r
      /\ \A g \in ProfileHandlers \ {h} : profileHandler'[g] = profileHandler[g]
  BY <1>1, <1>4 DEF ProfilesInv, ProfilesTyped, r
<1>7. ProfilesTyped'
  BY <1>1, <1>2, <1>6 DEF ProfilesInv, ProfilesTyped, ProfilesTypeOK
<1>8. ASSUME NEW v \in ProfileUsers PROVE RowOf(v)'
  BY <1>1, <1>2 DEF ProfilesInv, RowOf
<1>9. \A v : /\ Updating(v)' = IF v = u THEN Updating(v) \cup {h} ELSE Updating(v)
             /\ Saves(v)' = Saves(v)
  BY <1>2, <1>5, <1>6 DEF Updating, Saves, NoRequest
<1>10. ASSUME NEW g \in ProfileHandlers PROVE InHand(g)'
  <2>1. CASE g = h
    BY <1>1, <1>2, <1>3, <1>5, <1>6, <1>9, <2>1 DEF InHand
  <2>2. CASE g # h
    <3>1. InHand(g) /\ profileHandler'[g] = profileHandler[g]
      BY <1>6, <2>2 DEF ProfilesInv
    <3>2. profileHandler[g].pc = "update" /\ profileHandler[g].user \notin mixed' =>
            profileHandler[g].user # u
      BY <1>1 DEF Updating
    <3> QED
      BY <1>1, <1>2, <1>9, <3>1, <3>2 DEF InHand
  <2> QED
    BY <2>1, <2>2
<1> QED
  BY <1>7, <1>8, <1>10 DEF ProfilesInv

LEMMA OverTyped ==
  ASSUME NEW h \in ProfileHandlers, NEW p \in Profile, edits \in 0 .. MaxEdits, edits < MaxEdits
  PROVE  Over(h, p) \in Profile /\ Over(h, p) # NoProfile
BY NoProfileAssumption, MaxEditsAssumption DEF Over, Profile, Fields

LEMMA UpdateKeeps ==
  ASSUME ProfilesInv, NEW h \in ProfileHandlers, Update(h)
  PROVE  ProfilesInv'
<1> DEFINE u == profileHandler[h].user
           p == Updated(h)
<1>1. /\ profileHandler[h].pc = "update" /\ edits < MaxEdits /\ edits' = edits + 1
      /\ profile' = [profile EXCEPT ![u] = p]
      /\ had' = [had EXCEPT ![u] = Append(@, p)]
      /\ asked' = [asked EXCEPT ![u] = Over(h, @)]
      /\ profileHandler' = [profileHandler EXCEPT ![h] = NoRequest]
      /\ UNCHANGED <<userInfo, logins, mixed, newest, loginsRaced>>
  BY DEF Update, HandlerGoes
<1>2. u \in ProfileUsers /\ profileHandler[h].read \in Profile /\ edits \in 0 .. MaxEdits
  BY <1>1, ProfileStateFacts DEF ProfilesInv, ProfilesTyped, ProfilesTypeOK
<1>3. p \in Profile /\ p # NoProfile
  BY <1>1, <1>2, OverTyped DEF Updated
<1>4. Over(h, asked[u]) \in Profile
  BY <1>1, <1>2, OverTyped DEF ProfilesInv, ProfilesTyped, ProfilesTypeOK
<1>5. u \notin mixed => p = Over(h, asked[u]) /\ Updating(u) = {h}
  BY <1>1, <1>2 DEF ProfilesInv, InHand, RowOf, Updated
<1>6. profile[u] # NoProfile /\ had[u] \in Seq(Profile) /\ newest[u] \in Nat /\ RowOf(u)
  BY <1>1, <1>2 DEF ProfilesInv, ProfilesTyped, InHand
<1> HIDE DEF p, u
<1>7. /\ profileHandler' \in [ProfileHandlers -> ProfileStates]
      /\ profileHandler'[h] = NoRequest
      /\ \A g \in ProfileHandlers \ {h} : profileHandler'[g] = profileHandler[g]
  BY <1>1 DEF ProfilesInv, ProfilesTyped, ProfileStates
<1>8. /\ profile'[u] = p /\ had'[u] = Append(had[u], p) /\ asked'[u] = Over(h, asked[u])
      /\ \A v \in ProfileUsers \ {u} :
           profile'[v] = profile[v] /\ had'[v] = had[v] /\ asked'[v] = asked[v]
  BY <1>1, <1>2 DEF ProfilesInv, ProfilesTyped, ProfilesTypeOK
<1>9. /\ Len(had'[u]) = Len(had[u]) + 1 /\ had'[u][Len(had'[u])] = p
      /\ \A n \in 1 .. Len(had[u]) : had'[u][n] = had[u][n]
      /\ had'[u] \in Seq(Profile)
  BY <1>3, <1>6, <1>8
<1>10. Len(had[u]) \in Nat
  BY <1>6
<1>11. ProfilesTyped'
  <2>1. /\ profile' \in [ProfileUsers -> Profile \cup {NoProfile}]
        /\ had' \in [ProfileUsers -> Seq(Profile)]
        /\ asked' \in [ProfileUsers -> Profile]
    <3>1. Append(had[u], p) \in Seq(Profile)
      BY <1>8, <1>9
    <3> QED
      BY <1>1, <1>2, <1>3, <1>4, <3>1 DEF ProfilesInv, ProfilesTyped, ProfilesTypeOK
  <2>2. edits' \in 0 .. MaxEdits
    BY <1>1, <1>2, MaxEditsAssumption
  <2> QED
    BY <1>1, <1>7, <2>1, <2>2 DEF ProfilesInv, ProfilesTyped, ProfilesTypeOK
<1>12. ASSUME NEW v \in ProfileUsers PROVE RowOf(v)'
  <2>1. RowOf(v)
    BY DEF ProfilesInv
  <2>2. CASE v # u
    BY <1>1, <1>8, <2>1, <2>2 DEF RowOf
  <2>3. CASE v = u
    <3>1. /\ Len(had'[u]) > 0 /\ newest[u] <= Len(had'[u])
          /\ \A n \in 1 .. newest[u] : had'[u][n] = had[u][n]
      BY <1>6, <1>9, <1>10 DEF RowOf
    <3> QED
      BY <1>1, <1>3, <1>5, <1>6, <1>8, <1>9, <2>1, <2>3, <3>1 DEF RowOf
  <2> QED
    BY <2>2, <2>3
<1>13. ASSUME NEW g \in ProfileHandlers PROVE InHand(g)'
  <2>1. CASE g = h
    BY <1>7, <2>1 DEF InHand, NoRequest
  <2>2. CASE g # h
    <3>1. InHand(g) /\ profileHandler'[g] = profileHandler[g] /\ profileHandler[g] \in ProfileStates
      BY <1>7, <2>2 DEF ProfilesInv, ProfilesTyped
    <3>2. \A v : Updating(v)' = Updating(v) \ {h} /\ Saves(v)' = Saves(v)
      BY <1>1, <1>7 DEF Updating, Saves, NoRequest
    <3>3. CASE profileHandler[g].pc = "idle"
      BY <3>1, <3>3 DEF InHand
    <3>4. CASE profileHandler[g].pc # "idle" /\ profileHandler[g].user # u
      <4>1. profileHandler[g].user \in ProfileUsers
        BY <3>1, <3>4, ProfileStateFacts
      <4>2. /\ profile'[profileHandler[g].user] = profile[profileHandler[g].user]
            /\ had'[profileHandler[g].user] = had[profileHandler[g].user]
        BY <1>8, <3>4, <4>1
      <4> QED
        BY <1>1, <2>2, <3>1, <3>2, <4>2 DEF InHand
    <3>5. CASE profileHandler[g].pc = "saveInfo" /\ profileHandler[g].user = u
      <4>1. /\ profileHandler[g].at \in 1 .. Len(had[u])
            /\ profileHandler[g].read = had[u][profileHandler[g].at]
            /\ u \notin loginsRaced => newest[u] <= profileHandler[g].at /\ Saves(u) = {g}
        BY <3>1, <3>5 DEF InHand
      <4>2. /\ profileHandler[g].at \in 1 .. Len(had'[u])
            /\ profileHandler[g].read = had'[u][profileHandler[g].at]
        BY <1>9, <1>10, <4>1
      <4> QED
        BY <1>1, <1>3, <1>8, <3>1, <3>2, <3>5, <4>1, <4>2 DEF InHand
    <3>6. CASE profileHandler[g].pc = "update" /\ profileHandler[g].user = u
      <4>1. u \in mixed
        BY <1>5, <2>2, <3>6 DEF Updating
      <4> QED
        BY <1>1, <1>3, <1>8, <3>1, <3>6, <4>1 DEF InHand
    <3> QED
      BY <3>1, <3>3, <3>4, <3>5, <3>6, ProfileStateFacts
  <2> QED
    BY <2>1, <2>2
<1> QED
  BY <1>11, <1>12, <1>13 DEF ProfilesInv

LEMMA ProfilesInvInit == ProfilesInit => ProfilesInv
<1> SUFFICES ASSUME ProfilesInit PROVE ProfilesInv
  OBVIOUS
<1>1. FirstProfile \in Profile
  BY MaxEditsAssumption DEF FirstProfile, Profile
<1>2. ProfilesTyped
  BY <1>1, MaxEditsAssumption, MaxLoginsAssumption
  DEF ProfilesInit, ProfilesTyped, ProfilesTypeOK, ProfileStates
<1> QED
  BY <1>2 DEF ProfilesInit, ProfilesInv, RowOf, InHand, NoRequest

LEMMA ProfilesInvStep == ProfilesInv /\ [ProfilesNext]_profilesVars => ProfilesInv'
<1> SUFFICES ASSUME ProfilesInv, [ProfilesNext]_profilesVars PROVE ProfilesInv'
  OBVIOUS
<1>1. CASE UNCHANGED profilesVars
  BY <1>1
  DEF profilesVars, ProfilesInv, ProfilesTyped, ProfilesTypeOK, RowOf, InHand, Updating, Saves
<1>2. ASSUME NEW h \in ProfileHandlers,
             CreateUser(h) \/ ReadAtLogin(h) \/ SaveUserInfo(h)
             \/ UpdateProfile(h) \/ Update(h) \/ RequestFails(h)
      PROVE  ProfilesInv'
  BY <1>2, CreateUserKeeps, ReadAtLoginKeeps, SaveUserInfoKeeps, UpdateProfileKeeps,
     UpdateKeeps, RequestFailsKeeps
<1> QED
  BY <1>1, <1>2 DEF ProfilesNext

\* A field stays as the last request that named it asked, unless two updates
\* were under way at once; and a room shows the newest of the profiles that logins
\* and the registration have saved, unless two of them overlapped, but not what was
\* changed since.  For any users, handlers and bounds.
THEOREM ProfilesSound == ProfilesSpec => [](ProfilesTypeOK /\ ProfilesKept)
<1>1. ProfilesInv => ProfilesTypeOK /\ ProfilesKept
  BY ProfilesInvKept
<1> QED
  BY <1>1, ProfilesInvInit, ProfilesInvStep, PTL DEF ProfilesSpec

-----------------------------------------------------------------------------
(* Natural induction as a fact about sets, and functions that are sequences. *)

LEMMA NatSetInduction ==
  ASSUME NEW S, 0 \in S, \A n \in Nat : n \in S => n + 1 \in S
  PROVE  Nat \subseteq S
<1> DEFINE R == OpToRel(<, Nat)
           T == Nat \ S
<1>1. IsWellFoundedOn(R, Nat)
  BY NatLessThanWellFounded
<1>2. SUFFICES ASSUME T # {} PROVE FALSE
  OBVIOUS
<1>3. PICK x \in T : \A y \in T : ~ (<<y, x>> \in R)
  <2> HIDE DEF R
  <2> QED
    BY <1>1, <1>2, WFMin
<1>4. x \in Nat /\ x # 0 /\ x - 1 \in Nat /\ x - 1 < x
  OBVIOUS
<1>5. <<x - 1, x>> \in R
  BY <1>4 DEF OpToRel
<1>6. x - 1 \in S
  BY <1>3, <1>4, <1>5
<1> QED
  BY <1>4, <1>6

LEMMA FcnIsSeq ==
  ASSUME NEW S, NEW n \in Nat, NEW f \in [1 .. n -> S]
  PROVE  f \in Seq(S) /\ DOMAIN f = 1 .. n /\ Len(f) = n
<1>1. f \in Seq(S)
  BY SeqDef
<1>2. DOMAIN f = 1 .. n /\ DOMAIN f = 1 .. Len(f) /\ Len(f) \in Nat
  BY <1>1, LenProperties
<1>3. Len(f) = n
  BY <1>2
<1> QED
  BY <1>1, <1>2, <1>3

-----------------------------------------------------------------------------
(* The operators of the stores. *)

Message == [id : Nat, status : {"sent", "pending", "failed"}]
Conversation == [peer : Peers, unread : Nat]
Pushed(id) == [id |-> id, status |-> "sent"]

Distinct(msgs) == \A i, j \in DOMAIN msgs : msgs[i].id = msgs[j].id => i = j
Singled(convs) == \A i, j \in DOMAIN convs : convs[i].peer = convs[j].peer => i = j

\* p is listed with an unread count of at least c.
Counts(convs, p, c) == \E i \in Find(convs, p) : convs[i].unread >= c

\* p's unread count, if it is listed, is at most c.
AtMost(convs, p, c) == \A i \in Find(convs, p) : convs[i].unread <= c

LEMMA ConversationType ==
  ASSUME NEW convs \in Seq(Conversation), NEW i \in DOMAIN convs
  PROVE  convs[i].peer \in Peers /\ convs[i].unread \in Nat
<1>1. DOMAIN convs = 1 .. Len(convs)
  OBVIOUS
<1>2. convs[i] \in Conversation
  BY <1>1, ElementOfSeq
<1> QED
  BY <1>2 DEF Conversation

LEMMA AddMessageFacts ==
  ASSUME NEW msgs \in Seq(Message), NEW msg \in Message, Distinct(msgs)
  PROVE  LET new == AddMessage(msgs, msg)
         IN /\ new \in Seq(Message) /\ Distinct(new)
            /\ \A i \in DOMAIN new :
                 \/ i \in DOMAIN msgs /\ new[i] = msgs[i]
                 \/ new[i] = msg /\ \A j \in DOMAIN msgs : msgs[j].id # msg.id
            /\ AddMessage(new, msg) = new
            /\ Ids(new) = Ids(msgs) \cup {msg.id}
<1>1. CASE \E i \in DOMAIN msgs : msgs[i].id = msg.id
  BY <1>1 DEF AddMessage, Ids
<1>2. CASE \A i \in DOMAIN msgs : msgs[i].id # msg.id
  <2> DEFINE new == Append(msgs, msg)
  <2>1. AddMessage(msgs, msg) = new
    BY <1>2 DEF AddMessage
  <2>2. /\ new \in Seq(Message) /\ Len(msgs) \in Nat /\ Len(new) = Len(msgs) + 1
        /\ DOMAIN msgs = 1 .. Len(msgs) /\ DOMAIN new = 1 .. Len(msgs) + 1
        /\ new[Len(msgs) + 1] = msg /\ \A i \in 1 .. Len(msgs) : new[i] = msgs[i]
    OBVIOUS
  <2> HIDE DEF new
  <2>3. Distinct(new)
    BY <1>2, <2>2 DEF Distinct
  <2>4. AddMessage(new, msg) = new
    BY <2>2 DEF AddMessage
  <2>5. Ids(new) = Ids(msgs) \cup {msg.id}
    <3>1. ASSUME NEW x PROVE x \in Ids(new) <=> x \in Ids(msgs) \cup {msg.id}
      <4>1. ASSUME x \in Ids(new) PROVE x \in Ids(msgs) \cup {msg.id}
        <5>1. PICK i \in DOMAIN new : new[i].id = x
          BY <4>1 DEF Ids
        <5>2. i = Len(msgs) + 1 \/ i \in 1 .. Len(msgs)
          BY <2>2
        <5> QED
          BY <2>2, <5>1, <5>2 DEF Ids
      <4>2. ASSUME x \in Ids(msgs) PROVE x \in Ids(new)
        <5>1. PICK i \in DOMAIN msgs : msgs[i].id = x
          BY <4>2 DEF Ids
        <5>2. i \in DOMAIN new /\ new[i] = msgs[i]
          BY <2>2, <5>1
        <5> QED
          BY <5>1, <5>2 DEF Ids
      <4>3. msg.id \in Ids(new)
        <5>1. Len(msgs) + 1 \in DOMAIN new
          BY <2>2
        <5> QED
          BY <2>2, <5>1 DEF Ids
      <4> QED
        BY <4>1, <4>2, <4>3
    <3> QED
      BY <3>1
  <2> QED
    BY <1>2, <2>1, <2>2, <2>3, <2>4, <2>5
<1> QED
  BY <1>1, <1>2

LEMMA UpdateConversationFacts ==
  ASSUME NEW convs \in Seq(Conversation), Singled(convs), NEW p \in Peers, NEW unread \in Nat
  PROVE  LET new == UpdateConversation(convs, p, unread)
         IN /\ new \in Seq(Conversation) /\ Singled(new)
            /\ DOMAIN new = DOMAIN convs
            /\ \A i \in DOMAIN convs :
                 /\ new[i].peer = convs[i].peer
                 /\ new[i].unread = IF convs[i].peer = p THEN unread ELSE convs[i].unread
            /\ \A q \in Peers : Find(new, q) = Find(convs, q)
<1> DEFINE new == UpdateConversation(convs, p, unread)
<1>1. Len(convs) \in Nat /\ DOMAIN convs = 1 .. Len(convs)
  OBVIOUS
<1>2. \A i \in DOMAIN convs : convs[i] \in Conversation
  BY <1>1
<1>3. \A i \in DOMAIN convs :
        new[i] = IF convs[i].peer = p THEN [peer |-> p, unread |-> unread] ELSE convs[i]
  BY <1>2 DEF UpdateConversation, Conversation
<1>4. new \in [1 .. Len(convs) -> Conversation]
  BY <1>1, <1>2, <1>3 DEF UpdateConversation, Conversation
<1>5. new \in Seq(Conversation) /\ DOMAIN new = DOMAIN convs
  BY <1>1, <1>4, FcnIsSeq
<1> HIDE DEF new
<1>6. \A i \in DOMAIN convs :
        /\ new[i].peer = convs[i].peer
        /\ new[i].unread = IF convs[i].peer = p THEN unread ELSE convs[i].unread
  BY <1>3
<1>7. Singled(new)
  BY <1>5, <1>6 DEF Singled
<1>8. \A q \in Peers : Find(new, q) = Find(convs, q)
  BY <1>5, <1>6 DEF Find
<1> QED
  BY <1>5, <1>6, <1>7, <1>8 DEF new

LEMMA PrependFacts ==
  ASSUME NEW convs \in Seq(Conversation), Singled(convs), NEW p \in Peers, NEW unread \in Nat,
         Find(convs, p) = {}
  PROVE  LET new == <<[peer |-> p, unread |-> unread]>> \o convs
         IN /\ new \in Seq(Conversation) /\ Singled(new)
            /\ Counts(new, p, unread)
            /\ AtMost(new, p, unread)
            /\ \A q \in Peers : \A c \in Nat : Counts(convs, q, c) => Counts(new, q, c)
            /\ \A q \in Peers \ {p} : \A c \in Nat : AtMost(convs, q, c) => AtMost(new, q, c)
<1> DEFINE x == [peer |-> p, unread |-> unread]
           new == <<x>> \o convs
<1>1. x \in Conversation /\ x.peer = p /\ x.unread = unread
  BY DEF Conversation
<1> HIDE DEF x
<1>2. <<x>> \in Seq(Conversation) /\ Len(<<x>>) = 1 /\ <<x>>[1] = x
  BY <1>1
<1>3. Len(convs) \in Nat /\ DOMAIN convs = 1 .. Len(convs)
  OBVIOUS
<1>4. /\ new \in Seq(Conversation) /\ Len(new) = 1 + Len(convs)
      /\ \A i \in 1 .. 1 + Len(convs) : new[i] = IF i <= 1 THEN <<x>>[i] ELSE convs[i - 1]
  BY <1>2, ConcatProperties
<1>5. DOMAIN new = 1 .. Len(convs) + 1 /\ new[1] = x /\ \A i \in 2 .. Len(convs) + 1 : new[i] = convs[i - 1]
  <2>1. DOMAIN new = 1 .. Len(new)
    BY <1>4
  <2> QED
    BY <1>2, <1>3, <1>4, <2>1
<1> HIDE DEF new
<1>6. \A i \in DOMAIN convs : convs[i].peer # p
  BY DEF Find
<1>7. Singled(new)
  <2> SUFFICES ASSUME NEW i \in DOMAIN new, NEW j \in DOMAIN new, new[i].peer = new[j].peer
               PROVE  i = j
    BY DEF Singled
  <2>0. \A k \in DOMAIN new : k # 1 => k - 1 \in DOMAIN convs /\ new[k] = convs[k - 1]
    BY <1>3, <1>5
  <2>1. CASE i = 1 /\ j # 1
    BY <1>1, <1>5, <1>6, <2>0, <2>1
  <2>2. CASE i # 1 /\ j = 1
    BY <1>1, <1>5, <1>6, <2>0, <2>2
  <2>3. CASE i # 1 /\ j # 1
    <3>1. i - 1 \in DOMAIN convs /\ j - 1 \in DOMAIN convs /\ new[i] = convs[i - 1] /\ new[j] = convs[j - 1]
      BY <1>3, <1>5, <2>3
    <3>2. i - 1 = j - 1
      BY <3>1 DEF Singled
    <3> QED
      BY <1>3, <1>5, <3>2
  <2> QED
    BY <2>1, <2>2, <2>3
<1>8. Counts(new, p, unread)
  <2>1. 1 \in Find(new, p) /\ new[1].unread >= unread
    BY <1>1, <1>3, <1>5 DEF Find
  <2> QED
    BY <2>1 DEF Counts
<1>9. ASSUME NEW q \in Peers, NEW c \in Nat, Counts(convs, q, c) PROVE Counts(new, q, c)
  <2>1. PICK i \in Find(convs, q) : convs[i].unread >= c
    BY <1>9 DEF Counts
  <2>2. i \in 1 .. Len(convs) /\ convs[i].peer = q
    BY <1>3 DEF Find
  <2>3. i + 1 \in 2 .. Len(convs) + 1 /\ (i + 1) - 1 = i
    BY <1>3, <2>2
  <2>4. new[i + 1] = convs[i]
    BY <1>5, <2>3
  <2>5. i + 1 \in Find(new, q)
    BY <1>3, <1>5, <2>2, <2>3, <2>4 DEF Find
  <2> QED
    BY <2>1, <2>4, <2>5 DEF Counts
<1>10. \A i \in DOMAIN new : i = 1 \/ (i - 1 \in DOMAIN convs /\ new[i] = convs[i - 1])
  BY <1>3, <1>5
<1>11. AtMost(new, p, unread)
  BY <1>1, <1>5, <1>6, <1>10 DEF AtMost, Find
<1>12. ASSUME NEW q \in Peers \ {p}, NEW c \in Nat, AtMost(convs, q, c) PROVE AtMost(new, q, c)
  BY <1>1, <1>5, <1>10, <1>12 DEF AtMost, Find
<1> QED
  BY <1>4, <1>7, <1>8, <1>9, <1>11, <1>12 DEF new, x

-----------------------------------------------------------------------------
(* A push at all the listeners. *)

Stores == [history : [Peers -> Seq(Message)], conversations : Seq(Conversation)]

StoreOK(st) ==
  /\ st \in Stores
  /\ Singled(st.conversations)
  /\ \A p \in Peers : Distinct(st.history[p])

LEMMA OneHandles ==
  ASSUME NEW st, StoreOK(st), NEW p \in Peers, NEW id \in Nat
  PROVE  LET new == HandleChatPush(st, p, id)
         IN /\ StoreOK(new)
            /\ new.history = [st.history EXCEPT ![p] = AddMessage(@, Pushed(id))]
            /\ \A q \in Peers \ {p} : \A c \in Nat :
                 Counts(st.conversations, q, c) => Counts(new.conversations, q, c)
            /\ Counts(new.conversations, p, 0)
            /\ active # p =>
                 /\ Counts(new.conversations, p, 1)
                 /\ \A c \in Nat :
                      Counts(st.conversations, p, c) => Counts(new.conversations, p, c + 1)
            /\ \A q \in Peers \ {p} : \A c \in Nat :
                 AtMost(st.conversations, q, c) => AtMost(new.conversations, q, c)
            /\ \A c \in Nat :
                 AtMost(st.conversations, p, c) => AtMost(new.conversations, p, c + 1)
<1> DEFINE convs == st.conversations
           new == HandleChatPush(st, p, id)
<1>1. convs \in Seq(Conversation) /\ Singled(convs) /\ st.history \in [Peers -> Seq(Message)]
  BY DEF StoreOK, Stores
<1>2. new.history = [st.history EXCEPT ![p] = AddMessage(@, Pushed(id))]
  BY DEF HandleChatPush, Pushed
<1>3. Pushed(id) \in Message /\ Distinct(st.history[p]) /\ st.history[p] \in Seq(Message)
  BY <1>1 DEF Pushed, Message, StoreOK
<1>4. AddMessage(st.history[p], Pushed(id)) \in Seq(Message)
      /\ Distinct(AddMessage(st.history[p], Pushed(id)))
  BY <1>3, AddMessageFacts
<1>5. /\ new.history \in [Peers -> Seq(Message)]
      /\ \A q \in Peers : Distinct(new.history[q])
  BY <1>1, <1>2, <1>4 DEF StoreOK
<1>6. CASE Find(convs, p) = {}
  <2>1. new.conversations = <<[peer |-> p, unread |-> 1]>> \o convs
    BY <1>6 DEF HandleChatPush
  <2>2. /\ new.conversations \in Seq(Conversation) /\ Singled(new.conversations)
        /\ Counts(new.conversations, p, 1)
        /\ AtMost(new.conversations, p, 1)
        /\ \A q \in Peers : \A c \in Nat : Counts(convs, q, c) => Counts(new.conversations, q, c)
        /\ \A q \in Peers \ {p} : \A c \in Nat :
             AtMost(convs, q, c) => AtMost(new.conversations, q, c)
    <3> DEFINE nc == new.conversations
    <3>1. nc = <<[peer |-> p, unread |-> 1]>> \o convs
      BY <2>1
    <3> HIDE DEF nc, convs
    <3>2. /\ nc \in Seq(Conversation) /\ Singled(nc)
          /\ Counts(nc, p, 1) /\ AtMost(nc, p, 1)
          /\ \A q \in Peers : \A c \in Nat : Counts(convs, q, c) => Counts(nc, q, c)
          /\ \A q \in Peers \ {p} : \A c \in Nat : AtMost(convs, q, c) => AtMost(nc, q, c)
      BY <1>1, <1>6, <3>1, PrependFacts
    <3> QED
      BY <3>2 DEF nc
  <2>3. \A c \in Nat : ~Counts(convs, p, c)
    BY <1>6 DEF Counts
  <2>4. Counts(new.conversations, p, 0)
    <3>1. PICK i \in Find(new.conversations, p) : new.conversations[i].unread >= 1
      BY <2>2 DEF Counts
    <3>2. new.conversations[i].unread \in Nat
      <4> DEFINE nc == new.conversations
      <4>1. nc \in Seq(Conversation) /\ i \in DOMAIN nc
        BY <2>2, <3>1 DEF Find
      <4> HIDE DEF nc
      <4>2. nc[i].unread \in Nat
        BY <4>1, ConversationType
      <4> QED
        BY <4>2 DEF nc
    <3> QED
      BY <3>1, <3>2 DEF Counts
  <2>5. StoreOK(new)
    BY <1>5, <2>2 DEF StoreOK, Stores, HandleChatPush
  <2>6. \A c \in Nat : AtMost(new.conversations, p, c + 1)
    <3> DEFINE nc == new.conversations
    <3>1. nc \in Seq(Conversation) /\ AtMost(nc, p, 1)
      BY <2>2
    <3> HIDE DEF nc
    <3>2. \A i \in Find(nc, p) : nc[i].unread \in Nat /\ nc[i].unread <= 1
      BY <3>1, ConversationType DEF AtMost, Find
    <3>3. \A c \in Nat : AtMost(nc, p, c + 1)
      BY <3>2 DEF AtMost
    <3> QED
      BY <3>3 DEF nc
  <2> QED
    BY <1>2, <2>2, <2>3, <2>4, <2>5, <2>6
<1>7. CASE Find(convs, p) # {}
  <2> DEFINE e == CHOOSE i \in Find(convs, p) : TRUE
             u == UnreadAfter(p, convs[e].unread)
  <2>1. e \in Find(convs, p)
    BY <1>7
  <2>2. new.conversations = UpdateConversation(convs, p, u)
    BY <1>7 DEF HandleChatPush
  <2> HIDE DEF e
  <2>3. e \in DOMAIN convs /\ convs[e].peer = p /\ convs[e].unread \in Nat
    <3>1. e \in DOMAIN convs /\ convs[e].peer = p
      BY <2>1 DEF Find
    <3> HIDE DEF convs
    <3> QED
      BY <1>1, <3>1, ConversationType
  <2>4. u \in Nat /\ (active # p => u = convs[e].unread + 1) /\ u <= convs[e].unread + 1
    BY <2>3 DEF UnreadAfter
  <2> HIDE DEF u
  <2>5. /\ new.conversations \in Seq(Conversation) /\ Singled(new.conversations)
        /\ \A i \in DOMAIN convs :
             new.conversations[i].unread = IF convs[i].peer = p THEN u ELSE convs[i].unread
        /\ \A q \in Peers : Find(new.conversations, q) = Find(convs, q)
    <3> DEFINE nc == new.conversations
    <3>1. nc = UpdateConversation(convs, p, u)
      BY <2>2
    <3> HIDE DEF nc, convs
    <3>2. /\ nc \in Seq(Conversation) /\ Singled(nc)
          /\ \A i \in DOMAIN convs : nc[i].unread = IF convs[i].peer = p THEN u ELSE convs[i].unread
          /\ \A q \in Peers : Find(nc, q) = Find(convs, q)
      <4>1. u \in Nat /\ convs \in Seq(Conversation) /\ Singled(convs)
        BY <1>1, <2>4
      <4> QED
        BY <3>1, <4>1, UpdateConversationFacts
    <3> QED
      BY <3>2 DEF nc
  <2>6. \A q \in Peers \ {p} : \A c \in Nat : Counts(convs, q, c) => Counts(new.conversations, q, c)
    BY <2>5 DEF Counts, Find
  <2>7. new.conversations[e].unread = u /\ e \in Find(new.conversations, p)
    BY <2>1, <2>3, <2>5
  <2>8. Counts(new.conversations, p, 0)
    BY <2>4, <2>7 DEF Counts
  <2>9. active # p =>
          /\ Counts(new.conversations, p, 1)
          /\ \A c \in Nat : Counts(convs, p, c) => Counts(new.conversations, p, c + 1)
    <3> SUFFICES ASSUME active # p
                 PROVE  /\ Counts(new.conversations, p, 1)
                        /\ \A c \in Nat : Counts(convs, p, c) => Counts(new.conversations, p, c + 1)
      OBVIOUS
    <3>1. u >= 1
      BY <2>3, <2>4
    <3>2. \A c \in Nat : Counts(convs, p, c) => convs[e].unread >= c
      BY <1>1, <2>1, <2>3 DEF Counts, Find, Singled
    <3>3. \A c \in Nat : Counts(convs, p, c) => u >= c + 1
      BY <2>3, <2>4, <3>2
    <3> QED
      BY <2>7, <3>1, <3>3 DEF Counts
  <2>10. StoreOK(new)
    BY <1>5, <2>5 DEF StoreOK, Stores, HandleChatPush
  <2>11. \A q \in Peers \ {p} : \A c \in Nat : AtMost(convs, q, c) => AtMost(new.conversations, q, c)
    BY <2>5 DEF AtMost, Find
  <2>12. ASSUME NEW c \in Nat, AtMost(convs, p, c) PROVE AtMost(new.conversations, p, c + 1)
    <3>1. convs[e].unread <= c
      BY <2>1, <2>12 DEF AtMost
    <3>2. u <= c + 1
      BY <2>3, <2>4, <3>1
    <3> QED
      BY <2>5, <3>2 DEF AtMost, Find
  <2> QED
    BY <1>2, <2>5, <2>6, <2>8, <2>9, <2>10, <2>11, <2>12
<1> QED
  BY <1>6, <1>7

\* What n listeners make of a push: the message is there once, the other
\* conversations count as before, and p's counts more unless it is open, but not
\* more than once for each of them.
AfterPush(st, p, id, n) ==
  /\ StoreOK(st)
  /\ \A q \in Peers \ {p} : \A c \in Nat :
       Counts(conversations, q, c) => Counts(st.conversations, q, c)
  /\ \A q \in Peers \ {p} : \A c \in Nat :
       AtMost(conversations, q, c) => AtMost(st.conversations, q, c)
  /\ \A c \in Nat : AtMost(conversations, p, c) => AtMost(st.conversations, p, c + n)
  /\ n = 0 => st.history = history /\ st.conversations = conversations
  /\ n # 0 =>
       /\ st.history = [history EXCEPT ![p] = AddMessage(@, Pushed(id))]
       /\ Counts(st.conversations, p, 0)
       /\ active # p =>
            /\ Counts(st.conversations, p, 1)
            /\ \A c \in Nat : Counts(conversations, p, c) => Counts(st.conversations, p, c + 1)

Now == [history |-> history, conversations |-> conversations]

LEMMA CountsLess ==
  ASSUME NEW convs \in Seq(Conversation), NEW p \in Peers, NEW c \in Nat, Counts(convs, p, c + 1)
  PROVE  Counts(convs, p, c)
<1>1. PICK i \in Find(convs, p) : convs[i].unread >= c + 1
  BY DEF Counts
<1>2. convs[i].unread \in Nat
  BY <1>1, ConversationType DEF Find
<1> QED
  BY <1>1, <1>2 DEF Counts

LEMMA OneMore ==
  ASSUME StoreOK(Now), NEW p \in Peers, NEW id \in Nat, NEW n \in Nat, NEW st,
         AfterPush(st, p, id, n)
  PROVE  AfterPush(HandleChatPush(st, p, id), p, id, n + 1)
<1> DEFINE new == HandleChatPush(st, p, id)
<1>1. /\ StoreOK(new)
      /\ new.history = [st.history EXCEPT ![p] = AddMessage(@, Pushed(id))]
      /\ \A q \in Peers \ {p} : \A c \in Nat :
           Counts(st.conversations, q, c) => Counts(new.conversations, q, c)
      /\ Counts(new.conversations, p, 0)
      /\ active # p =>
           /\ Counts(new.conversations, p, 1)
           /\ \A c \in Nat :
                Counts(st.conversations, p, c) => Counts(new.conversations, p, c + 1)
      /\ \A q \in Peers \ {p} : \A c \in Nat :
           AtMost(st.conversations, q, c) => AtMost(new.conversations, q, c)
      /\ \A c \in Nat :
           AtMost(st.conversations, p, c) => AtMost(new.conversations, p, c + 1)
  BY OneHandles DEF AfterPush
<1> HIDE DEF new
<1>2. new.history = [history EXCEPT ![p] = AddMessage(@, Pushed(id))]
  <2>1. CASE n = 0
    BY <1>1, <2>1 DEF AfterPush
  <2>2. CASE n # 0
    <3>1. history[p] \in Seq(Message) /\ Distinct(history[p]) /\ history \in [Peers -> Seq(Message)]
      BY DEF StoreOK, Stores, Now
    <3>2. Pushed(id) \in Message
      BY DEF Pushed, Message
    <3>3. AddMessage(AddMessage(history[p], Pushed(id)), Pushed(id)) = AddMessage(history[p], Pushed(id))
      BY <3>1, <3>2, AddMessageFacts
    <3>4. st.history = [history EXCEPT ![p] = AddMessage(history[p], Pushed(id))]
      BY <2>2 DEF AfterPush
    <3>5. st.history[p] = AddMessage(history[p], Pushed(id))
      BY <3>1, <3>4
    <3>6. new.history = [st.history EXCEPT ![p] = st.history[p]]
      BY <1>1, <3>3, <3>5
    <3> QED
      BY <3>1, <3>4, <3>5, <3>6
  <2> QED
    BY <2>1, <2>2
<1>3. \A q \in Peers \ {p} : \A c \in Nat :
        Counts(conversations, q, c) => Counts(new.conversations, q, c)
  BY <1>1 DEF AfterPush
<1>4. ASSUME active # p, NEW c \in Nat, Counts(conversations, p, c)
      PROVE  Counts(new.conversations, p, c + 1)
  <2>1. CASE n = 0
    BY <1>1, <1>4, <2>1 DEF AfterPush
  <2>2. CASE n # 0
    <3>1. Counts(st.conversations, p, c + 1) /\ st.conversations \in Seq(Conversation)
      BY <1>4, <2>2 DEF AfterPush, StoreOK, Stores
    <3>2. Counts(st.conversations, p, c)
      BY <3>1, CountsLess
    <3> QED
      BY <1>1, <1>4, <3>2
  <2> QED
    BY <2>1, <2>2
<1>5. n + 1 # 0
  OBVIOUS
<1>6. ASSUME NEW c \in Nat, AtMost(conversations, p, c)
      PROVE  AtMost(new.conversations, p, c + (n + 1))
  <2>1. AtMost(st.conversations, p, c + n) /\ c + n \in Nat
    BY <1>6 DEF AfterPush
  <2>2. AtMost(new.conversations, p, (c + n) + 1)
    BY <1>1, <2>1
  <2>3. (c + n) + 1 = c + (n + 1)
    OBVIOUS
  <2> QED
    BY <2>2, <2>3
<1>7. \A q \in Peers \ {p} : \A c \in Nat :
        AtMost(conversations, q, c) => AtMost(new.conversations, q, c)
  BY <1>1 DEF AfterPush
<1> QED
  BY <1>1, <1>2, <1>3, <1>4, <1>5, <1>6, <1>7 DEF AfterPush, new

LEMMA AllHandleFacts ==
  ASSUME listeners \in Nat, StoreOK(Now), NEW p \in Peers, NEW id \in Nat
  PROVE  AfterPush(AllHandle(p, id), p, id, listeners)
<1> DEFINE Over1(f, m) == [n \in 0 .. m |-> IF n = 0 THEN Now ELSE HandleChatPush(f[n - 1], p, id)]
           handled == CHOOSE f : f = Over1(f, listeners)
<1>1. AllHandle(p, id) = handled[listeners]
  BY Zenon DEF AllHandle, Now
<1>2. \E f : f = Over1(f, listeners)
  <2> DEFINE S == {m \in Nat : \E f : f = Over1(f, m)}
  <2>1. 0 \in S
    <3>1. [n \in 0 .. 0 |-> Now] = Over1([n \in 0 .. 0 |-> Now], 0)
      OBVIOUS
    <3> QED
      BY <3>1
  <2>2. ASSUME NEW m \in Nat, m \in S PROVE m + 1 \in S
    <3>1. PICK f : f = Over1(f, m)
      BY <2>2
    <3> DEFINE g == [n \in 0 .. m + 1 |-> IF n = m + 1 THEN HandleChatPush(f[m], p, id) ELSE f[n]]
    <3>2. ASSUME NEW n \in 0 .. m + 1
          PROVE  g[n] = IF n = 0 THEN Now ELSE HandleChatPush(g[n - 1], p, id)
      <4>1. CASE n = m + 1
        <5>1. g[n] = HandleChatPush(f[m], p, id) /\ n - 1 = m /\ m \in 0 .. m + 1 /\ m # m + 1 /\ n # 0
          BY <4>1
        <5>2. g[n - 1] = f[m]
          BY <5>1
        <5> QED
          BY <5>1, <5>2
      <4>2. CASE n # m + 1
        <5>1. n \in 0 .. m /\ g[n] = f[n]
          BY <4>2
        <5>2. f[n] = IF n = 0 THEN Now ELSE HandleChatPush(f[n - 1], p, id)
          BY <3>1, <5>1
        <5>3. n # 0 => n - 1 \in 0 .. m + 1 /\ n - 1 # m + 1 /\ g[n - 1] = f[n - 1]
          BY <4>2
        <5> QED
          BY <5>1, <5>2, <5>3
      <4> QED
        BY <4>1, <4>2
    <3>3. g = Over1(g, m + 1)
      BY <3>2
    <3> HIDE DEF g
    <3> QED
      BY <3>3
  <2> HIDE DEF S
  <2>3. Nat \subseteq S
    BY <2>1, <2>2, NatSetInduction
  <2> QED
    BY <2>3 DEF S
<1>3. handled = Over1(handled, listeners)
  BY <1>2
<1> HIDE DEF handled
<1>4. handled[0] = Now /\ \A n \in 1 .. listeners : handled[n] = HandleChatPush(handled[n - 1], p, id)
  BY <1>3
<1> DEFINE S == {n \in Nat : n <= listeners => AfterPush(handled[n], p, id, n)}
<1>5. 0 \in S
  <2>1. \A c \in Nat : c + 0 = c
    OBVIOUS
  <2>2. AfterPush(Now, p, id, 0)
    BY <2>1 DEF AfterPush, Now
  <2> QED
    BY <1>4, <2>2
<1>6. ASSUME NEW n \in Nat, n \in S PROVE n + 1 \in S
  <2> SUFFICES ASSUME n + 1 <= listeners PROVE AfterPush(handled[n + 1], p, id, n + 1)
    OBVIOUS
  <2>1. AfterPush(handled[n], p, id, n)
    BY <1>6
  <2>2. handled[n + 1] = HandleChatPush(handled[n], p, id)
    BY <1>4
  <2> QED
    BY <2>1, <2>2, OneMore
<1> HIDE DEF S
<1>7. listeners \in S
  BY <1>5, <1>6, NatSetInduction
<1> QED
  BY <1>1, <1>7 DEF S

-----------------------------------------------------------------------------
(* The inductive invariant of ClientInbox. *)

InboxTyped ==
  /\ {listeners, pushCount, own} \subseteq Nat
  /\ StoreOK(Now)
  /\ active \in Peers \cup {Nobody}
  /\ arrived \in [Peers -> 0 .. MaxMessages]
  /\ missed \in [Peers -> SUBSET (1 .. MaxMessages)]
  /\ unheard \in [Peers -> SUBSET (1 .. MaxMessages)]
  /\ came \in [Peers -> Nat]

\* What a peer sent is sent; one's own is pending unless its write failed; and the
\* next own message has a number of its own.
MessageOK(p, m) ==
  /\ m.id <= MaxMessages + own
  /\ m.status = IF m.id <= MaxMessages THEN "sent"
                ELSE IF <<p, m.id>> \in failed THEN "failed" ELSE "pending"

\* What is missed or not heard has come, and before there is a listener nothing is
\* heard; the history has what is heard.
HeardOK(p) ==
  /\ missed[p] \subseteq 1 .. arrived[p] /\ unheard[p] \subseteq 1 .. arrived[p]
  /\ listeners = 0 => 1 .. arrived[p] \subseteq unheard[p]
  /\ Ids(history[p]) \cap (1 .. MaxMessages) = (1 .. arrived[p]) \ unheard[p]

Heard(p) == missed[p] \ unheard[p]
Unread(p) ==
  /\ Heard(p) # {} => Counts(conversations, p, Cardinality(Heard(p)))
  /\ AtMost(conversations, p, listeners * came[p])

InboxInv ==
  /\ InboxTyped
  /\ active # Nobody => Find(conversations, active) # {} /\ missed[active] = {}
  /\ sending \cup failed \subseteq Peers \X (MaxMessages + 1 .. MaxMessages + own)
  /\ \A p \in Peers :
       /\ HeardOK(p)
       /\ Unread(p)
       /\ \A i \in DOMAIN history[p] : MessageOK(p, history[p][i])

LEMMA InboxInvTrue ==
  ASSUME InboxInv
  PROVE  InboxTypeOK /\ InboxIsTrue
<1>1. conversations \in Seq(Conversation) /\ Singled(conversations)
  BY DEF InboxInv, InboxTyped, StoreOK, Stores, Now
<1>2. InboxTypeOK
  BY <1>1, ConversationType DEF InboxTypeOK, InboxInv, Singled
<1>3. ASSUME NEW p \in Peers PROVE HistoryTrue(p) /\ CountTrue(p) /\ StatusTrue(p)
  <2>1. Distinct(history[p]) /\ HeardOK(p) /\ Unread(p)
    BY DEF InboxInv, InboxTyped, StoreOK, Now
  <2>2. HistoryTrue(p)
    BY <2>1 DEF HistoryTrue, Distinct, HeardOK
  <2>3. CountTrue(p)
    BY <2>1 DEF CountTrue, Unread, Heard, Counts, AtMost
  <2>4. StatusTrue(p)
    BY DEF StatusTrue, InboxInv, MessageOK
  <2> QED
    BY <2>2, <2>3, <2>4
<1> QED
  BY <1>2, <1>3 DEF InboxIsTrue

LEMMA InboxInvInit == InboxInit => InboxInv
<1> SUFFICES ASSUME InboxInit PROVE InboxInv
  OBVIOUS
<1>1. conversations \in Seq(Conversation) /\ DOMAIN conversations = {}
  <2>1. conversations = <<>>
    BY DEF InboxInit
  <2> QED
    BY <2>1
<1>2. history \in [Peers -> Seq(Message)] /\ \A p \in Peers : DOMAIN history[p] = {}
  <2>1. <<>> \in Seq(Message) /\ DOMAIN <<>> = {}
    OBVIOUS
  <2> QED
    BY <2>1 DEF InboxInit
<1>3. StoreOK(Now)
  BY <1>1, <1>2 DEF StoreOK, Stores, Now, Singled, Distinct
<1>4. InboxTyped
  BY <1>3, InboxBounds DEF InboxInit, InboxTyped
<1>5. ASSUME NEW p \in Peers PROVE HeardOK(p) /\ Unread(p)
  <2>1. arrived[p] = 0 /\ missed[p] = {} /\ unheard[p] = {} /\ 1 .. 0 = {}
    BY DEF InboxInit
  <2>2. Ids(history[p]) = {} /\ Find(conversations, p) = {}
    BY <1>1, <1>2 DEF Ids, Find
  <2> QED
    BY <2>1, <2>2 DEF HeardOK, Unread, Heard, AtMost
<1> QED
  BY <1>2, <1>4, <1>5 DEF InboxInit, InboxInv

LEMMA SubintervalFinite ==
  ASSUME NEW S, S \subseteq 1 .. MaxMessages
  PROVE  IsFiniteSet(S) /\ Cardinality(S) \in Nat
<1>1. 1 \in Int /\ MaxMessages \in Int
  BY InboxBounds
<1>2. IsFiniteSet(1 .. MaxMessages)
  BY <1>1, FS_Interval
<1>3. IsFiniteSet(S)
  BY <1>2, FS_Subset
<1> QED
  BY <1>3, FS_CardinalityType

\* A bound that is not exceeded is not exceeded by a larger one.
LEMMA AtMostMore ==
  ASSUME NEW convs \in Seq(Conversation), NEW p \in Peers, NEW c \in Nat, NEW d \in Nat,
         c <= d, AtMost(convs, p, c)
  PROVE  AtMost(convs, p, d)
<1>1. \A i \in Find(convs, p) : convs[i].unread \in Nat
  BY ConversationType DEF Find
<1> QED
  BY <1>1 DEF AtMost

LEMMA Times ==
  ASSUME NEW k \in Nat, NEW n \in Nat
  PROVE  /\ k * n \in Nat /\ k * (n + 1) = k * n + k
         /\ (k + 1) * n = k * n + n /\ k * n <= (k + 1) * n
<1>1. k * n \in Nat
  OBVIOUS
<1>2. k * (n + 1) = k * n + k /\ (k + 1) * n = k * n + n
  OBVIOUS
<1> QED
  BY <1>1, <1>2

LEMMA InitListenerKeeps ==
  ASSUME InboxInv, InitListener
  PROVE  InboxInv'
<1>1. /\ listeners' = listeners + 1
      /\ UNCHANGED <<history, conversations, active, arrived, sending, own, pushCount,
                     missed, unheard, came, failed>>
  BY DEF InitListener
<1>2. listeners \in Nat /\ conversations \in Seq(Conversation)
  BY DEF InboxInv, InboxTyped, StoreOK, Stores, Now
<1>3. InboxTyped'
  BY <1>1, <1>2 DEF InboxInv, InboxTyped, StoreOK, Now
<1>4. ASSUME NEW p \in Peers PROVE HeardOK(p)' /\ Unread(p)'
  <2>1. HeardOK(p) /\ Unread(p) /\ came[p] \in Nat
    BY DEF InboxInv, InboxTyped
  <2> DEFINE c == listeners * came[p]
             d == (listeners + 1) * came[p]
  <2>2. c \in Nat /\ d \in Nat /\ c <= d
    BY <1>2, <2>1, Times
  <2>3. AtMost(conversations, p, c)
    BY <2>1 DEF Unread
  <2> HIDE DEF c, d
  <2>4. AtMost(conversations, p, d)
    BY <1>2, <2>2, <2>3, AtMostMore
  <2>5. HeardOK(p)'
    BY <1>1, <1>2, <2>1 DEF HeardOK
  <2> QED
    BY <1>1, <2>1, <2>4, <2>5 DEF Unread, Heard, Counts, AtMost, d
<1> QED
  BY <1>1, <1>3, <1>4 DEF InboxInv, MessageOK

LEMMA SetActiveKeeps ==
  ASSUME InboxInv, NEW p \in Peers, SetActiveConversation(p)
  PROVE  InboxInv'
<1>1. /\ Find(conversations, p) # {} /\ active' = p
      /\ conversations' = UpdateConversation(conversations, p, 0)
      /\ missed' = [missed EXCEPT ![p] = {}]
      /\ came' = [came EXCEPT ![p] = 0]
      /\ UNCHANGED <<listeners, history, arrived, sending, own, pushCount, unheard, failed>>
  BY DEF SetActiveConversation, MarkAsRead
<1>2. conversations \in Seq(Conversation) /\ Singled(conversations) /\ listeners \in Nat
  BY DEF InboxInv, InboxTyped, StoreOK, Stores, Now
<1>3. /\ conversations' \in Seq(Conversation) /\ Singled(conversations')
      /\ \A i \in DOMAIN conversations :
           conversations'[i].unread = IF conversations[i].peer = p THEN 0 ELSE conversations[i].unread
      /\ \A q \in Peers : Find(conversations', q) = Find(conversations, q)
  <2> DEFINE new == UpdateConversation(conversations, p, 0)
  <2>1. /\ new \in Seq(Conversation) /\ Singled(new)
        /\ \A i \in DOMAIN conversations :
             new[i].unread = IF conversations[i].peer = p THEN 0 ELSE conversations[i].unread
        /\ \A q \in Peers : Find(new, q) = Find(conversations, q)
    <3> HIDE DEF new
    <3>1. 0 \in Nat /\ new = UpdateConversation(conversations, p, 0)
      BY DEF new
    <3> QED
      BY <1>2, <3>1, UpdateConversationFacts
  <2> QED
    BY <1>1, <2>1
<1>4. /\ missed' \in [Peers -> SUBSET (1 .. MaxMessages)] /\ missed'[p] = {}
      /\ came' \in [Peers -> Nat] /\ came'[p] = 0
      /\ \A q \in Peers \ {p} : missed'[q] = missed[q] /\ came'[q] = came[q]
  BY <1>1 DEF InboxInv, InboxTyped
<1>5. InboxTyped'
  BY <1>1, <1>3, <1>4 DEF InboxInv, InboxTyped, StoreOK, Stores, Now
<1>6. ASSUME NEW q \in Peers PROVE HeardOK(q)' /\ Unread(q)'
  <2>1. HeardOK(q) /\ Unread(q)
    BY DEF InboxInv
  <2>2. HeardOK(q)'
    BY <1>1, <1>4, <2>1 DEF HeardOK
  <2>3. CASE q = p
    <3>1. Heard(p)' = {}
      BY <1>4 DEF Heard
    <3>2. listeners * 0 = 0
      BY <1>2
    <3>3. AtMost(conversations', p, 0)
      BY <1>3 DEF AtMost, Find
    <3> QED
      BY <1>1, <1>4, <2>2, <2>3, <3>1, <3>2, <3>3 DEF Unread
  <2>4. CASE q # p
    <3>1. Heard(q)' = Heard(q) /\ (listeners * came[q])' = listeners * came[q]
      BY <1>1, <1>4, <2>4 DEF Heard
    <3> QED
      BY <1>3, <2>1, <2>2, <2>4, <3>1 DEF Unread, Counts, AtMost, Find
  <2> QED
    BY <2>3, <2>4
<1>7. ASSUME NEW q \in Peers, NEW i \in DOMAIN history'[q] PROVE MessageOK(q, history[q][i])'
  BY <1>1, <1>7 DEF InboxInv, MessageOK
<1> QED
  BY <1>1, <1>3, <1>4, <1>5, <1>6, <1>7 DEF InboxInv

LEMMA AddConversationKeeps ==
  ASSUME InboxInv, NEW p \in Peers, AddConversationFromFriend(p)
  PROVE  InboxInv'
<1>1. /\ active' = p
      /\ missed' = [missed EXCEPT ![p] = {}]
      /\ UNCHANGED <<listeners, history, arrived, sending, own, pushCount, unheard, came, failed>>
      /\ Find(conversations, p) # {} => conversations' = conversations
      /\ Find(conversations, p) = {} =>
           conversations' = <<[peer |-> p, unread |-> 0]>> \o conversations
  BY DEF AddConversationFromFriend, Known
<1>2. conversations \in Seq(Conversation) /\ Singled(conversations)
  BY DEF InboxInv, InboxTyped, StoreOK, Stores, Now
<1>3. /\ conversations' \in Seq(Conversation) /\ Singled(conversations')
      /\ Find(conversations', p) # {}
      /\ \A q \in Peers : \A c \in Nat : Counts(conversations, q, c) => Counts(conversations', q, c)
      /\ \A q \in Peers : \A c \in Nat : AtMost(conversations, q, c) => AtMost(conversations', q, c)
  <2>1. CASE Find(conversations, p) # {}
    BY <1>1, <1>2, <2>1
  <2>2. CASE Find(conversations, p) = {}
    <3>1. /\ conversations' \in Seq(Conversation) /\ Singled(conversations')
          /\ Counts(conversations', p, 0) /\ AtMost(conversations', p, 0)
          /\ \A q \in Peers : \A c \in Nat : Counts(conversations, q, c) => Counts(conversations', q, c)
          /\ \A q \in Peers \ {p} : \A c \in Nat :
               AtMost(conversations, q, c) => AtMost(conversations', q, c)
      BY <1>1, <1>2, <2>2, PrependFacts
    <3>2. \A c \in Nat : AtMost(conversations', p, c)
      BY <3>1, AtMostMore
    <3> QED
      BY <3>1, <3>2 DEF Counts
  <2> QED
    BY <2>1, <2>2
<1>4. /\ missed' \in [Peers -> SUBSET (1 .. MaxMessages)] /\ missed'[p] = {}
      /\ \A q \in Peers \ {p} : missed'[q] = missed[q]
  BY <1>1 DEF InboxInv, InboxTyped
<1>5. InboxTyped'
  BY <1>1, <1>3, <1>4 DEF InboxInv, InboxTyped, StoreOK, Stores, Now
<1>6. ASSUME NEW q \in Peers PROVE HeardOK(q)' /\ Unread(q)'
  <2>1. HeardOK(q) /\ Unread(q) /\ missed[q] \in SUBSET (1 .. MaxMessages)
        /\ listeners \in Nat /\ came[q] \in Nat
    BY DEF InboxInv, InboxTyped
  <2>2. HeardOK(q)'
    BY <1>1, <1>4, <2>1 DEF HeardOK
  <2>3. listeners * came[q] \in Nat
    BY <2>1, Times
  <2> DEFINE c == listeners * came[q]
  <2>4. AtMost(conversations', q, c)
    <3>1. c \in Nat /\ AtMost(conversations, q, c)
      BY <2>1, <2>3 DEF Unread
    <3> HIDE DEF c
    <3> QED
      BY <1>3, <3>1
  <2>5. CASE q = p
    <3>1. Heard(p)' = {}
      BY <1>4 DEF Heard
    <3> QED
      BY <1>1, <2>2, <2>4, <2>5, <3>1 DEF Unread
  <2>6. CASE q # p
    <3>1. Heard(q)' = Heard(q)
      BY <1>1, <1>4, <2>6 DEF Heard
    <3>2. Cardinality(Heard(q)) \in Nat
      BY <2>1, SubintervalFinite DEF Heard
    <3> QED
      BY <1>1, <1>3, <2>1, <2>2, <2>4, <3>1, <3>2 DEF Unread
  <2> QED
    BY <2>5, <2>6
<1>7. ASSUME NEW q \in Peers, NEW i \in DOMAIN history'[q] PROVE MessageOK(q, history[q][i])'
  BY <1>1, <1>7 DEF InboxInv, MessageOK
<1> QED
  BY <1>1, <1>3, <1>4, <1>5, <1>6, <1>7 DEF InboxInv

LEMMA ChatPushKeeps ==
  ASSUME InboxInv, NEW p \in Peers, NEW id \in 1 .. MaxMessages, ChatPush(p, id)
  PROVE  InboxInv'
<1> DEFINE st == AllHandle(p, id)
<1>1. /\ pushCount' = pushCount + 1 /\ id \in 1 .. arrived[p] + 1
      /\ arrived' = [arrived EXCEPT ![p] = IF id > @ THEN id ELSE @]
      /\ history' = st.history /\ conversations' = st.conversations
      /\ missed' = IF active = p THEN missed ELSE [missed EXCEPT ![p] = @ \cup {id}]
      /\ unheard' = [unheard EXCEPT ![p] = IF listeners = 0 THEN @ \cup {id} ELSE @ \ {id}]
      /\ came' = [came EXCEPT ![p] = IF listeners = 0 THEN @ ELSE @ + 1]
      /\ UNCHANGED <<listeners, active, sending, own, failed>>
  BY DEF ChatPush
<1>2. MaxMessages \in Nat /\ id \in Nat
  BY InboxBounds
<1>3. /\ listeners \in Nat /\ StoreOK(Now) /\ own \in Nat /\ pushCount \in Nat
      /\ arrived[p] \in 0 .. MaxMessages /\ came \in [Peers -> Nat]
  BY DEF InboxInv, InboxTyped
<1>4. AfterPush(st, p, id, listeners)
  BY <1>2, <1>3, AllHandleFacts
<1> HIDE DEF st
<1>5. /\ StoreOK(Now)'
      /\ \A q \in Peers \ {p} : \A c \in Nat : Counts(conversations, q, c) => Counts(conversations', q, c)
      /\ \A q \in Peers \ {p} : \A c \in Nat : AtMost(conversations, q, c) => AtMost(conversations', q, c)
      /\ \A c \in Nat : AtMost(conversations, p, c) => AtMost(conversations', p, c + listeners)
      /\ listeners = 0 => history' = history /\ conversations' = conversations
      /\ listeners # 0 =>
           /\ history' = [history EXCEPT ![p] = AddMessage(@, Pushed(id))]
           /\ Counts(conversations', p, 0)
           /\ active # p =>
                /\ Counts(conversations', p, 1)
                /\ \A c \in Nat : Counts(conversations, p, c) => Counts(conversations', p, c + 1)
  BY <1>1, <1>4 DEF AfterPush, StoreOK, Stores, Now
<1>6. /\ missed \in [Peers -> SUBSET (1 .. MaxMessages)] /\ missed' \in [Peers -> SUBSET (1 .. MaxMessages)]
      /\ unheard \in [Peers -> SUBSET (1 .. MaxMessages)] /\ unheard' \in [Peers -> SUBSET (1 .. MaxMessages)]
  BY <1>1 DEF InboxInv, InboxTyped
<1>7. /\ arrived' \in [Peers -> 0 .. MaxMessages] /\ came' \in [Peers -> Nat]
      /\ arrived'[p] = (IF id > arrived[p] THEN id ELSE arrived[p])
      /\ came'[p] = (IF listeners = 0 THEN came[p] ELSE came[p] + 1)
      /\ unheard'[p] = (IF listeners = 0 THEN unheard[p] \cup {id} ELSE unheard[p] \ {id})
      /\ \A q \in Peers \ {p} : /\ arrived'[q] = arrived[q] /\ came'[q] = came[q]
                               /\ missed'[q] = missed[q] /\ unheard'[q] = unheard[q]
  <2>1. (IF id > arrived[p] THEN id ELSE arrived[p]) \in 0 .. MaxMessages
    BY <1>2, <1>3
  <2> QED
    BY <1>1, <1>3, <1>6, <2>1 DEF InboxInv, InboxTyped
<1>8. InboxTyped'
  BY <1>1, <1>3, <1>5, <1>6, <1>7 DEF InboxInv, InboxTyped
<1>9. ASSUME NEW q \in Peers PROVE Cardinality(Heard(q)) \in Nat /\ IsFiniteSet(Heard(q))
  <2>1. Heard(q) \subseteq 1 .. MaxMessages
    BY <1>6 DEF Heard
  <2> QED
    BY <2>1, SubintervalFinite
<1>10a. HeardOK(p)'
  <2>1. HeardOK(p)
    BY DEF InboxInv
  <2>2. 1 .. arrived'[p] = (1 .. arrived[p]) \cup {id}
    BY <1>1, <1>2, <1>3, <1>7
  <2>3. missed'[p] \subseteq missed[p] \cup {id}
    BY <1>1, <1>6
  <2>4. CASE listeners = 0
    <3>1. Ids(history'[p]) = Ids(history[p])
      BY <1>5, <2>4
    <3>2. (1 .. arrived[p]) \ unheard[p] = {} /\ (1 .. arrived'[p]) \ unheard'[p] = {}
      BY <1>7, <2>1, <2>2, <2>4 DEF HeardOK
    <3> QED
      BY <1>1, <1>7, <2>1, <2>2, <2>3, <2>4, <3>1, <3>2 DEF HeardOK
  <2>5. CASE listeners # 0
    <3>1. Ids(history'[p]) = Ids(history[p]) \cup {id}
      <4>1. history \in [Peers -> Seq(Message)] /\ Distinct(history[p])
        BY <1>3 DEF StoreOK, Stores, Now
      <4>2. Pushed(id) \in Message /\ Pushed(id).id = id
        BY <1>2 DEF Pushed, Message
      <4>3. history'[p] = AddMessage(history[p], Pushed(id))
        BY <1>5, <2>5, <4>1
      <4> QED
        BY <4>1, <4>2, <4>3, AddMessageFacts
    <3>2. (Ids(history[p]) \cup {id}) \cap (1 .. MaxMessages)
            = ((1 .. arrived[p]) \cup {id}) \ (unheard[p] \ {id})
      BY <2>1 DEF HeardOK
    <3> QED
      BY <1>1, <1>7, <2>1, <2>2, <2>3, <2>5, <3>1, <3>2 DEF HeardOK
  <2> QED
    BY <2>4, <2>5
<1>10b. ASSUME NEW q \in Peers PROVE HeardOK(q)'
  <2>1. CASE q # p
    <3>1. history'[q] = history[q]
      <4>1. history \in [Peers -> Seq(Message)]
        BY <1>3 DEF StoreOK, Stores, Now
      <4> QED
        BY <1>5, <2>1, <4>1
    <3> QED
      BY <1>1, <1>7, <2>1, <3>1 DEF InboxInv, HeardOK
  <2> QED
    BY <1>10a, <2>1
<1>10c. ASSUME NEW q \in Peers PROVE AtMost(conversations, q, listeners * came[q])'
  <2>1. AtMost(conversations, q, listeners * came[q]) /\ listeners * came[q] \in Nat
    BY <1>3, Times DEF InboxInv, Unread
  <2> DEFINE c == listeners * came[q]
             d == listeners * came'[q]
  <2>2. q # p => d = c
    BY <1>7
  <2>3. q = p => d = c + listeners \/ (listeners = 0 /\ d = c)
    BY <1>3, <1>7, Times
  <2>4. AtMost(conversations, q, c) /\ c \in Nat
    BY <2>1
  <2> HIDE DEF c, d
  <2>5. AtMost(conversations', q, d)
    BY <1>5, <2>2, <2>3, <2>4
  <2> QED
    BY <1>1, <2>5 DEF AtMost, d
<1>10d. ASSUME NEW q \in Peers, Heard(q)' # {}
        PROVE  Counts(conversations, q, Cardinality(Heard(q)))'
  <2>1. Heard(q) # {} => Counts(conversations, q, Cardinality(Heard(q)))
    BY DEF InboxInv, Unread
  <2>2. CASE listeners = 0
    <3>1. Heard(q)' = {}
      BY <1>1, <1>10b, <2>2 DEF HeardOK, Heard
    <3> QED
      BY <1>10d, <3>1
  <2>3. CASE listeners # 0 /\ q # p
    <3>1. Heard(q)' = Heard(q)
      BY <1>7, <2>3 DEF Heard
    <3> QED
      BY <1>5, <1>9, <1>10d, <2>1, <2>3, <3>1
  <2>4. CASE listeners # 0 /\ q = p /\ active = p
    <3>1. Heard(p)' = {}
      BY <1>1, <2>4, InboxBounds DEF InboxInv, Heard
    <3> QED
      BY <1>10d, <2>4, <3>1
  <2>5. CASE listeners # 0 /\ q = p /\ active # p
    <3>1. Heard(p)' = Heard(p) \cup {id}
      BY <1>1, <1>6, <1>7, <2>5 DEF Heard
    <3>2. Cardinality(Heard(p) \cup {id}) = Cardinality(Heard(p))
          \/ Cardinality(Heard(p) \cup {id}) = Cardinality(Heard(p)) + 1
      BY <1>9, FS_AddElement
    <3>3. conversations' \in Seq(Conversation)
      BY <1>5 DEF StoreOK, Stores, Now
    <3>4. CASE Heard(p) = {}
      <4>1. Heard(p)' = {id} /\ Cardinality({id}) = 1
        BY <3>1, <3>4, FS_Singleton
      <4> QED
        BY <1>5, <2>5, <4>1
    <3>5. CASE Heard(p) # {}
      <4>1. Counts(conversations', p, Cardinality(Heard(p)) + 1)
        BY <1>5, <1>9, <2>1, <2>5, <3>5
      <4>2. Counts(conversations', p, Cardinality(Heard(p)))
        BY <1>9, <3>3, <4>1, CountsLess
      <4> QED
        BY <2>5, <3>1, <3>2, <4>1, <4>2
    <3> QED
      BY <3>4, <3>5
  <2> QED
    BY <2>2, <2>3, <2>4, <2>5
<1>10. ASSUME NEW q \in Peers PROVE HeardOK(q)' /\ Unread(q)'
  BY <1>10b, <1>10c, <1>10d DEF Unread
<1>11. ASSUME NEW q \in Peers, NEW i \in DOMAIN history'[q] PROVE MessageOK(q, history[q][i])'
  <2>1. \A j \in DOMAIN history[q] : MessageOK(q, history[q][j])
    BY DEF InboxInv
  <2>2. history \in [Peers -> Seq(Message)] /\ Distinct(history[p])
    BY <1>3 DEF StoreOK, Stores, Now
  <2>3. CASE listeners = 0 \/ q # p
    <3>1. history'[q] = history[q]
      BY <1>5, <2>2, <2>3
    <3> QED
      BY <1>1, <1>11, <2>1, <3>1 DEF MessageOK
  <2>4. CASE listeners # 0 /\ q = p
    <3>1. history'[p] = AddMessage(history[p], Pushed(id))
      BY <1>5, <2>2, <2>4
    <3>2. Pushed(id) \in Message /\ Pushed(id).id = id /\ Pushed(id).status = "sent"
      BY <1>2 DEF Pushed, Message
    <3>3. history'[p][i] = Pushed(id) \/ (i \in DOMAIN history[p] /\ history'[p][i] = history[p][i])
      BY <1>11, <2>2, <2>4, <3>1, <3>2, AddMessageFacts
    <3> QED
      BY <1>1, <1>2, <1>3, <2>1, <2>4, <3>2, <3>3 DEF MessageOK
  <2> QED
    BY <2>3, <2>4
<1>12. active' # Nobody => Find(conversations', active') # {} /\ missed'[active'] = {}
  <2> SUFFICES ASSUME active # Nobody PROVE Find(conversations', active) # {} /\ missed'[active] = {}
    BY <1>1
  <2>1. active \in Peers /\ Find(conversations, active) # {} /\ missed[active] = {}
    BY DEF InboxInv, InboxTyped
  <2>2. missed'[active] = {}
    BY <1>1, <1>6, <2>1
  <2>3. Counts(conversations, active, 0)
    <3>1. conversations \in Seq(Conversation)
      BY <1>3 DEF StoreOK, Stores, Now
    <3> QED
      BY <2>1, <3>1, ConversationType DEF Counts, Find
  <2>4. Counts(conversations', active, 0)
    BY <1>5, <2>1, <2>3
  <2> QED
    BY <2>2, <2>4 DEF Counts
<1> QED
  BY <1>1, <1>8, <1>10, <1>11, <1>12 DEF InboxInv

LEMMA SendMessageKeeps ==
  ASSUME InboxInv, SendMessage
  PROVE  InboxInv'
<1> DEFINE id == MaxMessages + own + 1
           msg == [id |-> id, status |-> "pending"]
<1>1. /\ active # Nobody /\ own' = own + 1
      /\ sending' = sending \cup {<<active, id>>}
      /\ history' = [history EXCEPT ![active] = AddMessage(@, msg)]
      /\ UNCHANGED <<listeners, conversations, active, arrived, pushCount,
                     missed, unheard, came, failed>>
  <2>1. MaxMessages \in Nat /\ own \in Nat
    BY InboxBounds DEF InboxInv, InboxTyped
  <2>2. OwnId(own + 1) = id
    BY <2>1 DEF OwnId
  <2> QED
    BY <2>2 DEF SendMessage
<1>2. MaxMessages \in Nat /\ own \in Nat /\ active \in Peers /\ id \in Nat
  BY <1>1, InboxBounds DEF InboxInv, InboxTyped
<1>3. msg \in Message /\ msg.id = id /\ msg.status = "pending"
  BY <1>2 DEF Message
<1>4. id > MaxMessages + own /\ id = MaxMessages + (own + 1)
  BY <1>2
<1> HIDE DEF id, msg
<1>5. history \in [Peers -> Seq(Message)] /\ \A q \in Peers : Distinct(history[q])
  BY DEF InboxInv, InboxTyped, StoreOK, Stores, Now
<1>6. LET new == AddMessage(history[active], msg)
      IN /\ new \in Seq(Message) /\ Distinct(new)
         /\ \A i \in DOMAIN new :
              new[i] = msg \/ (i \in DOMAIN history[active] /\ new[i] = history[active][i])
         /\ Ids(new) = Ids(history[active]) \cup {id}
  BY <1>2, <1>3, <1>5, AddMessageFacts
<1>7. /\ history'[active] = AddMessage(history[active], msg)
      /\ \A q \in Peers \ {active} : history'[q] = history[q]
      /\ history' \in [Peers -> Seq(Message)]
      /\ \A q \in Peers : Distinct(history'[q])
  BY <1>1, <1>2, <1>5, <1>6
<1>8. InboxTyped'
  BY <1>1, <1>2, <1>7 DEF InboxInv, InboxTyped, StoreOK, Stores, Now
<1>9. sending' \cup failed' \subseteq Peers \X (MaxMessages + 1 .. MaxMessages + own')
  BY <1>1, <1>2, <1>4 DEF InboxInv
<1>10. ASSUME NEW q \in Peers, NEW i \in DOMAIN history'[q] PROVE MessageOK(q, history[q][i])'
  <2>1. \A j \in DOMAIN history[q] : MessageOK(q, history[q][j])
    BY DEF InboxInv
  <2>2. \A j \in DOMAIN history[q] : history[q][j].id \in Nat
    <3>1. history[q] \in Seq(Message)
      BY <1>5
    <3>2. \A j \in DOMAIN history[q] : history[q][j] \in Message
      BY <3>1, LenProperties, ElementOfSeq
    <3> QED
      BY <3>2 DEF Message
  <2>3. ASSUME i \in DOMAIN history[q], history'[q][i] = history[q][i] PROVE MessageOK(q, history[q][i])'
    <3>1. history[q][i].id <= MaxMessages + own /\ history[q][i].id \in Nat
      BY <2>1, <2>2, <2>3 DEF MessageOK
    <3>2. history[q][i].id # id
      BY <1>2, <1>4, <3>1
    <3>3. MessageOK(q, history[q][i])
      BY <2>1, <2>3
    <3> QED
      BY <1>1, <1>2, <2>3, <3>1, <3>2, <3>3 DEF MessageOK
  <2>4. ASSUME q = active, history'[q][i] = msg PROVE MessageOK(q, history[q][i])'
    <3>1. <<q, id>> \notin failed
      BY <1>2, <1>4 DEF InboxInv
    <3> QED
      BY <1>1, <1>2, <1>3, <1>4, <2>4, <3>1 DEF MessageOK
  <2> QED
    BY <1>6, <1>7, <1>10, <2>3, <2>4
<1>11. ASSUME NEW q \in Peers PROVE HeardOK(q)' /\ Unread(q)'
  <2>1. Unread(q)'
    BY <1>1 DEF InboxInv, Unread, Heard, Counts, AtMost
  <2>2. Ids(history'[q]) \cap (1 .. MaxMessages) = Ids(history[q]) \cap (1 .. MaxMessages)
    BY <1>2, <1>4, <1>6, <1>7
  <2> QED
    BY <1>1, <2>1, <2>2 DEF InboxInv, HeardOK
<1> QED
  BY <1>1, <1>8, <1>9, <1>10, <1>11 DEF InboxInv

LEMMA SentKeeps ==
  ASSUME InboxInv, NEW p \in Peers, NEW n \in 1 .. MaxMessages, Sent(p, OwnId(n))
  PROVE  InboxInv'
<1> DEFINE id == OwnId(n)
<1>1. /\ <<p, id>> \in sending /\ sending' = sending \ {<<p, id>>}
      /\ \/ history' = history /\ failed' = failed
         \/ /\ history' = [history EXCEPT ![p] = SetStatus(@, id, "failed")]
            /\ failed' = failed \cup {<<p, id>>}
      /\ UNCHANGED <<listeners, conversations, active, arrived, own, pushCount,
                     missed, unheard, came>>
  BY DEF Sent, UpdateMessageStatus
<1>2. MaxMessages \in Nat /\ own \in Nat /\ id > MaxMessages /\ id \in Nat
  BY InboxBounds DEF OwnId, InboxInv, InboxTyped
<1> HIDE DEF id
<1>3. history \in [Peers -> Seq(Message)] /\ \A q \in Peers : Distinct(history[q])
  BY DEF InboxInv, InboxTyped, StoreOK, Stores, Now
<1>4. LET new == SetStatus(history[p], id, "failed")
      IN /\ new \in Seq(Message) /\ DOMAIN new = DOMAIN history[p]
         /\ \A i \in DOMAIN new :
              /\ new[i].id = history[p][i].id
              /\ history[p][i].id # id => new[i] = history[p][i]
              /\ history[p][i].id = id => new[i].status = "failed"
  <2> DEFINE msgs == history[p]
             new == SetStatus(msgs, id, "failed")
  <2>1. msgs \in Seq(Message)
    BY <1>3
  <2> HIDE DEF msgs
  <2>2. Len(msgs) \in Nat /\ DOMAIN msgs = 1 .. Len(msgs) /\ \A i \in DOMAIN msgs : msgs[i] \in Message
    BY <2>1, LenProperties
  <2>3. \A i \in DOMAIN msgs :
          new[i] = IF msgs[i].id = id THEN [id |-> msgs[i].id, status |-> "failed"] ELSE msgs[i]
    BY <2>2 DEF SetStatus, Message
  <2>4. new \in [1 .. Len(msgs) -> Message]
    BY <2>2, <2>3 DEF SetStatus, Message
  <2>5. new \in Seq(Message) /\ DOMAIN new = DOMAIN msgs
    BY <2>2, <2>4, FcnIsSeq
  <2> HIDE DEF new
  <2>6. \A i \in DOMAIN new : /\ new[i].id = msgs[i].id
                              /\ msgs[i].id # id => new[i] = msgs[i]
                              /\ msgs[i].id = id => new[i].status = "failed"
    BY <2>3, <2>5
  <2> QED
    BY <2>5, <2>6 DEF msgs, new
<1>5. /\ history' \in [Peers -> Seq(Message)]
      /\ \A q \in Peers : /\ DOMAIN history'[q] = DOMAIN history[q]
                         /\ \A i \in DOMAIN history[q] :
                              /\ history'[q][i].id = history[q][i].id
                              /\ q # p \/ history[q][i].id # id => history'[q][i] = history[q][i]
                              /\ q = p /\ history[q][i].id = id =>
                                   \/ failed' = failed /\ history'[q][i] = history[q][i]
                                   \/ /\ failed' = failed \cup {<<p, id>>}
                                      /\ history'[q][i].status = "failed"
  BY <1>1, <1>3, <1>4
<1>6. \A q \in Peers : Distinct(history'[q])
  BY <1>3, <1>5 DEF Distinct
<1>7. InboxTyped'
  BY <1>1, <1>5, <1>6 DEF InboxInv, InboxTyped, StoreOK, Stores, Now
<1>8. ASSUME NEW q \in Peers, NEW i \in DOMAIN history'[q] PROVE MessageOK(q, history[q][i])'
  <2>1. i \in DOMAIN history[q] /\ MessageOK(q, history[q][i])
    BY <1>5, <1>8 DEF InboxInv
  <2>2. history'[q][i].id = history[q][i].id
    BY <1>5, <2>1
  <2>3. CASE q = p /\ history[q][i].id = id
    BY <1>1, <1>2, <1>5, <2>1, <2>2, <2>3 DEF MessageOK
  <2>4. CASE q # p \/ history[q][i].id # id
    <3>1. history'[q][i] = history[q][i] /\ (<<q, history[q][i].id>> \in failed' <=> <<q, history[q][i].id>> \in failed)
      BY <1>1, <1>5, <2>1, <2>4
    <3> QED
      BY <1>1, <2>1, <3>1 DEF MessageOK
  <2> QED
    BY <2>3, <2>4
<1>9. ASSUME NEW q \in Peers PROVE HeardOK(q)' /\ Unread(q)'
  <2>1. Ids(history'[q]) = Ids(history[q])
    BY <1>5 DEF Ids
  <2>2. HeardOK(q) /\ Unread(q)
    BY DEF InboxInv
  <2> QED
    BY <1>1, <2>1, <2>2 DEF HeardOK, Unread, Heard, Counts, AtMost
<1>10. sending' \cup failed' \subseteq Peers \X (MaxMessages + 1 .. MaxMessages + own')
  BY <1>1 DEF InboxInv
<1> QED
  BY <1>1, <1>7, <1>8, <1>9, <1>10 DEF InboxInv

LEMMA InboxInvStep == InboxInv /\ [InboxNext]_inboxVars => InboxInv'
<1> SUFFICES ASSUME InboxInv, [InboxNext]_inboxVars PROVE InboxInv'
  OBVIOUS
<1>1. CASE UNCHANGED inboxVars
  BY <1>1 DEF inboxVars, InboxInv, InboxTyped, StoreOK, Now, HeardOK, Unread, Heard, MessageOK,
            Counts, AtMost
<1>2. CASE InitListener \/ SendMessage
  BY <1>2, InitListenerKeeps, SendMessageKeeps
<1>3. ASSUME NEW p \in Peers, SetActiveConversation(p) \/ AddConversationFromFriend(p)
      PROVE  InboxInv'
  BY <1>3, SetActiveKeeps, AddConversationKeeps
<1>4. ASSUME NEW p \in Peers, NEW id \in 1 .. MaxMessages, ChatPush(p, id) PROVE InboxInv'
  BY <1>4, ChatPushKeeps
<1>5. ASSUME NEW p \in Peers, NEW n \in 1 .. MaxMessages, Sent(p, OwnId(n)) PROVE InboxInv'
  BY <1>5, SentKeeps
<1> QED
  BY <1>1, <1>2, <1>3, <1>4, <1>5 DEF InboxNext

\* What the client shows is true but for what comes before the page is mounted for
\* the first time: each message that was heard once, what was heard and not opened
\* counted and no push counted more than once per listener, the status of one's own
\* messages that of their writes.  For any peers, listeners, pushes and bounds.
THEOREM InboxTrue == InboxSpec => [](InboxTypeOK /\ InboxIsTrue)
<1>1. InboxInv => InboxTypeOK /\ InboxIsTrue
  BY InboxInvTrue
<1> QED
  BY <1>1, InboxInvInit, InboxInvStep, PTL DEF InboxSpec

-----------------------------------------------------------------------------
(***************************************************************************)
(* MCWeb: the five invariants side by side.  A step of one part leaves the *)
(* variables of the others alone.                                          *)
(***************************************************************************)

CallsBounded == calls \in 0 .. MaxCalls

LEMMA CallsBoundedStep ==
  CallsBounded /\ [FriendsNext]_friendsVars => CallsBounded'
<1> SUFFICES ASSUME CallsBounded, [FriendsNext]_friendsVars PROVE CallsBounded'
  OBVIOUS
<1>1. ASSUME NEW h \in FriendHandlers, NEW r, Begin(h, r) PROVE CallsBounded'
  BY <1>1, MaxCallsAssumption DEF Begin, CallsBounded
<1>2. ASSUME NEW h \in FriendHandlers, SendIsFriend(h) \/ Answer(h) \/ DeleteFriend(h)
      PROVE  CallsBounded'
  BY <1>1, <1>2 DEF SendIsFriend, Answer, DeleteFriend
<1>3. ASSUME NEW h \in FriendHandlers,
             \/ SendGetPending(h) \/ CreateRequest(h) \/ UpdateRequestStatus(h)
             \/ InsertFriend(h) \/ UpdateDeleted(h) \/ Commit(h) \/ SQLFails(h)
      PROVE  UNCHANGED calls
  BY <1>3 DEF SendGetPending, CreateRequest, UpdateRequestStatus, InsertFriend, UpdateDeleted,
              Commit, SQLFails
<1>4. CASE UNCHANGED friendsVars
  BY <1>4 DEF friendsVars, CallsBounded
<1> QED
  BY <1>2, <1>3, <1>4 DEF FriendsNext, CallsBounded

LEMMA FriendsInvTyped ==
  ASSUME FriendsInv, CallsBounded
  PROVE  FriendsTypeOK
<1>1. ASSUME NEW i \in DOMAIN requests
      PROVE  /\ <<requests[i].from, requests[i].to>> \in Pairs
             /\ requests[i].status \in {"pending", "accepted", "rejected"}
  <2>1. requests[i] \in Request /\ requests[i].from # requests[i].to
    BY ElementOfSeq, LenProperties DEF FriendsInv, FriendsTyping
  <2> QED
    BY <2>1 DEF Request, Pairs
<1>2. ASSUME NEW p \in Pairs PROVE Cardinality(Written(p)) <= 1
  <2>1. \A g, h \in Written(p) : g = h
    BY DEF Written, FriendsInv, HeldOnce
  <2>2. CASE Written(p) = {}
    BY <2>2, FS_EmptySet
  <2>3. CASE Written(p) # {}
    <3>1. PICK h : Written(p) = {h}
      BY <2>1, <2>3
    <3>2. Cardinality({h}) = 1
      BY FS_Singleton
    <3> QED
      BY <3>1, <3>2
  <2> QED
    BY <2>2, <2>3
<1> QED
  BY <1>1, <1>2 DEF FriendsTypeOK, FriendsInv, FriendsTyping, RowStates, CallsBounded

WebInv == AccountsInv /\ ProfilesInv /\ FriendsInv /\ CallsBounded /\ IDInv /\ InboxInv

LEMMA WebInvInit == WebInit => WebInv
<1>1. FriendsInit => CallsBounded
  BY MaxCallsAssumption DEF FriendsInit, CallsBounded
<1> QED
  BY <1>1, AccountsInvInit, ProfilesInvInit, FriendsInitInv, IDInvInit, InboxInvInit
  DEF WebInit, WebInv

LEMMA WebInvStep == WebInv /\ [WebNext]_webVars => WebInv'
<1> SUFFICES ASSUME WebInv, [WebNext]_webVars PROVE WebInv'
  OBVIOUS
<1>1. /\ [AccountsNext]_accountsVars /\ [ProfilesNext]_profilesVars
      /\ [FriendsNext]_friendsVars /\ [SnowflakeNext]_snowflakeVars /\ [InboxNext]_inboxVars
  BY DEF WebNext, webVars
<1> QED
  BY <1>1, AccountsInvStep, ProfilesInvStep, FriendsNextInv, CallsBoundedStep, IDInvStep,
     InboxInvStep DEF WebInv

\* The types of the five parts, for any users, handlers, node numbers and bounds;
\* with them that no name has two rows of users, that no row of friends is written
\* by two open transactions, and that the client lists a conversation once.
THEOREM WebTyped == WebSpec => []WebTypeOK
<1>1. WebInv => WebTypeOK
  BY AccountsInvGood, ProfilesInvKept, FriendsInvTyped, InboxInvTrue
  DEF WebInv, WebTypeOK, IDInv
<1> QED
  BY <1>1, WebInvInit, WebInvStep, PTL DEF WebSpec

\* Good tokens are the last of each user and platform and were not logged out, and
\* no profile is lost or made up on its way to a room (service/auth.go,
\* service/user.go).
THEOREM AccountsAreSound == WebSpec => []AccountsSound
<1>1. WebInv => AccountsSound
  BY AccountsInvGood, ProfilesInvKept DEF WebInv, AccountsSound
<1> QED
  BY <1>1, WebInvInit, WebInvStep, PTL DEF WebSpec
=============================================================================
