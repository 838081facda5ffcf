------------------------------ MODULE RoomTable ------------------------------
(***************************************************************************)
(* What a game room promises, without requests, locks or broadcasts: a     *)
(* table at which every change is one atomic step.  Room implements it     *)
(* (internal/room/room.go is the code behind both).                        *)
(***************************************************************************)
EXTENDS Integers, FiniteSets

CONSTANTS Users, Creator, SeatCount, TargetSeats

VARIABLES
  table,   \* the seated users: user -> [seat, ready]
  phase    \* "absent", "waiting", "playing"

None == -1
TableSeats == 0 .. SeatCount - 1
Occupied == {table[u].seat : u \in DOMAIN table} \ {None}

Init == table = [u \in {} |-> [seat |-> None, ready |-> FALSE]] /\ phase = "absent"

Open == phase = "absent" /\ phase' = "waiting" /\ UNCHANGED table

\* A newcomer gets a free seat of the table, and is not ready.
Sit(u) ==
  /\ phase = "waiting" /\ u \notin DOMAIN table
  /\ \E s \in TableSeats \ Occupied :
       table' = [v \in DOMAIN table \cup {u} |->
                   IF v = u THEN [seat |-> s, ready |-> FALSE] ELSE table[v]]
  /\ UNCHANGED phase

Rise(u) ==
  /\ u \in DOMAIN table
  /\ table' = [v \in DOMAIN table \ {u} |-> table[v]]
  /\ UNCHANGED phase

Toggle(u) ==
  /\ u \in DOMAIN table
  /\ table' = [table EXCEPT ![u].ready = ~@]
  /\ UNCHANGED phase

\* Only a player who is not ready moves, to a seat nobody has or to no seat.
Move(u, s) ==
  /\ phase = "waiting" /\ u \in DOMAIN table /\ ~table[u].ready
  /\ s \notin Occupied
  /\ table' = [table EXCEPT ![u].seat = s]
  /\ UNCHANGED phase

Start ==
  /\ phase = "waiting" /\ Creator \in DOMAIN table
  /\ Cardinality({u \in DOMAIN table : table[u].ready}) >= SeatCount
  /\ phase' = "playing"
  /\ UNCHANGED table

Next ==
  \/ Open \/ Start
  \/ \E u \in Users : Sit(u) \/ Rise(u) \/ Toggle(u) \/ \E s \in TargetSeats : Move(u, s)

Spec == Init /\ [][Next]_<<table, phase>>
=============================================================================
